--------------------------- MODULE ScenarioProofs ---------------------------
(***************************************************************************)
(* Safety of the scenario simulator for any runs and workers and any       *)
(* number of deaths and redeliveries.                                      *)
(*                                                                         *)
(* That a run's results are recorded once per delivery of its task is a    *)
(* matter of counting: Budget says that the results a run has and those    *)
(* that messages, workers and a request in flight may still record are no  *)
(* more than one and one for each fault.                                   *)
(***************************************************************************)
EXTENDS Scenarios, FiniteSetTheorems, TLAPS

\* Workers that may still record results of r.
Executing(r) == {k \in Worker : held[k] = r /\ ~At(k, "ack")}

One(b) == IF b THEN 1 ELSE 0

\* Messages of r, and the request that will publish or has yet to create it.
Waiting(r) == queue[r] + One(status[r] = "NONE") + One(r \in creating)

Budget ==
  \A r \in Run :
    results[r] + Waiting(r) + Cardinality(Executing(r)) <= 1 + faults

\* Whatever is queued, held or about to be queued has been created.
Created ==
  /\ \A r \in Run : queue[r] > 0 \/ r \in creating => status[r] # "NONE"
  /\ \A k \in Worker : ~At(k, "idle") => status[held[k]] # "NONE"

\* The baseline is committed before the scenario is planned.
BaselineFirst ==
  \A k \in Worker :
    task[k].pc \in {"params", "scenario", "results"} /\ Row(held[k])
      => held[k] \in baseline

CompletedWithRows ==
  \A r \in Run :
    status[r] = "COMPLETED" => results[r] > 0 /\ r \in baseline

\* No session has loaded a COMPLETED run while tasks are delivered once, hence
\* the status of a run with results is written.
NoneSeenCompleted ==
  faults = 0 =>
    \A k \in Worker : ~At(k, "ack") => ~Seen(k, "COMPLETED")

ResultsCompleted ==
  faults = 0 => \A r \in Run : results[r] > 0 => status[r] = "COMPLETED"

\* A worker whose execution, unless it dies, ends with a status that is written:
\* what its session has loaded is no final status, and it accepts a commit.
Able(k) ==
  \/ task[k].pc \in {"begin", "dates"}
  \/ /\ task[k].pc \in {"baseline", "kpis", "params", "scenario", "results", "fail"}
     /\ task[k].seen \notin {"COMPLETED", "FAILED"}
     /\ ~task[k].broken

InHand(r) == \E k \in Worker : held[k] = r /\ Able(k)

Unfinished(r) == r \notin hurt /\ status[r] \in {"QUEUED", "RUNNING"}

\* A session is broken by a flush, and nothing is flushed before the first day.
Fresh == \A k \in Worker : At(k, "begin") \/ At(k, "dates") => ~task[k].broken

\* A run that is not at its end is about to be queued, queued, or executed by a
\* worker that will end it.
UnderWay ==
  \A r \in Run : Unfinished(r) => r \in creating \/ queue[r] > 0 \/ InHand(r)

IInv ==
  /\ TypeOK
  /\ Budget
  /\ Created
  /\ DeletedLeavesNothing
  /\ BaselineFirst
  /\ CompletedWithRows
  /\ NoneSeenCompleted
  /\ ResultsCompleted
  /\ Fresh
  /\ UnderWay

-----------------------------------------------------------------------------
(* Types *)

LEMMA SessionTyped ==
  ASSUME NEW l \in Step, NEW s \in Status
  PROVE Session(l, s) \in Sessions /\ Session(l, s).pc = l /\ Session(l, s).seen = s
BY DEF Session, Sessions

\* The message in the hand of a worker with a task in progress.
LEMMA HeldRun ==
  ASSUME TypeOK, NEW k \in Worker, ~At(k, "idle")
  PROVE held[k] \in Run
BY DEF TypeOK, BrokerType, Message

LEMMA InitTyped == Init => TypeOK
<1> SUFFICES ASSUME Init PROVE TypeOK
  OBVIOUS
<1>1. Idle \in Sessions /\ Idle.pc = "idle"
  BY SessionTyped DEF Idle, Step, Status
<1> QED
  BY <1>1, ScenarioAssumption
     DEF Init, BrokerInit, TypeOK, BrokerType, Message, Status, At

\* What a worker's step does to its session, and to no other one.
LEMMA SessionStep ==
  ASSUME TypeOK, NEW k \in Worker, NEW x \in Sessions,
         task' = [task EXCEPT ![k] = x]
  PROVE /\ task' \in [Worker -> Sessions]
        /\ task'[k] = x
        /\ \A j \in Worker : j # k => task'[j] = task[j]
BY DEF TypeOK

\* The step takes worker k to l and leaves the others where they are.
Moves(k, l) ==
  /\ task' \in [Worker -> Sessions]
  /\ task'[k].pc = l
  /\ \A j \in Worker : j # k => task'[j] = task[j]

LEMMA GotoMoves ==
  ASSUME TypeOK, NEW k \in Worker, NEW l \in Step, Goto(k, l)
  PROVE /\ Moves(k, l)
        /\ task'[k].seen = task[k].seen /\ task'[k].broken = task[k].broken
<1>1. task[k] \in Sessions /\ task \in [Worker -> Sessions]
  BY DEF TypeOK
<1>2. [task[k] EXCEPT !.pc = l] \in Sessions
  BY <1>1 DEF Sessions
<1>3. task' = [task EXCEPT ![k] = [task[k] EXCEPT !.pc = l]]
  BY <1>1 DEF Goto
<1>4. /\ [task[k] EXCEPT !.pc = l].pc = l
      /\ [task[k] EXCEPT !.pc = l].seen = task[k].seen
      /\ [task[k] EXCEPT !.pc = l].broken = task[k].broken
  BY <1>1 DEF Sessions
<1> QED
  BY <1>2, <1>3, <1>4, SessionStep DEF Moves

LEMMA BreakMoves ==
  ASSUME TypeOK, NEW k \in Worker, Break(k)
  PROVE Moves(k, "fail") /\ task'[k].seen = task[k].seen
<1> DEFINE x == [task[k] EXCEPT !.pc = "fail", !.broken = TRUE]
<1>1. task[k] \in Sessions /\ task \in [Worker -> Sessions]
  BY DEF TypeOK
<1>2. x \in Sessions
  BY <1>1 DEF Sessions, Step
<1>3. task' = [task EXCEPT ![k] = x]
  BY <1>1 DEF Break
<1>4. x.pc = "fail" /\ x.seen = task[k].seen
  BY <1>1 DEF Sessions
<1> HIDE DEF x
<1> QED
  BY <1>2, <1>3, <1>4, SessionStep DEF Moves

LEMMA RaiseMoves ==
  ASSUME TypeOK, NEW k \in Worker, PlanDayRaises(k)
  PROVE /\ Moves(k, "fail")
        /\ task'[k].seen = task[k].seen /\ task'[k].broken = task[k].broken
<1> DEFINE x == [task[k] EXCEPT !.pc = "fail", !.partial = TRUE]
<1>1. task[k] \in Sessions /\ task \in [Worker -> Sessions]
  BY DEF TypeOK
<1>2. x \in Sessions
  BY <1>1 DEF Sessions, Step
<1>3. task' = [task EXCEPT ![k] = x]
  BY <1>1 DEF PlanDayRaises
<1>4. x.pc = "fail" /\ x.seen = task[k].seen /\ x.broken = task[k].broken
  BY <1>1 DEF Sessions
<1> HIDE DEF x
<1> QED
  BY <1>2, <1>3, <1>4, SessionStep DEF Moves

LEMMA RefreshMoves ==
  ASSUME TypeOK, NEW k \in Worker, ~At(k, "idle"),
         NEW l \in Step, NEW n \in Step, Refresh(k, l, n)
  PROVE /\ Moves(k, IF MyRow(k) THEN l ELSE n)
        /\ task'[k].seen = status[held[k]] /\ task'[k].broken = task[k].broken
<1> DEFINE m == IF MyRow(k) THEN l ELSE n
           x == [task[k] EXCEPT !.pc = m, !.seen = status[held[k]]]
<1>1. task[k] \in Sessions /\ task \in [Worker -> Sessions] /\ status[held[k]] \in Status
  BY HeldRun DEF TypeOK
<1>2. x \in Sessions
  BY <1>1 DEF Sessions
<1>3. task' = [task EXCEPT ![k] = x]
  BY <1>1 DEF Refresh
<1>4. x.pc = m /\ x.seen = status[held[k]] /\ x.broken = task[k].broken
  BY <1>1 DEF Sessions
<1> HIDE DEF x, m
<1>5. /\ Moves(k, m)
      /\ task'[k].seen = status[held[k]] /\ task'[k].broken = task[k].broken
  BY <1>2, <1>3, <1>4, SessionStep DEF Moves
<1> QED
  BY <1>5 DEF m

LEMMA PlannedMoves ==
  ASSUME TypeOK, NEW k \in Worker, task' = [task EXCEPT ![k].seen = "NONE"]
  PROVE /\ Moves(k, task[k].pc)
        /\ task'[k].seen = "NONE" /\ task'[k].broken = task[k].broken
<1> DEFINE x == [task[k] EXCEPT !.seen = "NONE"]
<1>1. task[k] \in Sessions /\ task \in [Worker -> Sessions]
  BY DEF TypeOK
<1>2. x \in Sessions
  BY <1>1 DEF Sessions, Status
<1>3. task' = [task EXCEPT ![k] = x]
  BY <1>1
<1>4. x.pc = task[k].pc /\ x.seen = "NONE" /\ x.broken = task[k].broken
  BY <1>1 DEF Sessions
<1> HIDE DEF x
<1> QED
  BY <1>2, <1>3, <1>4, SessionStep DEF Moves

TablesTyped ==
  /\ status \in [Run -> Status]
  /\ baseline \subseteq Run
  /\ results \in [Run -> Nat]
  /\ drafts \subseteq Run
  /\ hurt \subseteq Run
  /\ creating \subseteq Run

\* A step of a task in progress keeps the types if it keeps the tables'.
LEMMA MoveTyped ==
  ASSUME TypeOK, NEW k \in Worker, ~At(k, "idle"),
         NEW l \in Step, l # "idle", Moves(k, l),
         UNCHANGED broker, TablesTyped'
  PROVE TypeOK'
<1>1. \A j \in Worker : (At(j, "idle"))' <=> held'[j] = NoTask
  <2> TAKE j \in Worker
  <2>1. CASE j = k
    BY <2>1 DEF TypeOK, Moves, At, broker
  <2>2. CASE j # k
    BY <2>2 DEF TypeOK, Moves, At, broker
  <2> QED BY <2>1, <2>2
<1>2. BrokerType'
  BY DEF TypeOK, BrokerType, broker
<1> QED
  BY <1>1, <1>2 DEF TypeOK, TablesTyped, Moves

\* A worker that ends or loses its task is idle and holds nothing.
LEMMA LeaveTyped ==
  ASSUME TypeOK, NEW k \in Worker, task' = [task EXCEPT ![k] = Idle],
         held' = [held EXCEPT ![k] = NoTask], queue' \in [Run -> Nat],
         faults' \in 0..MaxFaults, UNCHANGED <<tables, hurt, creating>>
  PROVE TypeOK'
<1>1. Idle \in Sessions /\ Idle.pc = "idle"
  BY SessionTyped DEF Idle, Step, Status
<1>2. /\ task' \in [Worker -> Sessions]
      /\ task'[k].pc = "idle"
      /\ \A j \in Worker : j # k => task'[j] = task[j]
  BY <1>1, SessionStep
<1>3. held' \in [Worker -> Run \cup {NoTask}] /\ held'[k] = NoTask
  BY DEF TypeOK, BrokerType, Message
<1>4. \A j \in Worker : (At(j, "idle"))' <=> held'[j] = NoTask
  <2> TAKE j \in Worker
  <2>1. CASE j = k
    BY <1>2, <1>3, <2>1 DEF At
  <2>2. CASE j # k
    <3>1. held'[j] = held[j]
      BY <2>2 DEF TypeOK, BrokerType
    <3> QED
      BY <3>1, <1>2, <2>2 DEF TypeOK, At
  <2> QED BY <2>1, <2>2
<1> QED
  BY <1>2, <1>3, <1>4 DEF TypeOK, BrokerType, Message, tables

LEMMA ApiTyped ==
  ASSUME TypeOK, NEW r \in Run, ApiStep(r)
  PROVE TypeOK'
<1>1. TablesTyped' /\ UNCHANGED <<task, held, faults>>
  BY DEF TypeOK, TablesTyped, ApiStep, CreateScenario, QueueRun, LoseRun,
         DeleteScenario, Publish, broker, tables, Status
<1>2. queue' \in [Run -> Nat]
  BY DEF TypeOK, BrokerType, Message, ApiStep, CreateScenario, QueueRun, LoseRun,
         DeleteScenario, Publish, broker
<1> QED
  BY <1>1, <1>2 DEF TypeOK, TablesTyped, BrokerType, Message, At

LEMMA TakeTyped ==
  ASSUME TypeOK, NEW k \in Worker, TakeTask(k)
  PROVE TypeOK'
<1>1. PICK r \in Run : /\ Reserve(k, r)
                       /\ task' = [task EXCEPT ![k] =
                            Session(IF Row(r) THEN "begin" ELSE "ack", status[r])]
  BY DEF TakeTask
<1> DEFINE x == Session(IF Row(r) THEN "begin" ELSE "ack", status[r])
<1>2. x \in Sessions /\ x.pc # "idle"
  BY SessionTyped DEF TypeOK, Step
<1> HIDE DEF x
<1>3. /\ task' \in [Worker -> Sessions]
      /\ task'[k] = x
      /\ \A j \in Worker : j # k => task'[j] = task[j]
  BY <1>1, <1>2, SessionStep DEF x
<1>4. /\ queue' \in [Run -> Nat] /\ faults' \in 0..MaxFaults
      /\ held' = [held EXCEPT ![k] = r]
  BY <1>1 DEF Reserve, TypeOK, BrokerType, Message
<1>5. held' \in [Worker -> Run \cup {NoTask}] /\ held'[k] = r
  BY <1>4 DEF TypeOK, BrokerType, Message
<1>6. \A j \in Worker : (At(j, "idle"))' <=> held'[j] = NoTask
  <2> TAKE j \in Worker
  <2>1. CASE j = k
    BY <1>2, <1>3, <1>5, <2>1, ScenarioAssumption DEF At
  <2>2. CASE j # k
    <3>1. held'[j] = held[j]
      BY <2>2, <1>4 DEF TypeOK, BrokerType
    <3> QED
      BY <3>1, <1>3, <2>2 DEF TypeOK, At
  <2> QED BY <2>1, <2>2
<1>7. UNCHANGED <<tables, hurt, creating>>
  BY DEF TakeTask
<1> QED
  BY <1>3, <1>4, <1>5, <1>6, <1>7 DEF TypeOK, BrokerType, Message, tables

\* Where each step of a task in progress takes it.
LEMMA Movements ==
  ASSUME TypeOK, NEW k \in Worker,
         \/ Begin(k) \/ ReadDates(k) \/ ReadParameters(k) \/ PlanDay(k)
         \/ PlanDayRaises(k) \/ PlanDayRejected(k) \/ HorizonPlanned(k)
         \/ CommitBaseline(k) \/ CommitResults(k) \/ CommitFailed(k)
  PROVE /\ ~At(k, "idle") /\ ~At(k, "ack")
        /\ UNCHANGED <<creating, broker>>
        /\ \E l \in Step : l # "idle" /\ Moves(k, l)
<1> USE DEF Step
<1>1. CASE Begin(k)
  BY <1>1, GotoMoves DEF Begin, At
<1>2. CASE ReadDates(k)
  <2>1. ~At(k, "idle") /\ ~At(k, "ack") /\ Refresh(k, "baseline", "ack")
    BY <1>2 DEF ReadDates, At
  <2>2. Moves(k, IF MyRow(k) THEN "baseline" ELSE "ack")
    BY <2>1, RefreshMoves
  <2> QED
    BY <2>1, <2>2 DEF Refresh
<1>3. CASE ReadParameters(k)
  <2>1. ~At(k, "idle") /\ ~At(k, "ack") /\ Refresh(k, "scenario", "fail")
    BY <1>3 DEF ReadParameters, At
  <2>2. Moves(k, IF MyRow(k) THEN "scenario" ELSE "fail")
    BY <2>1, RefreshMoves
  <2> QED
    BY <2>1, <2>2 DEF Refresh
<1>4. CASE PlanDay(k)
  <2>1. Moves(k, task[k].pc) /\ task[k].pc \in {"baseline", "scenario"}
    BY <1>4, PlannedMoves DEF PlanDay, Planning, At
  <2> QED
    BY <2>1, <1>4 DEF PlanDay, At
<1>5. CASE PlanDayRaises(k)
  BY <1>5, RaiseMoves DEF PlanDayRaises, Planning, At
<1>6. CASE PlanDayRejected(k)
  BY <1>6, BreakMoves DEF PlanDayRejected, Planning, At
<1>7. CASE HorizonPlanned(k)
  BY <1>7, GotoMoves DEF HorizonPlanned, Planning, At
<1>8. CASE CommitBaseline(k)
  BY <1>8, GotoMoves, BreakMoves DEF CommitBaseline, At
<1>9. CASE CommitResults(k)
  BY <1>9, GotoMoves, BreakMoves DEF CommitResults, At
<1>10. CASE CommitFailed(k)
  BY <1>10, GotoMoves DEF CommitFailed, At
<1> QED
  BY <1>1, <1>2, <1>3, <1>4, <1>5, <1>6, <1>7, <1>8, <1>9, <1>10

LEMMA TypeStep ==
  ASSUME TypeOK, [Next]_vars
  PROVE TypeOK'
<1>1. CASE UNCHANGED vars
  BY <1>1 DEF vars, tables, broker, TypeOK, BrokerType, At
<1>2. ASSUME NEW r \in Run, ApiStep(r)
      PROVE TypeOK'
  BY <1>2, ApiTyped
<1>3. ASSUME NEW k \in Worker,
             \/ Begin(k) \/ ReadDates(k) \/ ReadParameters(k) \/ PlanDay(k)
             \/ PlanDayRaises(k) \/ PlanDayRejected(k) \/ HorizonPlanned(k)
             \/ CommitBaseline(k) \/ CommitResults(k) \/ CommitFailed(k)
      PROVE TypeOK'
  <2>1. PICK l \in Step : l # "idle" /\ Moves(k, l)
    BY <1>3, Movements
  <2>2. ~At(k, "idle") /\ UNCHANGED <<creating, broker>>
    BY <1>3, Movements
  <2>3. held[k] \in Run
    BY <2>2, HeldRun
  <2>4. TablesTyped'
    BY <1>3, <2>3 DEF TypeOK, TablesTyped, Status, tables, Begin, ReadDates,
       ReadParameters, Refresh, PlanDay, PlanDayRaises, PlanDayRejected,
       HorizonPlanned, CommitBaseline, CommitResults, CommitFailed
  <2> QED
    BY <2>1, <2>2, <2>4, MoveTyped
<1>4. ASSUME NEW k \in Worker, TakeTask(k)
      PROVE TypeOK'
  BY <1>4, TakeTyped
<1>5. ASSUME NEW k \in Worker, EndTask(k)
      PROVE TypeOK'
  BY <1>5, LeaveTyped DEF EndTask, Acknowledge, TypeOK, BrokerType, Message
<1>6. ASSUME NEW k \in Worker, Die(k)
      PROVE TypeOK'
  <2>1. queue' \in [Run -> Nat] /\ faults' \in 0..MaxFaults
    BY <1>6, ScenarioAssumption
       DEF Die, WorkerLost, TypeOK, BrokerType, Message
  <2> QED
    BY <1>6, <2>1, LeaveTyped DEF Die, WorkerLost
<1>7. ASSUME NEW k \in Worker, Overrun(k)
      PROVE TypeOK'
  BY <1>7, ScenarioAssumption
     DEF Overrun, VisibilityTimeout, TypeOK, BrokerType, Message, tables, At
<1> QED
  BY <1>1, <1>2, <1>3, <1>4, <1>5, <1>6, <1>7 DEF Next, TaskStep

\* The types of the columns, messages and tasks, whatever is delivered and dies.
THEOREM ScenarioTyped == Spec => []TypeOK
<1>1. Init => TypeOK
  BY InitTyped
<1>2. TypeOK /\ [Next]_vars => TypeOK'
  BY TypeStep
<1> QED
  BY <1>1, <1>2, PTL DEF Spec

-----------------------------------------------------------------------------
(* Counting *)

LEMMA Fewer ==
  ASSUME NEW S \in SUBSET Worker, NEW T \in SUBSET S
  PROVE /\ Cardinality(S) \in Nat /\ Cardinality(T) \in Nat
        /\ Cardinality(T) <= Cardinality(S)
BY FS_Subset, FS_CardinalityType, ScenarioAssumption

LEMMA WaitingNat ==
  ASSUME TypeOK, NEW r \in Run
  PROVE Waiting(r) \in Nat
BY DEF TypeOK, BrokerType, Message, Waiting, One

\* Nothing is added to what may still be recorded.
LEMMA BudgetKept ==
  ASSUME TypeOK, TypeOK', NEW r \in Run,
         results[r] + Waiting(r) + Cardinality(Executing(r)) <= 1 + faults,
         Executing(r)' \subseteq Executing(r), Waiting(r)' <= Waiting(r),
         results'[r] <= results[r], faults' >= faults
  PROVE results'[r] + Waiting(r)' + Cardinality(Executing(r)') <= 1 + faults'
<1>1. Executing(r) \in SUBSET Worker /\ Executing(r)' \in SUBSET Executing(r)
  BY DEF Executing
<1>2. /\ Cardinality(Executing(r)) \in Nat /\ Cardinality(Executing(r)') \in Nat
      /\ Cardinality(Executing(r)') <= Cardinality(Executing(r))
  BY <1>1, Fewer
<1>3. Waiting(r) \in Nat /\ Waiting(r)' \in Nat
  BY WaitingNat DEF TypeOK, BrokerType, Message, Waiting, One
<1>4. results[r] \in Nat /\ results'[r] \in Nat /\ faults \in Nat /\ faults' \in Nat
  BY ScenarioAssumption DEF TypeOK, BrokerType
<1> QED
  BY <1>2, <1>3, <1>4

\* A step of a task in progress gives no worker a task.
LEMMA MoveExecuting ==
  ASSUME TypeOK, NEW k \in Worker, NEW l \in Step, Moves(k, l), ~At(k, "ack"),
         UNCHANGED held, NEW r \in Run
  PROVE /\ Executing(r)' \subseteq Executing(r)
        /\ l = "ack" => Executing(r)' \subseteq Executing(r) \ {k}
BY DEF Executing, Moves, At

\* The steps of a task in progress, its last commit apart, add no results.
QuietStep(k) ==
  \/ Begin(k) \/ ReadDates(k) \/ ReadParameters(k) \/ PlanDay(k)
  \/ PlanDayRaises(k) \/ PlanDayRejected(k) \/ HorizonPlanned(k)
  \/ CommitBaseline(k) \/ CommitFailed(k)

LEMMA QuietWaiting ==
  ASSUME TypeOK, NEW k \in Worker, QuietStep(k) \/ CommitResults(k), NEW r \in Run
  PROVE Waiting(r)' <= Waiting(r)
<1>1. UNCHANGED <<creating, broker>> /\ ~At(k, "idle")
  BY Movements DEF QuietStep
<1>2. held[k] \in Run
  BY <1>1, HeldRun
<1>3. (status'[r] = "NONE") => (status[r] = "NONE")
  BY <1>2 DEF TypeOK, Status, tables, QuietStep, Begin, ReadDates, ReadParameters,
     Refresh, PlanDay, PlanDayRaises, PlanDayRejected, HorizonPlanned,
     CommitBaseline, CommitResults, CommitFailed, MyRow, Row
<1> QED
  BY <1>1, <1>3 DEF Waiting, One, broker, TypeOK, BrokerType, Message

LEMMA BudgetQuiet ==
  ASSUME TypeOK, TypeOK', Budget, NEW k \in Worker, QuietStep(k)
  PROVE Budget'
<1> SUFFICES ASSUME NEW r \in Run
             PROVE results'[r] + Waiting(r)' + Cardinality(Executing(r)') <= 1 + faults'
  BY DEF Budget
<1>1. ~At(k, "ack") /\ UNCHANGED broker /\ \E l \in Step : Moves(k, l)
  BY Movements DEF QuietStep
<1>2. Executing(r)' \subseteq Executing(r)
  BY <1>1, MoveExecuting DEF broker
<1>3. Waiting(r)' <= Waiting(r)
  BY QuietWaiting
<1>4. results' = results /\ faults' = faults
  BY <1>1 DEF broker, tables, QuietStep, Begin, ReadDates, ReadParameters, Refresh,
     PlanDay, PlanDayRaises, PlanDayRejected, HorizonPlanned, CommitBaseline,
     CommitFailed
<1>5. results'[r] <= results[r] /\ faults' >= faults
  BY <1>4 DEF TypeOK, BrokerType
<1> QED
  BY <1>2, <1>3, <1>5, BudgetKept DEF Budget

\* Recording results uses the worker's share.
LEMMA BudgetResults ==
  ASSUME TypeOK, TypeOK', Budget, NEW k \in Worker, CommitResults(k)
  PROVE Budget'
<1> SUFFICES ASSUME NEW r \in Run
             PROVE results'[r] + Waiting(r)' + Cardinality(Executing(r)') <= 1 + faults'
  BY DEF Budget
<1>1. ~At(k, "ack") /\ ~At(k, "idle") /\ UNCHANGED broker /\ \E l \in Step : Moves(k, l)
  BY Movements
<1>2. Executing(r)' \subseteq Executing(r)
  BY <1>1, MoveExecuting DEF broker
<1>3. Waiting(r)' <= Waiting(r)
  BY QuietWaiting
<1>4. held[k] \in Run
  BY <1>1, HeldRun
<1>5. CASE MyRow(k) /\ r = held[k]
  <2>1. results'[r] = results[r] + 1 /\ faults' = faults /\ Goto(k, "ack")
    BY <1>1, <1>5, <1>4 DEF CommitResults, broker, TypeOK
  <2>2. Executing(r)' \subseteq Executing(r) \ {k}
    BY <2>1, <1>1, GotoMoves, MoveExecuting DEF Step, broker
  <2>3. k \in Executing(r) /\ Executing(r) \in SUBSET Worker
    BY <1>1, <1>5 DEF Executing
  <2>4. IsFiniteSet(Executing(r))
    BY <2>3, FS_Subset, ScenarioAssumption
  <2>5. Cardinality(Executing(r) \ {k}) = Cardinality(Executing(r)) - 1
    BY <2>3, <2>4, FS_RemoveElement
  <2>6. Cardinality(Executing(r)') <= Cardinality(Executing(r) \ {k})
    BY <2>2, <2>3, Fewer
  <2>7. Cardinality(Executing(r)') \in Nat /\ Cardinality(Executing(r)) \in Nat
    BY <1>2, <2>3, Fewer
  <2>8. results[r] \in Nat /\ faults \in Nat
    BY ScenarioAssumption DEF TypeOK, BrokerType
  <2>9. Waiting(r) \in Nat /\ Waiting(r)' \in Nat
    BY WaitingNat DEF TypeOK, BrokerType, Message, Waiting, One
  <2>10. results[r] + Waiting(r) + Cardinality(Executing(r)) <= 1 + faults
    BY DEF Budget
  <2> QED
    BY <1>3, <2>1, <2>5, <2>6, <2>7, <2>8, <2>9, <2>10
<1>6. CASE ~(MyRow(k) /\ r = held[k])
  <2>1. results'[r] = results[r] /\ faults' = faults
    BY <1>1, <1>6, <1>4 DEF CommitResults, broker, TypeOK
  <2>2. results'[r] <= results[r] /\ faults' >= faults
    BY <2>1, ScenarioAssumption DEF TypeOK, BrokerType
  <2> QED
    BY <1>2, <1>3, <2>2, BudgetKept DEF Budget
<1> QED
  BY <1>5, <1>6

\* Creating, queueing, losing and deleting a run.
LEMMA BudgetApi ==
  ASSUME TypeOK, TypeOK', Budget, NEW q \in Run, ApiStep(q)
  PROVE Budget'
<1> SUFFICES ASSUME NEW r \in Run
             PROVE results'[r] + Waiting(r)' + Cardinality(Executing(r)') <= 1 + faults'
  BY DEF Budget
<1>1. UNCHANGED <<task, held, faults>>
  BY DEF ApiStep, CreateScenario, QueueRun, LoseRun, DeleteScenario, Publish, broker
<1>2. Executing(r)' \subseteq Executing(r)
  BY <1>1 DEF Executing, At
<1>3. results'[r] <= results[r] /\ faults' >= faults
  BY <1>1, ScenarioAssumption
     DEF ApiStep, CreateScenario, QueueRun, LoseRun, DeleteScenario, tables,
         TypeOK, BrokerType
<1>4. Waiting(r)' <= Waiting(r)
  <2>1. CASE CreateScenario(q)
    BY <2>1 DEF CreateScenario, broker, Waiting, One, TypeOK, BrokerType, Message
  <2>2. CASE QueueRun(q)
    BY <2>2 DEF QueueRun, Publish, tables, Waiting, One, TypeOK, BrokerType, Message
  <2>3. CASE LoseRun(q)
    BY <2>3 DEF LoseRun, broker, tables, Waiting, One, TypeOK, BrokerType, Message
  <2>4. CASE DeleteScenario(q)
    BY <2>4 DEF DeleteScenario, broker, Row, Waiting, One, TypeOK, BrokerType, Message
  <2> QED
    BY <2>1, <2>2, <2>3, <2>4 DEF ApiStep
<1> QED
  BY <1>2, <1>3, <1>4, BudgetKept DEF Budget

\* A message taken becomes a task.
LEMMA BudgetTake ==
  ASSUME TypeOK, TypeOK', Budget, NEW k \in Worker, TakeTask(k)
  PROVE Budget'
<1> SUFFICES ASSUME NEW r \in Run
             PROVE results'[r] + Waiting(r)' + Cardinality(Executing(r)') <= 1 + faults'
  BY DEF Budget
<1>1. PICK q \in Run : /\ Reserve(k, q)
                       /\ task' = [task EXCEPT ![k] =
                            Session(IF Row(q) THEN "begin" ELSE "ack", status[q])]
  BY DEF TakeTask
<1>2. /\ \A j \in Worker : j # k => task'[j] = task[j] /\ held'[j] = held[j]
      /\ held'[k] = q
  BY <1>1 DEF Reserve, TypeOK, BrokerType, Message
<1>3. results' = results /\ faults' = faults /\ UNCHANGED <<status, creating>>
  BY <1>1 DEF TakeTask, tables, Reserve
<1>4. results'[r] <= results[r] /\ faults' >= faults
  BY <1>3, ScenarioAssumption DEF TypeOK, BrokerType
<1>5. CASE r # q
  <2>1. Executing(r)' \subseteq Executing(r)
    BY <1>2, <1>5 DEF Executing, At
  <2>2. Waiting(r)' <= Waiting(r)
    BY <1>1, <1>3, <1>5 DEF Reserve, Waiting, One, TypeOK, BrokerType, Message
  <2> QED
    BY <1>4, <2>1, <2>2, BudgetKept DEF Budget
<1>6. CASE r = q
  <2>1. Executing(r)' \subseteq Executing(r) \cup {k}
    BY <1>2, <1>6 DEF Executing, At
  <2>2. Executing(r) \in SUBSET Worker /\ Executing(r) \cup {k} \in SUBSET Worker
    BY DEF Executing
  <2>3. IsFiniteSet(Executing(r))
    BY <2>2, FS_Subset, ScenarioAssumption
  <2>4. /\ Cardinality(Executing(r)) \in Nat
        /\ Cardinality(Executing(r)') \in Nat
        /\ Cardinality(Executing(r)') <= Cardinality(Executing(r) \cup {k})
    BY <2>1, <2>2, Fewer
  <2>5. Cardinality(Executing(r) \cup {k}) <= Cardinality(Executing(r)) + 1
    <3>1. \/ Cardinality(Executing(r) \cup {k}) = Cardinality(Executing(r))
          \/ Cardinality(Executing(r) \cup {k}) = Cardinality(Executing(r)) + 1
      BY <2>3, FS_AddElement, Zenon
    <3> QED
      BY <2>4, <3>1
  <2>6. Waiting(r)' = Waiting(r) - 1
    BY <1>1, <1>3, <1>6 DEF Reserve, Waiting, One, TypeOK, BrokerType, Message
  <2>7. Cardinality(Executing(r) \cup {k}) \in Nat
    BY <2>2, Fewer
  <2>8. Waiting(r) \in Nat /\ results[r] \in Nat /\ faults \in Nat
    BY WaitingNat, ScenarioAssumption DEF TypeOK, BrokerType
  <2>9. results[r] + Waiting(r) + Cardinality(Executing(r)) <= 1 + faults
    BY DEF Budget
  <2> QED
    BY <1>3, <2>4, <2>5, <2>6, <2>7, <2>8, <2>9
<1> QED
  BY <1>5, <1>6

\* Deaths and redeliveries add a message and a fault each.
LEMMA BudgetLeave ==
  ASSUME TypeOK, TypeOK', Budget, NEW k \in Worker,
         EndTask(k) \/ Die(k) \/ Overrun(k)
  PROVE Budget'
<1> SUFFICES ASSUME NEW r \in Run
             PROVE results'[r] + Waiting(r)' + Cardinality(Executing(r)') <= 1 + faults'
  BY DEF Budget
<1>1. /\ results' = results /\ UNCHANGED <<status, creating>>
      /\ results[r] \in Nat /\ faults \in Nat /\ Waiting(r) \in Nat
  BY WaitingNat, ScenarioAssumption
     DEF EndTask, Die, Overrun, tables, TypeOK, BrokerType
<1>2. Executing(r)' \subseteq Executing(r)
  <2> SUFFICES ASSUME NEW j \in Worker, held'[j] = r, ~(At(j, "ack"))'
               PROVE held[j] = r /\ ~At(j, "ack")
    BY DEF Executing
  <2>1. CASE Overrun(k)
    BY <2>1 DEF Overrun, VisibilityTimeout, At
  <2>2. CASE EndTask(k) \/ Die(k)
    <3>1. held' = [held EXCEPT ![k] = NoTask] /\ task' = [task EXCEPT ![k] = Idle]
      BY <2>2 DEF EndTask, Acknowledge, Die, WorkerLost
    <3>2. held'[k] = NoTask /\ NoTask \notin Run
      BY <3>1, ScenarioAssumption DEF TypeOK, BrokerType
    <3>3. j # k
      BY <3>2
    <3> QED
      BY <3>1, <3>3 DEF TypeOK, BrokerType, At
  <2> QED
    BY <2>1, <2>2
<1>3. Executing(r) \in SUBSET Worker
  BY DEF Executing
<1>4. /\ Cardinality(Executing(r)') <= Cardinality(Executing(r))
      /\ Cardinality(Executing(r)) \in Nat /\ Cardinality(Executing(r)') \in Nat
  BY <1>2, <1>3, Fewer
<1>5. results[r] + Waiting(r) + Cardinality(Executing(r)) <= 1 + faults
  BY DEF Budget
<1>6. CASE EndTask(k)
  <2>1. Waiting(r)' = Waiting(r) /\ faults' = faults
    BY <1>1, <1>6 DEF EndTask, Acknowledge, Waiting
  <2> QED
    BY <1>1, <1>4, <1>5, <2>1
<1>7. CASE Die(k) \/ Overrun(k)
  <2>1. /\ queue' = [queue EXCEPT ![held[k]] = @ + 1] /\ faults' = faults + 1
    BY <1>7 DEF Die, Overrun, WorkerLost, VisibilityTimeout
  <2>2. queue'[r] <= queue[r] + 1 /\ queue[r] \in Nat /\ queue'[r] \in Nat
    BY <2>1 DEF TypeOK, BrokerType, Message
  <2>3. Waiting(r)' <= Waiting(r) + 1 /\ Waiting(r)' \in Nat
    BY <1>1, <2>2 DEF Waiting, One
  <2> QED
    BY <1>1, <1>4, <1>5, <2>1, <2>3
<1> QED
  BY <1>6, <1>7

LEMMA BudgetStep ==
  ASSUME TypeOK, TypeOK', Budget, [Next]_vars
  PROVE Budget'
<1>1. CASE UNCHANGED vars
  BY <1>1 DEF vars, tables, broker, Budget, Waiting, Executing, At
<1>2. ASSUME NEW r \in Run, ApiStep(r)
      PROVE Budget'
  BY <1>2, BudgetApi
<1>3. ASSUME NEW k \in Worker, TaskStep(k) \/ Die(k) \/ Overrun(k)
      PROVE Budget'
  BY <1>3, BudgetQuiet, BudgetResults, BudgetTake, BudgetLeave DEF TaskStep, QuietStep
<1> QED
  BY <1>1, <1>2, <1>3 DEF Next

LEMMA InitBudget == Init => Budget
<1> SUFFICES ASSUME Init, NEW r \in Run
             PROVE results[r] + Waiting(r) + Cardinality(Executing(r)) <= 1 + faults
  BY DEF Budget
<1>1. Executing(r) = {}
  BY ScenarioAssumption DEF Init, BrokerInit, Executing
<1>2. Cardinality(Executing(r)) = 0
  BY <1>1, FS_EmptySet
<1>3. Waiting(r) = 1 /\ results[r] = 0 /\ faults = 0
  BY DEF Init, BrokerInit, Waiting, One, Message
<1> QED
  BY <1>2, <1>3

\* The days of a run are recorded once, and once more for each redelivery.
THEOREM ScenarioRecordsOnce == Spec => []OneResultSet
<1>1. Init => TypeOK /\ Budget
  BY InitTyped, InitBudget
<1>2. TypeOK /\ Budget /\ [Next]_vars => (TypeOK /\ Budget)'
  BY TypeStep, BudgetStep
<1>3. TypeOK /\ Budget => OneResultSet
  <2> SUFFICES ASSUME TypeOK, Budget, NEW r \in Run
               PROVE results[r] <= 1 + faults
    BY DEF OneResultSet
  <2>1. Executing(r) \in SUBSET Worker
    BY DEF Executing
  <2>2. Cardinality(Executing(r)) \in Nat /\ Waiting(r) \in Nat
    BY <2>1, Fewer, WaitingNat
  <2>3. results[r] \in Nat /\ faults \in Nat
    BY ScenarioAssumption DEF TypeOK, BrokerType
  <2> QED
    BY <2>2, <2>3 DEF Budget
<1> QED
  BY <1>1, <1>2, <1>3, PTL DEF Spec

-----------------------------------------------------------------------------
(* Rows *)

\* A run's row appears when it is created and goes for good.
LEMMA StatusStep ==
  ASSUME TypeOK, [Next]_vars, NEW r \in Run
  PROVE /\ status'[r] = "NONE" => status[r] = "NONE"
        /\ Row(r)' /\ ~Row(r) => CreateScenario(r)
<1>1. CASE UNCHANGED vars
  BY <1>1 DEF vars, tables, Row
<1>2. ASSUME NEW q \in Run, ApiStep(q)
      PROVE /\ status'[r] = "NONE" => status[r] = "NONE"
            /\ Row(r)' /\ ~Row(r) => CreateScenario(r)
  BY <1>2 DEF ApiStep, CreateScenario, QueueRun, LoseRun, DeleteScenario, tables,
     Row, TypeOK
<1>3. ASSUME NEW k \in Worker, QuietStep(k) \/ CommitResults(k)
      PROVE /\ status'[r] = "NONE" => status[r] = "NONE"
            /\ Row(r)' /\ ~Row(r) => CreateScenario(r)
  <2>1. held[k] \in Run
    BY <1>3, Movements, HeldRun DEF QuietStep
  <2> QED
    BY <1>3, <2>1 DEF TypeOK, tables, QuietStep, Begin, ReadDates, ReadParameters,
       Refresh, PlanDay, PlanDayRaises, PlanDayRejected, HorizonPlanned,
       CommitBaseline, CommitResults, CommitFailed, MyRow, Row
<1>4. ASSUME NEW k \in Worker, TakeTask(k) \/ EndTask(k) \/ Die(k) \/ Overrun(k)
      PROVE UNCHANGED status
  BY <1>4 DEF TakeTask, EndTask, Die, Overrun, tables
<1> QED
  BY <1>1, <1>2, <1>3, <1>4 DEF Next, TaskStep, QuietStep, Row

LEMMA CreatedStep ==
  ASSUME TypeOK, TypeOK', Created, [Next]_vars
  PROVE Created'
<1>1. \A r \in Run : status'[r] = "NONE" => status[r] = "NONE"
  BY StatusStep
<1>2. CASE UNCHANGED vars
  BY <1>2 DEF vars, tables, broker, Created, At
<1>3. ASSUME NEW q \in Run, ApiStep(q)
      PROVE Created'
  <2>1. UNCHANGED <<task, held>>
    BY <1>3 DEF ApiStep, CreateScenario, QueueRun, LoseRun, DeleteScenario, Publish, broker
  <2>2. ASSUME NEW k \in Worker, ~At(k, "idle")
        PROVE status'[held[k]] # "NONE"
    BY <1>1, <2>2, HeldRun DEF Created
  <2>3. ASSUME NEW r \in Run, queue'[r] > 0 \/ r \in creating'
        PROVE queue[r] > 0 \/ r \in creating \/ status'[r] = "QUEUED"
    BY <1>3, <2>3 DEF ApiStep, CreateScenario, QueueRun, LoseRun, DeleteScenario,
       Publish, broker, TypeOK, BrokerType, Message
  <2> QED
    BY <1>1, <2>1, <2>2, <2>3 DEF Created, At
<1>4. ASSUME NEW k \in Worker, QuietStep(k) \/ CommitResults(k)
      PROVE Created'
  <2>1. UNCHANGED <<creating, broker>> /\ ~At(k, "idle") /\ \E l \in Step : Moves(k, l)
    BY <1>4, Movements DEF QuietStep
  <2>2. ASSUME NEW j \in Worker, ~(At(j, "idle"))'
        PROVE ~At(j, "idle") /\ held'[j] = held[j]
    BY <2>1, <2>2 DEF Moves, At, broker
  <2>3. ASSUME NEW j \in Worker, ~At(j, "idle")
        PROVE status'[held[j]] # "NONE"
    BY <1>1, <2>3, HeldRun DEF Created
  <2> QED
    BY <1>1, <2>1, <2>2, <2>3 DEF Created, broker
<1>5. ASSUME NEW k \in Worker, TakeTask(k)
      PROVE Created'
  <2>1. PICK q \in Run : Reserve(k, q)
    BY <1>5 DEF TakeTask
  <2>2. /\ queue[q] > 0 /\ held'[k] = q
        /\ \A r \in Run : queue'[r] > 0 => queue[r] > 0
        /\ \A j \in Worker : j # k => held'[j] = held[j]
    BY <2>1 DEF Reserve, TypeOK, BrokerType, Message
  <2>3. \A j \in Worker : j # k => task'[j] = task[j]
    BY <1>5 DEF TakeTask, TypeOK
  <2>4. UNCHANGED <<status, creating>>
    BY <1>5 DEF TakeTask, tables
  <2> QED
    BY <2>2, <2>3, <2>4 DEF Created, At
<1>6. ASSUME NEW k \in Worker, EndTask(k) \/ Die(k)
      PROVE Created'
  <2>1. /\ task' = [task EXCEPT ![k] = Idle] /\ held' = [held EXCEPT ![k] = NoTask]
        /\ UNCHANGED <<status, creating>>
    BY <1>6 DEF EndTask, Acknowledge, Die, WorkerLost, tables
  <2>2. task'[k].pc = "idle" /\ \A j \in Worker : j # k => task'[j] = task[j]
    BY <2>1, SessionTyped DEF TypeOK, Idle, Session
  <2>3. \A j \in Worker : j # k => held'[j] = held[j]
    BY <2>1 DEF TypeOK, BrokerType
  <2>4. ASSUME NEW r \in Run, queue'[r] > 0
        PROVE status[r] # "NONE"
    <3>1. CASE queue[r] > 0
      BY <3>1 DEF Created
    <3>2. CASE ~(queue[r] > 0)
      <4>1. Die(k) /\ r = held[k]
        BY <1>6, <2>4, <3>2
           DEF EndTask, Acknowledge, Die, WorkerLost, TypeOK, BrokerType, Message
      <4>2. ~At(k, "idle")
        BY <4>1 DEF Die, WorkerLost, TypeOK
      <4> QED
        BY <4>1, <4>2 DEF Created
    <3> QED
      BY <3>1, <3>2
  <2> QED
    BY <2>1, <2>2, <2>3, <2>4 DEF Created, At
<1>7. ASSUME NEW k \in Worker, Overrun(k)
      PROVE Created'
  <2>1. UNCHANGED <<status, creating, task, held>>
    BY <1>7 DEF Overrun, VisibilityTimeout, tables
  <2>2. ~At(k, "idle") /\ queue' = [queue EXCEPT ![held[k]] = @ + 1]
    BY <1>7 DEF Overrun, VisibilityTimeout, TypeOK
  <2>3. \A r \in Run : queue'[r] > 0 => queue[r] > 0 \/ r = held[k]
    BY <2>2 DEF TypeOK, BrokerType, Message
  <2> QED
    BY <2>1, <2>2, <2>3 DEF Created, At
<1> QED
  BY <1>2, <1>3, <1>4, <1>5, <1>6, <1>7 DEF Next, TaskStep, QuietStep

\* What a step of a task does to rows: it never deletes one, and writes only
\* the one of its run.
LEMMA TaskRows ==
  ASSUME TypeOK, NEW k \in Worker, QuietStep(k) \/ CommitResults(k), NEW r \in Run
  PROVE /\ Row(r)' <=> Row(r)
        /\ r \in baseline => r \in baseline'
        /\ r \in baseline' \/ results'[r] > 0 => Row(r) \/ r \in baseline \/ results[r] > 0
        /\ r # held[k] => status'[r] = status[r]
        /\ results'[r] >= results[r]
        /\ status'[r] = "COMPLETED" /\ status[r] # "COMPLETED"
             => CommitResults(k) /\ MyRow(k) /\ r = held[k]
<1>1. held[k] \in Run
  BY Movements, HeldRun DEF QuietStep
<1>2. results[r] \in Nat
  BY DEF TypeOK
<1>3. CASE CommitResults(k)
  BY <1>1, <1>2, <1>3 DEF CommitResults, TypeOK, MyRow, Row
<1>4. CASE Begin(k)
  BY <1>1, <1>2, <1>4 DEF Begin, TypeOK, MyRow, Row
<1>5. CASE CommitFailed(k)
  BY <1>1, <1>2, <1>5 DEF CommitFailed, TypeOK, MyRow, Row
<1>6. CASE CommitBaseline(k)
  BY <1>1, <1>2, <1>6 DEF CommitBaseline, TypeOK, MyRow, Row
<1>7. CASE \/ ReadDates(k) \/ ReadParameters(k) \/ PlanDay(k)
           \/ PlanDayRaises(k) \/ PlanDayRejected(k) \/ HorizonPlanned(k)
  BY <1>2, <1>7 DEF ReadDates, ReadParameters, Refresh, PlanDay, PlanDayRaises,
     PlanDayRejected, HorizonPlanned, tables, Row
<1> QED
  BY <1>3, <1>4, <1>5, <1>6, <1>7 DEF QuietStep

\* Where the worker is after its step, if its run is still there.
LEMMA TaskBaseline ==
  ASSUME TypeOK, NEW k \in Worker, QuietStep(k) \/ CommitResults(k),
         task'[k].pc \in {"params", "scenario", "results"}, MyRow(k)
  PROVE \/ task[k].pc \in {"params", "scenario", "results"}
        \/ held[k] \in baseline'
<1> USE DEF Step
<1>1. CASE CommitResults(k)
  BY <1>1 DEF CommitResults, At
<1>2. CASE CommitBaseline(k)
  BY <1>2 DEF CommitBaseline, At
<1>3. CASE Begin(k)
  BY <1>3, GotoMoves DEF Begin, Moves
<1>4. CASE ReadDates(k)
  <2>1. Refresh(k, "baseline", "ack") /\ ~At(k, "idle")
    BY <1>4 DEF ReadDates, At
  <2>2. Moves(k, IF MyRow(k) THEN "baseline" ELSE "ack")
    BY <2>1, RefreshMoves
  <2> QED
    BY <2>2 DEF Moves
<1>5. CASE PlanDay(k)
  BY <1>5, PlannedMoves DEF PlanDay, Moves
<1>6. CASE PlanDayRaises(k)
  BY <1>6, RaiseMoves DEF Moves
<1>7. CASE PlanDayRejected(k)
  BY <1>7, BreakMoves DEF PlanDayRejected, Moves
<1>8. CASE HorizonPlanned(k)
  <2>1. CASE At(k, "baseline")
    BY <1>8, <2>1, GotoMoves DEF HorizonPlanned, Moves
  <2>2. CASE At(k, "scenario")
    BY <2>2 DEF At
  <2> QED
    BY <1>8, <2>1, <2>2 DEF HorizonPlanned, Planning
<1>9. CASE CommitFailed(k)
  BY <1>9, GotoMoves DEF CommitFailed, Moves
<1>10. CASE ReadParameters(k)
  BY <1>10 DEF ReadParameters, At
<1> QED
  BY <1>1, <1>2, <1>3, <1>4, <1>5, <1>6, <1>7, <1>8, <1>9, <1>10 DEF QuietStep

RowsInv == DeletedLeavesNothing /\ BaselineFirst /\ CompletedWithRows

LEMMA RowsTask ==
  ASSUME TypeOK, TypeOK', RowsInv, NEW k \in Worker, QuietStep(k) \/ CommitResults(k)
  PROVE RowsInv'
<1>1. UNCHANGED held /\ \A j \in Worker : j # k => task'[j] = task[j]
  BY Movements DEF QuietStep, broker, Moves
<1>2. held[k] \in Run
  BY Movements, HeldRun DEF QuietStep
<1>3. ASSUME NEW r \in Run, ~Row(r)'
      PROVE results'[r] = 0 /\ r \notin baseline'
  <2>1. ~Row(r) /\ results[r] = 0 /\ r \notin baseline
    BY <1>3, TaskRows DEF RowsInv, DeletedLeavesNothing
  <2>2. ~(results'[r] > 0) /\ r \notin baseline'
    BY <2>1, TaskRows
  <2> QED
    BY <2>2 DEF TypeOK
<1>4. ASSUME NEW j \in Worker, task'[j].pc \in {"params", "scenario", "results"},
             Row(held[j])'
      PROVE held'[j] \in baseline'
  <2>1. held'[j] = held[j]
    BY <1>1
  <2>2. CASE j = k
    <3>1. MyRow(k)
      BY <1>1, <1>2, <1>4, <2>2, TaskRows DEF MyRow, Row
    <3>2. CASE task[k].pc \in {"params", "scenario", "results"}
      BY <1>2, <2>1, <2>2, <3>1, <3>2, TaskRows DEF RowsInv, BaselineFirst, MyRow
    <3>3. CASE ~(task[k].pc \in {"params", "scenario", "results"})
      BY <1>4, <2>1, <2>2, <3>1, <3>3, TaskBaseline
    <3> QED
      BY <3>2, <3>3
  <2>3. CASE j # k
    <3>1. task[j].pc \in {"params", "scenario", "results"}
      BY <1>1, <1>4, <2>3
    <3>2. held[j] \in Run
      BY <3>1, HeldRun DEF At
    <3>3. Row(held[j])
      BY <1>1, <1>4, <3>2, TaskRows DEF Row
    <3> QED
      BY <2>1, <3>1, <3>2, <3>3, TaskRows DEF RowsInv, BaselineFirst
  <2> QED
    BY <2>2, <2>3
<1>5. ASSUME NEW r \in Run, status'[r] = "COMPLETED"
      PROVE results'[r] > 0 /\ r \in baseline'
  <2>1. CASE status[r] = "COMPLETED"
    <3>1. results[r] > 0 /\ r \in baseline
      BY <2>1 DEF RowsInv, CompletedWithRows
    <3> QED
      BY <3>1, TaskRows DEF TypeOK
  <2>2. CASE status[r] # "COMPLETED"
    <3>1. CommitResults(k) /\ MyRow(k) /\ r = held[k]
      BY <1>5, <2>2, TaskRows
    <3>2. r \in baseline
      BY <3>1 DEF CommitResults, At, RowsInv, BaselineFirst, MyRow
    <3>3. results'[r] = results[r] + 1
      BY <3>1 DEF CommitResults, TypeOK
    <3> QED
      BY <3>2, <3>3, TaskRows DEF TypeOK
  <2> QED
    BY <2>1, <2>2
<1> QED
  BY <1>3, <1>4, <1>5
     DEF RowsInv, DeletedLeavesNothing, BaselineFirst, CompletedWithRows

LEMMA RowsStep ==
  ASSUME TypeOK, TypeOK', Created, RowsInv, [Next]_vars
  PROVE RowsInv'
<1> USE DEF RowsInv
<1>1. CASE UNCHANGED vars
  BY <1>1 DEF vars, tables, broker, DeletedLeavesNothing, BaselineFirst,
     CompletedWithRows, Row
<1>2. ASSUME NEW q \in Run, ApiStep(q)
      PROVE RowsInv'
  <2>1. UNCHANGED <<task, held>>
    BY <1>2 DEF ApiStep, CreateScenario, QueueRun, LoseRun, DeleteScenario, Publish, broker
  <2>2. \A k \in Worker : ~At(k, "idle") => status[held[k]] # "NONE"
    BY DEF Created
  <2>3. CASE CreateScenario(q)
    <3>1. BaselineFirst'
      BY <2>1, <2>2, <2>3, HeldRun
         DEF CreateScenario, BaselineFirst, Row, At, TypeOK
    <3> QED
      BY <2>3, <3>1
         DEF CreateScenario, DeletedLeavesNothing, CompletedWithRows, Row, TypeOK
  <2>4. CASE QueueRun(q) \/ LoseRun(q)
    BY <2>1, <2>4 DEF QueueRun, LoseRun, tables, DeletedLeavesNothing, BaselineFirst,
       CompletedWithRows, Row
  <2>5. CASE DeleteScenario(q)
    <3>1. BaselineFirst'
      BY <2>1, <2>5, HeldRun DEF DeleteScenario, BaselineFirst, Row, At, TypeOK
    <3> QED
      BY <2>5, <3>1
         DEF DeleteScenario, DeletedLeavesNothing, CompletedWithRows, Row, TypeOK
  <2> QED
    BY <1>2, <2>3, <2>4, <2>5 DEF ApiStep
<1>3. ASSUME NEW k \in Worker, QuietStep(k) \/ CommitResults(k)
      PROVE RowsInv'
  BY <1>3, RowsTask
<1>4. ASSUME NEW k \in Worker, TakeTask(k) \/ EndTask(k) \/ Die(k) \/ Overrun(k)
      PROVE RowsInv'
  <2>1. UNCHANGED tables
    BY <1>4 DEF TakeTask, EndTask, Die, Overrun
  <2>2. \A j \in Worker :
          task'[j].pc \in {"params", "scenario", "results"}
            => task'[j] = task[j] /\ held'[j] = held[j]
    <3>1. CASE TakeTask(k)
      <4>1. PICK r \in Run : /\ Reserve(k, r)
                             /\ task' = [task EXCEPT ![k] =
                                  Session(IF Row(r) THEN "begin" ELSE "ack", status[r])]
        BY <3>1 DEF TakeTask
      <4> QED
        BY <4>1 DEF Reserve, Session, TypeOK, BrokerType
    <3>2. CASE EndTask(k) \/ Die(k)
      BY <3>2 DEF EndTask, Die, Acknowledge, WorkerLost, Idle, Session, TypeOK, BrokerType
    <3>3. CASE Overrun(k)
      BY <3>3 DEF Overrun, VisibilityTimeout
    <3> QED
      BY <1>4, <3>1, <3>2, <3>3
  <2> QED
    BY <2>1, <2>2 DEF tables, DeletedLeavesNothing, BaselineFirst, CompletedWithRows, Row
<1> QED
  BY <1>1, <1>2, <1>3, <1>4 DEF Next, TaskStep, QuietStep

LEMMA InitRows == Init => Created /\ RowsInv
  BY DEF Init, BrokerInit, Created, RowsInv, DeletedLeavesNothing, BaselineFirst,
     CompletedWithRows, Row, Idle, Session, At, Message

\* A deleted run leaves no rows, whatever its task is doing.
THEOREM ScenarioDeleted == Spec => []DeletedLeavesNothing
<1>1. Init => TypeOK /\ Created /\ RowsInv
  BY InitTyped, InitRows
<1>2. TypeOK /\ Created /\ RowsInv /\ [Next]_vars => (TypeOK /\ Created /\ RowsInv)'
  BY TypeStep, CreatedStep, RowsStep
<1>3. RowsInv => DeletedLeavesNothing
  BY DEF RowsInv
<1> QED
  BY <1>1, <1>2, <1>3, PTL DEF Spec

-----------------------------------------------------------------------------
(* The status while tasks are delivered once *)

LEMMA FaultsKeep ==
  ASSUME TypeOK, [Next]_vars, faults' = 0
  PROVE faults = 0
<1>1. faults \in Nat
  BY ScenarioAssumption DEF TypeOK, BrokerType
<1>2. faults' = faults \/ faults' = faults + 1
  BY Movements
     DEF Next, vars, broker, ApiStep, CreateScenario, QueueRun, LoseRun,
         DeleteScenario, Publish, TaskStep, TakeTask, Reserve, EndTask,
         Acknowledge, Die, WorkerLost, Overrun, VisibilityTimeout
<1> QED
  BY <1>1, <1>2

\* A run that a task or a message still has in hand has no results.
LEMMA Unrecorded ==
  ASSUME TypeOK, Budget, faults = 0, NEW r \in Run,
         queue[r] > 0 \/ \E k \in Worker : held[k] = r /\ ~At(k, "ack")
  PROVE results[r] = 0
<1>1. Executing(r) \in SUBSET Worker
  BY DEF Executing
<1>2. Cardinality(Executing(r)) \in Nat /\ IsFiniteSet(Executing(r))
  BY <1>1, Fewer, FS_Subset, ScenarioAssumption
<1>3. results[r] \in Nat /\ queue[r] \in Nat
  BY DEF TypeOK, BrokerType, Message
<1>4. Waiting(r) >= queue[r] /\ Waiting(r) \in Nat
  BY <1>3 DEF Waiting, One
<1>5. results[r] + Waiting(r) + Cardinality(Executing(r)) <= 1
  BY DEF Budget
<1>6. CASE queue[r] > 0
  BY <1>2, <1>3, <1>4, <1>5, <1>6
<1>7. CASE \E k \in Worker : held[k] = r /\ ~At(k, "ack")
  <2>1. Executing(r) # {}
    BY <1>7 DEF Executing
  <2>2. Cardinality(Executing(r)) # 0
    BY <1>2, <2>1, FS_EmptySet
  <2> QED
    BY <1>2, <1>3, <1>4, <1>5, <2>2
<1> QED
  BY <1>6, <1>7

TellsInv == NoneSeenCompleted /\ ResultsCompleted

\* The status that a task of an unrecorded run sees is not COMPLETED.
LEMMA Unseen ==
  ASSUME TypeOK, Budget, CompletedWithRows, faults = 0, NEW r \in Run,
         queue[r] > 0 \/ \E k \in Worker : held[k] = r /\ ~At(k, "ack")
  PROVE status[r] # "COMPLETED"
BY Unrecorded DEF CompletedWithRows

\* How a step of a task changes what its session has seen.
LEMMA SeenStep ==
  ASSUME TypeOK, NEW k \in Worker, QuietStep(k) \/ CommitResults(k)
  PROVE task'[k].seen \in {task[k].seen, "NONE", status[held[k]]}
<1> USE DEF Step
<1>1. CASE ReadDates(k)
  <2>1. Refresh(k, "baseline", "ack") /\ ~At(k, "idle")
    BY <1>1 DEF ReadDates, At
  <2> QED
    BY <2>1, RefreshMoves
<1>2. CASE ReadParameters(k)
  <2>1. Refresh(k, "scenario", "fail") /\ ~At(k, "idle")
    BY <1>2 DEF ReadParameters, At
  <2> QED
    BY <2>1, RefreshMoves
<1>3. CASE PlanDay(k)
  BY <1>3, PlannedMoves DEF PlanDay
<1>4. CASE PlanDayRaises(k)
  BY <1>4, RaiseMoves
<1>5. CASE PlanDayRejected(k)
  BY <1>5, BreakMoves DEF PlanDayRejected
<1>6. CASE Begin(k)
  BY <1>6, GotoMoves DEF Begin
<1>7. CASE HorizonPlanned(k)
  BY <1>7, GotoMoves DEF HorizonPlanned
<1>8. CASE CommitBaseline(k)
  BY <1>8, GotoMoves, BreakMoves DEF CommitBaseline
<1>9. CASE CommitResults(k)
  BY <1>9, GotoMoves, BreakMoves DEF CommitResults
<1>10. CASE CommitFailed(k)
  BY <1>10, GotoMoves DEF CommitFailed
<1> QED
  BY <1>1, <1>2, <1>3, <1>4, <1>5, <1>6, <1>7, <1>8, <1>9, <1>10 DEF QuietStep

LEMMA TellsTask ==
  ASSUME TypeOK, TypeOK', Budget, CompletedWithRows, TellsInv, faults = 0,
         NEW k \in Worker, QuietStep(k) \/ CommitResults(k)
  PROVE TellsInv'
<1>1. /\ UNCHANGED held /\ ~At(k, "ack") /\ ~At(k, "idle")
      /\ \A j \in Worker : j # k => task'[j] = task[j]
  BY Movements DEF QuietStep, broker, Moves
<1>2. held[k] \in Run
  BY <1>1, HeldRun
<1>3. status[held[k]] # "COMPLETED" /\ results[held[k]] = 0 /\ ~Seen(k, "COMPLETED")
  BY <1>1, <1>2, Unrecorded, Unseen DEF TellsInv, NoneSeenCompleted
<1>4. NoneSeenCompleted'
  <2>1. task'[k].seen # "COMPLETED"
    BY <1>3, SeenStep DEF Seen
  <2> QED
    BY <1>1, <2>1 DEF TellsInv, NoneSeenCompleted, Seen, At
<1>5. ASSUME NEW r \in Run, results'[r] > 0
      PROVE status'[r] = "COMPLETED"
  <2>1. CASE r = held[k]
    <3>1. CASE CommitResults(k)
      <4>1. MyRow(k)
        BY <1>3, <1>5, <2>1, <3>1 DEF CommitResults
      <4> QED
        BY <1>2, <1>3, <2>1, <3>1, <4>1 DEF CommitResults, TypeOK
    <3>2. CASE QuietStep(k)
      <4>1. results' = results
        BY <3>2 DEF tables, QuietStep, Begin, ReadDates, ReadParameters, Refresh,
           PlanDay, PlanDayRaises, PlanDayRejected, HorizonPlanned, CommitBaseline,
           CommitFailed
      <4> QED
        BY <1>3, <1>5, <2>1, <4>1
    <3> QED
      BY <3>1, <3>2
  <2>2. CASE r # held[k]
    <3>1. results'[r] = results[r]
      BY <1>2, <2>2 DEF tables, QuietStep, Begin, ReadDates, ReadParameters, Refresh,
         PlanDay, PlanDayRaises, PlanDayRejected, HorizonPlanned, CommitBaseline,
         CommitFailed, CommitResults, TypeOK
    <3> QED
      BY <1>5, <2>2, <3>1, TaskRows DEF TellsInv, ResultsCompleted
  <2> QED
    BY <2>1, <2>2
<1> QED
  BY <1>4, <1>5 DEF TellsInv, ResultsCompleted

LEMMA TellsStep ==
  ASSUME TypeOK, TypeOK', Budget, CompletedWithRows, TellsInv, [Next]_vars
  PROVE TellsInv'
<1> SUFFICES ASSUME faults' = 0
             PROVE TellsInv'
  BY DEF TellsInv, NoneSeenCompleted, ResultsCompleted
<1>1. faults = 0
  BY FaultsKeep
<1>2. /\ \A k \in Worker : ~At(k, "ack") => ~Seen(k, "COMPLETED")
      /\ \A r \in Run : results[r] > 0 => status[r] = "COMPLETED"
  BY <1>1 DEF TellsInv, NoneSeenCompleted, ResultsCompleted
<1> USE DEF TellsInv, NoneSeenCompleted, ResultsCompleted
<1>3. CASE UNCHANGED vars
  BY <1>2, <1>3 DEF vars, tables, At, Seen
<1>4. ASSUME NEW q \in Run, ApiStep(q)
      PROVE TellsInv'
  BY <1>2, <1>4 DEF ApiStep, CreateScenario, QueueRun, LoseRun, DeleteScenario,
     Publish, tables, broker, At, Seen, TypeOK
<1>5. ASSUME NEW k \in Worker, QuietStep(k) \/ CommitResults(k)
      PROVE TellsInv'
  BY <1>1, <1>5, TellsTask
<1>6. ASSUME NEW k \in Worker, TakeTask(k)
      PROVE TellsInv'
  <2>1. PICK q \in Run : /\ Reserve(k, q)
                         /\ task' = [task EXCEPT ![k] =
                              Session(IF Row(q) THEN "begin" ELSE "ack", status[q])]
    BY <1>6 DEF TakeTask
  <2>2. status[q] # "COMPLETED"
    BY <1>1, <2>1, Unseen DEF Reserve
  <2>3. task'[k].seen = status[q] /\ \A j \in Worker : j # k => task'[j] = task[j]
    BY <2>1 DEF Session, TypeOK
  <2> QED
    BY <1>2, <1>6, <2>2, <2>3 DEF TakeTask, tables, At, Seen
<1>7. ASSUME NEW k \in Worker, EndTask(k)
      PROVE TellsInv'
  <2>1. task'[k].seen = "NONE" /\ \A j \in Worker : j # k => task'[j] = task[j]
    BY <1>7 DEF EndTask, Idle, Session, TypeOK
  <2> QED
    BY <1>2, <1>7, <2>1 DEF EndTask, tables, At, Seen
<1>8. ASSUME NEW k \in Worker, Die(k) \/ Overrun(k)
      PROVE FALSE
  BY <1>1, <1>8 DEF Die, Overrun, WorkerLost, VisibilityTimeout
<1> QED
  BY <1>3, <1>4, <1>5, <1>6, <1>7, <1>8 DEF Next, TaskStep, QuietStep

LEMMA InitTells == Init => TellsInv
  BY DEF Init, TellsInv, NoneSeenCompleted, ResultsCompleted, Idle, Session, Seen

-----------------------------------------------------------------------------
(* Runs under way *)

\* What a step of a task does to its session's program counter and transaction.
LEMMA FreshTask ==
  ASSUME TypeOK, Fresh, NEW k \in Worker, QuietStep(k) \/ CommitResults(k)
  PROVE task'[k].pc # "begin" /\ (task'[k].pc = "dates" => ~task'[k].broken)
<1> USE DEF Step
<1>1. CASE Begin(k)
  BY <1>1, GotoMoves DEF Begin, Moves, Fresh
<1>2. CASE ReadDates(k)
  <2>1. ~At(k, "idle") /\ Refresh(k, "baseline", "ack")
    BY <1>2 DEF ReadDates, At
  <2> QED
    BY <2>1, RefreshMoves DEF Moves
<1>3. CASE ReadParameters(k)
  <2>1. ~At(k, "idle") /\ Refresh(k, "scenario", "fail")
    BY <1>3 DEF ReadParameters, At
  <2> QED
    BY <2>1, RefreshMoves DEF Moves
<1>4. CASE PlanDay(k)
  BY <1>4, PlannedMoves DEF PlanDay, Planning, At, Moves
<1>5. CASE PlanDayRaises(k)
  BY <1>5, RaiseMoves DEF Moves
<1>6. CASE PlanDayRejected(k)
  BY <1>6, BreakMoves DEF PlanDayRejected, Moves
<1>7. CASE HorizonPlanned(k)
  BY <1>7, GotoMoves DEF HorizonPlanned, Moves
<1>8. CASE CommitBaseline(k)
  BY <1>8, GotoMoves, BreakMoves DEF CommitBaseline, Moves
<1>9. CASE CommitResults(k)
  BY <1>9, GotoMoves, BreakMoves DEF CommitResults, Moves
<1>10. CASE CommitFailed(k)
  BY <1>10, GotoMoves DEF CommitFailed, Moves
<1> QED
  BY <1>1, <1>2, <1>3, <1>4, <1>5, <1>6, <1>7, <1>8, <1>9, <1>10 DEF QuietStep

\* The session that a worker starts a task with, and is left with.
LEMMA TaskEnds ==
  ASSUME TypeOK, NEW k \in Worker, TakeTask(k) \/ EndTask(k) \/ Die(k)
  PROVE /\ ~task'[k].broken
        /\ \A j \in Worker : j # k => task'[j] = task[j] /\ held'[j] = held[j]
<1>1. CASE TakeTask(k)
  <2>1. PICK q \in Run : /\ Reserve(k, q)
                         /\ task' = [task EXCEPT ![k] =
                              Session(IF Row(q) THEN "begin" ELSE "ack", status[q])]
    BY <1>1 DEF TakeTask
  <2> QED
    BY <2>1 DEF Reserve, Session, TypeOK, BrokerType
<1>2. CASE EndTask(k) \/ Die(k)
  <2>1. task' = [task EXCEPT ![k] = Idle] /\ held' = [held EXCEPT ![k] = NoTask]
    BY <1>2 DEF EndTask, Acknowledge, Die, WorkerLost
  <2> QED
    BY <2>1 DEF Idle, Session, TypeOK, BrokerType
<1> QED
  BY <1>1, <1>2

LEMMA FreshStep ==
  ASSUME TypeOK, Fresh, [Next]_vars
  PROVE Fresh'
<1>1. CASE UNCHANGED vars
  BY <1>1 DEF vars, Fresh, At
<1>2. ASSUME NEW q \in Run, ApiStep(q)
      PROVE Fresh'
  BY <1>2 DEF ApiStep, CreateScenario, QueueRun, LoseRun, DeleteScenario, Fresh, At
<1>3. ASSUME NEW k \in Worker, QuietStep(k) \/ CommitResults(k)
      PROVE Fresh'
  <2>1. \A j \in Worker : j # k => task'[j] = task[j]
    BY <1>3, Movements DEF QuietStep, Moves
  <2>2. task'[k].pc # "begin" /\ (task'[k].pc = "dates" => ~task'[k].broken)
    BY <1>3, FreshTask
  <2> QED
    BY <2>1, <2>2 DEF Fresh, At
<1>4. ASSUME NEW k \in Worker, TakeTask(k) \/ EndTask(k) \/ Die(k)
      PROVE Fresh'
  BY <1>4, TaskEnds DEF Fresh, At
<1>5. ASSUME NEW k \in Worker, Overrun(k)
      PROVE Fresh'
  BY <1>5 DEF Overrun, Fresh, At
<1> QED
  BY <1>1, <1>2, <1>3, <1>4, <1>5 DEF Next, TaskStep, QuietStep

\* A worker that will end its run still will, unless this step ends or hurts it.
LEMMA AbleStep ==
  ASSUME TypeOK, Fresh, NEW k \in Worker, QuietStep(k) \/ CommitResults(k),
         Able(k), Unfinished(held[k])'
  PROVE Able(k)'
<1> USE DEF Step
<1>1. ~At(k, "idle") /\ held' = held
  BY Movements DEF QuietStep, broker
<1>2. held[k] \in Run
  BY <1>1, HeldRun
<1>3. held[k] \notin hurt' /\ status'[held[k]] \in {"QUEUED", "RUNNING"}
  BY <1>1 DEF Unfinished
<1>4. MyRow(k)
  BY <1>2, <1>3, TaskRows DEF MyRow, Row
<1>5. CASE Begin(k)
  BY <1>4, <1>5, GotoMoves DEF Begin, Able, Moves
<1>6. CASE ReadDates(k)
  <2>1. Refresh(k, "baseline", "ack") /\ status' = status /\ ~task[k].broken
    BY <1>6 DEF ReadDates, Refresh, tables, Fresh
  <2>2. /\ task'[k].pc = "baseline" /\ task'[k].seen = status[held[k]]
        /\ ~task'[k].broken
    BY <1>1, <1>4, <2>1, RefreshMoves DEF Moves
  <2> QED
    BY <1>3, <2>1, <2>2 DEF Able
<1>7. CASE ReadParameters(k)
  <2>1. Refresh(k, "scenario", "fail") /\ status' = status /\ ~task[k].broken
    BY <1>7 DEF ReadParameters, Refresh, tables, At, Able
  <2>2. /\ task'[k].pc = "scenario" /\ task'[k].seen = status[held[k]]
        /\ ~task'[k].broken
    BY <1>1, <1>4, <2>1, RefreshMoves DEF Moves
  <2> QED
    BY <1>3, <2>1, <2>2 DEF Able
<1>8. CASE PlanDay(k)
  BY <1>8, PlannedMoves DEF PlanDay, Planning, At, Able, Moves
<1>9. CASE PlanDayRaises(k)
  BY <1>9, RaiseMoves DEF PlanDayRaises, Planning, At, Able, Moves
<1>10. CASE PlanDayRejected(k)
  BY <1>3, <1>10 DEF PlanDayRejected
<1>11. CASE HorizonPlanned(k)
  BY <1>11, GotoMoves DEF HorizonPlanned, Planning, At, Able, Moves
<1>12. CASE CommitBaseline(k)
  BY <1>4, <1>12, GotoMoves DEF CommitBaseline, At, Able, Moves
<1>13. CASE CommitResults(k)
  BY <1>2, <1>3, <1>4, <1>13 DEF CommitResults, At, Seen, Able, TypeOK
<1>14. CASE CommitFailed(k)
  BY <1>2, <1>3, <1>4, <1>14 DEF CommitFailed, At, Seen, Able, TypeOK
<1> QED
  BY <1>5, <1>6, <1>7, <1>8, <1>9, <1>10, <1>11, <1>12, <1>13, <1>14 DEF QuietStep

\* A task puts a run back under way only by beginning it.
LEMMA Resumed ==
  ASSUME TypeOK, NEW k \in Worker, QuietStep(k) \/ CommitResults(k), NEW r \in Run,
         Unfinished(r)', ~Unfinished(r)
  PROVE held'[k] = r /\ Able(k)'
<1>1. held[k] \in Run /\ held' = held
  BY Movements, HeldRun DEF QuietStep, broker
<1>2. r \notin hurt /\ status[r] # status'[r] /\ status'[r] \in {"QUEUED", "RUNNING"}
  BY DEF Unfinished, tables, QuietStep, Begin, ReadDates, ReadParameters, Refresh,
     PlanDay, PlanDayRaises, PlanDayRejected, HorizonPlanned, CommitBaseline,
     CommitFailed, CommitResults
<1>3. Begin(k) /\ r = held[k]
  BY <1>1, <1>2 DEF tables, QuietStep, Begin, ReadDates, ReadParameters, Refresh,
     PlanDay, PlanDayRaises, PlanDayRejected, HorizonPlanned, CommitBaseline,
     CommitFailed, CommitResults, TypeOK
<1>4. Goto(k, "dates")
  BY <1>2, <1>3 DEF Begin
<1> QED
  BY <1>1, <1>3, <1>4, GotoMoves DEF Moves, Able, Step

LEMMA UnderWayStep ==
  ASSUME TypeOK, TypeOK', Fresh, UnderWay, [Next]_vars
  PROVE UnderWay'
<1> SUFFICES ASSUME NEW r \in Run, Unfinished(r)'
             PROVE r \in creating' \/ queue'[r] > 0 \/ InHand(r)'
  BY DEF UnderWay
<1>1. Unfinished(r) => r \in creating \/ queue[r] > 0 \/ InHand(r)
  BY DEF UnderWay
<1>2. CASE UNCHANGED vars
  BY <1>1, <1>2 DEF vars, tables, broker, Unfinished, InHand, Able
<1>3. ASSUME NEW q \in Run, ApiStep(q)
      PROVE r \in creating' \/ queue'[r] > 0 \/ InHand(r)'
  <2>1. InHand(r) => InHand(r)'
    BY <1>3 DEF ApiStep, CreateScenario, QueueRun, LoseRun, DeleteScenario, Publish,
       broker, InHand, Able
  <2>2. CASE CreateScenario(q)
    BY <1>1, <2>1, <2>2 DEF CreateScenario, Unfinished, broker, TypeOK
  <2>3. CASE QueueRun(q)
    BY <1>1, <2>1, <2>3
       DEF QueueRun, Publish, Unfinished, tables, TypeOK, BrokerType, Message
  <2>4. CASE LoseRun(q)
    BY <1>1, <2>1, <2>4 DEF LoseRun, Unfinished, tables, broker
  <2>5. CASE DeleteScenario(q)
    BY <1>1, <2>1, <2>5 DEF DeleteScenario, Unfinished, broker, TypeOK
  <2> QED
    BY <1>3, <2>2, <2>3, <2>4, <2>5 DEF ApiStep
<1>4. ASSUME NEW k \in Worker, QuietStep(k) \/ CommitResults(k)
      PROVE r \in creating' \/ queue'[r] > 0 \/ InHand(r)'
  <2>1. /\ UNCHANGED <<creating, queue, held>>
        /\ \A j \in Worker : j # k => task'[j] = task[j]
    BY <1>4, Movements DEF QuietStep, broker, Moves
  <2>2. CASE Unfinished(r)
    <3>1. InHand(r) => InHand(r)'
      <4> SUFFICES ASSUME NEW j \in Worker, held[j] = r, Able(j)
                   PROVE InHand(r)'
        BY DEF InHand
      <4>1. Able(j)'
        <5>1. CASE j = k
          BY <1>4, <2>1, <5>1, AbleStep
        <5>2. CASE j # k
          BY <2>1, <5>2 DEF Able
        <5> QED BY <5>1, <5>2
      <4> QED
        BY <2>1, <4>1 DEF InHand
    <3> QED
      BY <1>1, <2>1, <2>2, <3>1
  <2>3. CASE ~Unfinished(r)
    BY <1>4, <2>3, Resumed DEF InHand
  <2> QED
    BY <2>2, <2>3
<1>5. ASSUME NEW k \in Worker, TakeTask(k) \/ EndTask(k) \/ Die(k) \/ Overrun(k)
      PROVE r \in creating' \/ queue'[r] > 0 \/ InHand(r)'
  <2>1. UNCHANGED <<status, hurt, creating>>
    BY <1>5 DEF TakeTask, EndTask, Die, Overrun, tables
  <2>2. r \in creating \/ queue[r] > 0 \/ InHand(r)
    BY <1>1, <2>1 DEF Unfinished
  <2>3. queue[r] \in Nat /\ r # NoTask /\ status[r] \in {"QUEUED", "RUNNING"}
    BY <2>1, ScenarioAssumption DEF Unfinished, TypeOK, BrokerType, Message
  <2>4. CASE TakeTask(k)
    <3>1. PICK q \in Run : /\ Reserve(k, q)
                           /\ task' = [task EXCEPT ![k] =
                                Session(IF Row(q) THEN "begin" ELSE "ack", status[q])]
      BY <2>4 DEF TakeTask
    <3>2. CASE r = q
      <4>1. held'[k] = r /\ task'[k].pc = "begin"
        BY <2>3, <3>1, <3>2 DEF Reserve, Session, Row, TypeOK, BrokerType
      <4> QED
        BY <4>1 DEF InHand, Able
    <3>3. CASE r # q
      <4>1. queue'[r] = queue[r] /\ held[k] = NoTask
        BY <3>1, <3>3 DEF Reserve, TypeOK, BrokerType, Message
      <4>2. InHand(r) => InHand(r)'
        BY <2>3, <2>4, <4>1, TaskEnds DEF InHand, Able
      <4> QED
        BY <2>1, <2>2, <4>1, <4>2
    <3> QED
      BY <3>2, <3>3
  <2>5. CASE EndTask(k)
    <3>1. ~Able(k) /\ queue' = queue
      BY <2>5 DEF EndTask, Acknowledge, At, Able
    <3>2. InHand(r) => InHand(r)'
      BY <2>5, <3>1, TaskEnds DEF InHand, Able
    <3> QED
      BY <2>1, <2>2, <3>1, <3>2
  <2>6. CASE Die(k)
    <3>1. queue' = [queue EXCEPT ![held[k]] = @ + 1]
      BY <2>6 DEF Die, WorkerLost
    <3>2. CASE held[k] = r
      BY <2>3, <3>1, <3>2 DEF TypeOK, BrokerType, Message
    <3>3. CASE held[k] # r
      <4>1. queue'[r] = queue[r]
        BY <3>1, <3>3 DEF TypeOK, BrokerType, Message
      <4>2. InHand(r) => InHand(r)'
        BY <2>6, <3>3, TaskEnds DEF InHand, Able
      <4> QED
        BY <2>1, <2>2, <4>1, <4>2
    <3> QED
      BY <3>2, <3>3
  <2>7. CASE Overrun(k)
    <3>1. UNCHANGED <<task, held>> /\ queue' = [queue EXCEPT ![held[k]] = @ + 1]
      BY <2>7 DEF Overrun, VisibilityTimeout
    <3>2. queue[r] > 0 => queue'[r] > 0
      BY <2>3, <3>1 DEF TypeOK, BrokerType, Message
    <3> QED
      BY <2>1, <2>2, <3>1, <3>2 DEF InHand, Able
  <2> QED
    BY <1>5, <2>4, <2>5, <2>6, <2>7
<1> QED
  BY <1>2, <1>3, <1>4, <1>5 DEF Next, TaskStep, QuietStep

LEMMA InitUnderWay == Init => Fresh /\ UnderWay
  BY DEF Init, Fresh, UnderWay, Unfinished, Idle, Session, At

\* What the status endpoint tells of a run agrees with its rows.
THEOREM ScenarioTells == Spec => []StatusTells
<1>1. Init => IInv
  BY InitTyped, InitBudget, InitRows, InitTells, InitUnderWay
     DEF IInv, RowsInv, TellsInv
<1>2. IInv /\ [Next]_vars => IInv'
  <2> SUFFICES ASSUME IInv, [Next]_vars PROVE IInv'
    OBVIOUS
  <2>1. TypeOK'
    BY TypeStep DEF IInv
  <2>2. Budget' /\ Created' /\ RowsInv' /\ TellsInv'
    BY <2>1, BudgetStep, CreatedStep, RowsStep, TellsStep DEF IInv, RowsInv, TellsInv
  <2>3. Fresh' /\ UnderWay'
    BY <2>1, FreshStep, UnderWayStep DEF IInv
  <2> QED
    BY <2>1, <2>2, <2>3 DEF IInv, RowsInv, TellsInv
<1>3. IInv => StatusTells
  <2>1. UnderWay =>
          \A r \in Run : Unfinished(r) => r \in creating \/ Pending(r)
    BY DEF UnderWay, InHand, Pending
  <2> QED
    BY <2>1 DEF IInv, CompletedWithRows, ResultsCompleted, StatusTells, Unfinished
<1> QED
  BY <1>1, <1>2, <1>3, PTL DEF Spec

-----------------------------------------------------------------------------
(* Outcomes are final *)

Final(r) == status[r] \in {"COMPLETED", "FAILED"}

\* While the queue delivers once, nobody works at a run that has its outcome.
Rests ==
  faults = 0 =>
    \A r \in Run : Final(r) => queue[r] = 0 /\ r \notin creating /\ Executing(r) = {}

\* A run that is COMPLETED or FAILED stays so until it is deleted, unless the queue
\* delivers a task again.
OutcomeKept ==
  faults' = 0 => \A r \in Run : Final(r) => status'[r] \in {status[r], "GONE"}

\* Of all messages and executions of a run there is one while none is repeated.
LEMMA OnlyOne ==
  ASSUME TypeOK, Budget, faults = 0, NEW k \in Worker, ~At(k, "ack"), held[k] \in Run
  PROVE /\ queue[held[k]] = 0 /\ held[k] \notin creating
        /\ Executing(held[k]) = {k}
<1> DEFINE r == held[k]
           E == Executing(r)
<1>1. E \subseteq Worker /\ k \in E
  BY DEF Executing
<1>2. IsFiniteSet(E) /\ IsFiniteSet(E \ {k})
  BY <1>1, FS_Subset, ScenarioAssumption
<1>3. Cardinality(E \ {k}) = Cardinality(E) - 1
  BY <1>1, <1>2, FS_RemoveElement
<1>4. Cardinality(E) \in Nat /\ Cardinality(E \ {k}) \in Nat
  BY <1>2, FS_CardinalityType
<1>5. results[r] \in Nat /\ queue[r] \in Nat
  BY DEF TypeOK, BrokerType, Message
<1>6. results[r] + Waiting(r) + Cardinality(E) <= 1
  BY DEF Budget
<1>7. Waiting(r) \in Nat /\ Waiting(r) >= queue[r] + One(r \in creating)
  BY <1>5 DEF Waiting, One
<1>8. Waiting(r) = 0 /\ Cardinality(E \ {k}) = 0
  BY <1>3, <1>4, <1>5, <1>6, <1>7
<1>9. E \ {k} = {}
  BY <1>2, <1>8, FS_EmptySet
<1>10. queue[r] = 0 /\ r \notin creating
  BY <1>5, <1>7, <1>8 DEF One
<1> QED
  BY <1>1, <1>9, <1>10

\* A task writes an outcome with its last commit.
LEMMA OutcomeTask ==
  ASSUME TypeOK, NEW k \in Worker, QuietStep(k) \/ CommitResults(k), NEW r \in Run,
         status'[r] # status[r], Final(r)'
  PROVE r = held[k] /\ task'[k].pc = "ack"
<1>1. held[k] \in Run
  BY Movements, HeldRun DEF QuietStep
<1>2. r = held[k]
  BY TaskRows
<1>3. Goto(k, "ack")
  BY <1>1 DEF Final, tables, QuietStep, Begin, ReadDates, ReadParameters, Refresh,
     PlanDay, PlanDayRaises, PlanDayRejected, HorizonPlanned, CommitBaseline,
     CommitFailed, CommitResults, TypeOK
<1> QED
  BY <1>2, <1>3, GotoMoves DEF Moves, Step

LEMMA RestsStep ==
  ASSUME TypeOK, TypeOK', Budget, Rests, [Next]_vars
  PROVE Rests'
<1> SUFFICES ASSUME faults' = 0, NEW r \in Run, Final(r)'
             PROVE queue'[r] = 0 /\ r \notin creating' /\ Executing(r)' = {}
  BY DEF Rests
<1>0. faults = 0
  BY FaultsKeep
<1>1. Final(r) => queue[r] = 0 /\ r \notin creating /\ Executing(r) = {}
  BY <1>0 DEF Rests
<1>2. CASE UNCHANGED vars
  BY <1>1, <1>2 DEF vars, tables, broker, Final, Executing, At
<1>3. ASSUME NEW q \in Run, ApiStep(q)
      PROVE queue'[r] = 0 /\ r \notin creating' /\ Executing(r)' = {}
  <2>1. Executing(r)' = Executing(r)
    BY <1>3 DEF ApiStep, CreateScenario, QueueRun, LoseRun, DeleteScenario, Publish,
       broker, Executing, At
  <2>2. Final(r) /\ (CreateScenario(q) => q # r)
    BY <1>3 DEF ApiStep, CreateScenario, QueueRun, LoseRun, DeleteScenario, tables,
       Final, TypeOK
  <2>3. queue'[r] = 0 /\ r \notin creating'
    BY <1>1, <1>3, <2>2 DEF ApiStep, CreateScenario, QueueRun, LoseRun,
       DeleteScenario, Publish, broker, TypeOK, BrokerType, Message
  <2> QED
    BY <1>1, <2>1, <2>2, <2>3
<1>4. ASSUME NEW k \in Worker, QuietStep(k) \/ CommitResults(k)
      PROVE queue'[r] = 0 /\ r \notin creating' /\ Executing(r)' = {}
  <2>1. /\ UNCHANGED <<creating, queue, held>> /\ ~At(k, "ack") /\ ~At(k, "idle")
        /\ \E l \in Step : Moves(k, l)
    BY <1>4, Movements DEF QuietStep, broker
  <2>2. Executing(r)' \subseteq Executing(r)
    BY <2>1, MoveExecuting
  <2>3. CASE status'[r] = status[r]
    BY <1>1, <2>1, <2>2, <2>3 DEF Final
  <2>4. CASE status'[r] # status[r]
    <3>1. r = held[k] /\ task'[k].pc = "ack"
      BY <1>4, <2>4, OutcomeTask
    <3>2. queue[r] = 0 /\ r \notin creating /\ Executing(r) = {k}
      BY <1>0, <2>1, <3>1, OnlyOne
    <3>3. k \notin Executing(r)'
      BY <3>1 DEF Executing, At
    <3> QED
      BY <2>1, <2>2, <3>2, <3>3
  <2> QED
    BY <2>3, <2>4
<1>5. ASSUME NEW k \in Worker, TakeTask(k) \/ EndTask(k)
      PROVE queue'[r] = 0 /\ r \notin creating' /\ Executing(r)' = {}
  <2>1. UNCHANGED <<status, creating>>
    BY <1>5 DEF TakeTask, EndTask, tables
  <2>2. queue[r] = 0 /\ r \notin creating /\ Executing(r) = {}
    BY <1>1, <2>1 DEF Final
  <2>3. CASE TakeTask(k)
    <3>1. PICK q \in Run : Reserve(k, q)
      BY <2>3 DEF TakeTask
    <3>2. q # r /\ queue'[r] = queue[r] /\ held'[k] = q
      BY <2>2, <3>1 DEF Reserve, TypeOK, BrokerType, Message
    <3>3. Executing(r)' \subseteq Executing(r)
      BY <2>3, <3>2, TaskEnds DEF Executing, At
    <3> QED
      BY <2>1, <2>2, <3>2, <3>3
  <2>4. CASE EndTask(k)
    <3>1. queue' = queue /\ held' = [held EXCEPT ![k] = NoTask]
      BY <2>4 DEF EndTask, Acknowledge
    <3>2. held'[k] # r
      BY <3>1, ScenarioAssumption DEF TypeOK, BrokerType
    <3>3. Executing(r)' \subseteq Executing(r)
      BY <2>4, <3>2, TaskEnds DEF Executing, At
    <3> QED
      BY <2>1, <2>2, <3>1, <3>3
  <2> QED
    BY <1>5, <2>3, <2>4
<1>6. ASSUME NEW k \in Worker, Die(k) \/ Overrun(k)
      PROVE FALSE
  BY <1>0, <1>6 DEF Die, Overrun, WorkerLost, VisibilityTimeout
<1> QED
  BY <1>2, <1>3, <1>4, <1>5, <1>6 DEF Next, TaskStep, QuietStep

\* A step that changes an outcome is a deletion: a worker would have to execute
\* the run.
LEMMA OutcomeStep ==
  ASSUME TypeOK, Rests, [Next]_vars
  PROVE [OutcomeKept]_vars
<1> SUFFICES ASSUME faults' = 0, NEW r \in Run, Final(r), status'[r] # status[r]
             PROVE status'[r] = "GONE"
  BY DEF OutcomeKept
<1>1. Executing(r) = {}
  BY FaultsKeep DEF Rests
<1>2. ASSUME NEW q \in Run, ApiStep(q)
      PROVE status'[r] = "GONE"
  BY <1>2 DEF ApiStep, CreateScenario, QueueRun, LoseRun, DeleteScenario, tables,
     Final, TypeOK
<1>3. ASSUME NEW k \in Worker, QuietStep(k) \/ CommitResults(k)
      PROVE FALSE
  <2>1. ~At(k, "ack") /\ r = held[k]
    BY <1>3, Movements, TaskRows DEF QuietStep
  <2> QED
    BY <1>1, <2>1 DEF Executing
<1>4. ASSUME NEW k \in Worker, TakeTask(k) \/ EndTask(k) \/ Die(k) \/ Overrun(k)
      PROVE FALSE
  BY <1>4 DEF TakeTask, EndTask, Die, Overrun, tables
<1>5. CASE UNCHANGED vars
  BY <1>5 DEF vars, tables
<1> QED
  BY <1>2, <1>3, <1>4, <1>5 DEF Next, TaskStep, QuietStep

\* What a client has been told of a run's outcome stays true while the queue
\* delivers every task once.
THEOREM ScenarioOutcomeKept == Spec => [][OutcomeKept]_vars
<1>1. Init => TypeOK /\ Budget /\ Rests
  BY InitTyped, InitBudget DEF Init, Rests, Final
<1>2. TypeOK /\ Budget /\ Rests /\ [Next]_vars => (TypeOK /\ Budget /\ Rests)'
  BY TypeStep, BudgetStep, RestsStep
<1>3. TypeOK /\ Rests /\ [Next]_vars => [OutcomeKept]_vars
  BY OutcomeStep
<1> QED
  BY <1>1, <1>2, <1>3, PTL DEF Spec
=============================================================================
