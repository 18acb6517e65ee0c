--------------------------- MODULE DispatchProofs ---------------------------
(***************************************************************************)
(* Safety of the dispatch core for any numbers of orders, drivers, plans   *)
(* and workers, any planner and any mix of requests.                       *)
(*                                                                         *)
(* ForeignKeysHold and DriverBackedByStop are not inductive: a confirm     *)
(* writes the drivers it read one step earlier, while drivers and orders   *)
(* are deleted and created around it.  SnapshotSound says what is left of  *)
(* that snapshot; PublishedKept that a confirm about to write its history  *)
(* row has published its plan; DryRunsPlan where a dry run can be.         *)
(*                                                                         *)
(* How many plans an order can be on is counted at the end: its planned    *)
(* stops together with the requests that still hold it as an open order    *)
(* are no more than the workers.                                           *)
(***************************************************************************)
EXTENDS Dispatch, FiniteSetTheorems, TLAPS

\* What a confirm request holds in memory: unless the order or the driver was
\* deleted, the stop it saw still exists on a route of the driver it saw.
Snapshot(w) ==
  /\ req[w].plan \in Plan
  /\ plan[req[w].plan].status # "NONE"
  /\ \A o \in req[w].orders :
       /\ order[o].status # "ABSENT"
       /\ req[w].wants[o] # NULL
            => /\ driver[req[w].wants[o]] # "ABSENT"
               /\ Live(o) /\ Employed(req[w].wants[o])
                    => /\ HasStop(req[w].plan, o)
                       /\ routeDriver[req[w].plan][stop[req[w].plan][o].route]
                            = req[w].wants[o]

SnapshotSound == \A w \in Worker : At(w, "publish") => Snapshot(w)

\* A report that has loaded its stop knows which one it is.
ReportsNamed ==
  \A w \in Worker :
    At(w, "report") => /\ req[w].plan \in Plan
                       /\ req[w].report \in StopReport
                       /\ \E o \in Order : req[w].orders = {o}

PublishedKept ==
  \A w \in Worker :
    At(w, "record") => /\ req[w].plan \in Plan
                       /\ plan[req[w].plan].status = "PUBLISHED"

DryRunsPlan ==
  \A w \in Worker : DryRun(w) => req[w].pc \in {"read", "solve", "failed"}

IInv ==
  /\ TypeOK
  /\ ForeignKeysHold
  /\ DriverBackedByStop
  /\ SnapshotSound
  /\ RecordedIsPublished
  /\ PublishedKept
  /\ ReportsNamed

-----------------------------------------------------------------------------
(* Types *)

LEMMA DateFacts == 1 \in Date /\ Date \subseteq Nat
BY DaysAssumption DEF Date

\* A request's record is well typed whenever each of its fields is.
LEMMA IdleTyped == Idle \in Request /\ GoneOrder \in OrderRow
<1>1. GoneOrder \in OrderRow
  BY DateFacts DEF GoneOrder, OrderRow
<1>2. [o \in Order |-> GoneOrder] \in [Order -> OrderRow]
  BY <1>1
<1>3. Nothing \in [Order -> Driver \cup {NULL}]
  BY DEF Nothing
<1> QED BY <1>1, <1>2, <1>3, DateFacts DEF Idle, Request, PCs, AllJobs

LEMMA FailedTyped ==
  ASSUME TypeOK, NEW w \in Worker
  PROVE Failed(w) \in Request
BY IdleTyped DEF TypeOK, Failed, Request, PCs

LEMMA AfterModeTyped ==
  ASSUME TypeOK, NEW w \in Worker
  PROVE AfterMode(w) \in Request
<1>1. req[w] \in Request
  BY DEF TypeOK
<1>2. req[w].left \in Nat /\ req[w].date \in Nat
  BY <1>1 DEF Request
<1>3. CASE req[w].left <= 1
  BY <1>3, IdleTyped DEF AfterMode
<1>4. CASE ~(req[w].left <= 1)
  <2>1. req[w].left - 1 \in Nat /\ req[w].date + 1 \in Nat
    BY <1>2, <1>4
  <2> QED BY <1>1, <1>4, <2>1 DEF AfterMode, Request, PCs
<1> QED BY <1>3, <1>4

LEMMA BecomeTyped ==
  ASSUME TypeOK, NEW w \in Worker, NEW r \in Request, Become(w, r)
  PROVE req' \in [Worker -> Request]
BY DEF TypeOK, Become

\* Changing columns of a row keeps it a row.
LEMMA OrderRowTyped ==
  ASSUME NEW row \in OrderRow, NEW s \in OrderStatus, NEW d \in Driver \cup {NULL},
         NEW dt \in Date
  PROVE /\ [row EXCEPT !.status = s] \in OrderRow
        /\ [row EXCEPT !.driver = d] \in OrderRow
        /\ [row EXCEPT !.date = dt] \in OrderRow
        /\ [row EXCEPT !.status = s, !.driver = d] \in OrderRow
BY DEF OrderRow

LEMMA OrderStatusTyped ==
  ASSUME TypeOK, NEW o \in Order, NEW s \in OrderStatus
  PROVE [order EXCEPT ![o].status = s] \in [Order -> OrderRow]
<1>1. [order[o] EXCEPT !.status = s] \in OrderRow
  <2>1. order[o] \in OrderRow
    BY DEF TypeOK
  <2> QED BY <2>1 DEF OrderRow
<1> DEFINE row == [order[o] EXCEPT !.status = s]
<1>2. [order EXCEPT ![o] = row] \in [Order -> OrderRow]
  BY <1>1 DEF TypeOK
<1> QED BY <1>2

\* The history of who set an order's columns.
Authors == [Order -> [status : Author, driver : Author]]

LEMMA SignatureTyped ==
  ASSUME TypeOK, NEW o \in Order, NEW who \in Author
  PROVE [author EXCEPT ![o].status = who] \in Authors
<1>1. \A q \in Order : author[q] \in [status : Author, driver : Author]
  BY DEF TypeOK
<1> DEFINE row == [author[o] EXCEPT !.status = who]
<1>3. row \in [status : Author, driver : Author]
  BY <1>1
<1> HIDE DEF row
<1>4. [author EXCEPT ![o] = row] \in Authors
  BY <1>3 DEF TypeOK, Authors
<1> QED BY <1>4 DEF row

LEMMA SignedByTyped ==
  ASSUME TypeOK, NEW S, NEW who \in Author PROVE SignedBy(S, who) \in Authors
<1>1. \A o \in Order : author[o] \in [status : Author, driver : Author]
  BY DEF TypeOK
<1> QED BY <1>1 DEF SignedBy, Authors

LEMMA ConfirmSigned ==
  ASSUME TypeOK, NEW w \in Worker PROVE SignedConfirm(w) \in Authors
<1>1. \A o \in Order : author[o] \in [status : Author, driver : Author]
  BY DEF TypeOK
<1> QED BY <1>1 DEF SignedConfirm, Authors, Author

LEMMA TypeInit == Init => TypeOK
BY DateFacts, IdleTyped
   DEF Init, TypeOK, OrderRow, StopRow, NoStop, NoPlan, Author

\* The rows a planner writes: f gives each planned order its driver.
LEMMA WritePlanTyped ==
  ASSUME TypeOK, NEW w \in Worker, NEW p \in Plan,
         NEW S \in SUBSET Order, NEW f \in [S -> Driver],
         NEW b, WritePlan(w, p, f, b)
  PROVE /\ order' \in [Order -> OrderRow]
        /\ plan' \in [Plan -> [status : {"NONE", "DRAFT", "PUBLISHED", "CANCELLED"},
                               date : Nat]]
        /\ routeDriver' \in [Plan -> [Driver -> Driver \cup {NULL}]]
        /\ stop' \in [Plan -> [Order -> StopRow]]
<1> USE DEF TypeOK
<1>1. req[w].date \in Nat
  BY DEF Request
<1>2. order' \in [Order -> OrderRow]
  <2>1. ASSUME NEW o \in Order, o \in DOMAIN f
        PROVE [order[o] EXCEPT !.status = "ASSIGNED", !.driver = f[o]] \in OrderRow
    <3>1. order[o] \in OrderRow /\ f[o] \in Driver
      BY <2>1
    <3> QED BY <3>1 DEF OrderRow, OrderStatus
  <2>2. Assigned(f) \in [Order -> OrderRow]
    BY <2>1 DEF Assigned
  <2> QED BY <2>2 DEF WritePlan
<1>3. plan' \in [Plan -> [status : {"NONE", "DRAFT", "PUBLISHED", "CANCELLED"},
                         date : Nat]]
  BY <1>1 DEF WritePlan, WithPlan
<1>4. routeDriver' \in [Plan -> [Driver -> Driver \cup {NULL}]]
  BY DEF WritePlan, WithRoutes
<1>5. stop' \in [Plan -> [Order -> StopRow]]
  <2>1. [o \in Order |-> IF o \in DOMAIN f
                      THEN [route |-> f[o], status |-> "PENDING"] ELSE NoStop]
          \in [Order -> StopRow]
    BY DEF StopRow, NoStop
  <2> QED BY <2>1 DEF WritePlan, WithStops
<1> QED BY <1>2, <1>3, <1>4, <1>5

LEMMA TypeOrderStep ==
  ASSUME TypeOK, OrderStep PROVE TypeOK'
<1> USE DEF TypeOK
<1>1. ASSUME NEW o \in Order, NEW dt \in Date, CreateOrder(o, dt)
      PROVE TypeOK'
  BY <1>1 DEF CreateOrder, OrderRow, OrderStatus, signed
<1>2. ASSUME NEW o \in Order, NEW dt \in Date, RescheduleOrder(o, dt)
      PROVE TypeOK'
  <2> DEFINE row == [order[o] EXCEPT !.date = dt]
  <2>1. row \in OrderRow
    <3>1. order[o] \in OrderRow
      OBVIOUS
    <3> QED BY <3>1 DEF OrderRow
  <2>2. [order EXCEPT ![o] = row] \in [Order -> OrderRow]
    BY <2>1
  <2> QED BY <1>2, <2>2 DEF RescheduleOrder, signed
<1>3. ASSUME NEW o \in Order, NEW s \in PatchStatuses, PatchOrder(o, s)
      PROVE TypeOK'
  <2>1. order' \in [Order -> OrderRow]
    BY <1>3, InputAssumption, OrderStatusTyped DEF PatchOrder
  <2>2. author' \in Authors
    BY <1>3, SignatureTyped DEF PatchOrder, Author
  <2> QED BY <1>3, <2>1, <2>2 DEF PatchOrder, Authors
<1> QED BY <1>1, <1>2, <1>3, InputAssumption DEF OrderStep

LEMMA TypeDriverStep ==
  ASSUME TypeOK, DriverStep PROVE TypeOK'
<1> USE DEF TypeOK
<1>1. ASSUME NEW d \in Driver, CreateDriver(d) \/ SetActive(d, TRUE) \/ SetActive(d, FALSE)
      PROVE TypeOK'
  BY <1>1 DEF CreateDriver, SetActive, signed
<1>2. ASSUME NEW d \in Driver, DeleteDriver(d)
      PROVE TypeOK'
  <2>1. OrdersWithout(d) \in [Order -> OrderRow]
    <3>1. ASSUME NEW o \in Order PROVE OrdersWithout(d)[o] \in OrderRow
      <4>1. order[o] \in OrderRow
        OBVIOUS
      <4>2. [order[o] EXCEPT !.driver = NULL] \in OrderRow
        BY <4>1 DEF OrderRow
      <4> QED BY <4>1, <4>2 DEF OrdersWithout
    <3> QED BY <3>1 DEF OrdersWithout
  <2>2. RoutesWithout(d) \in [Plan -> [Driver -> Driver \cup {NULL}]]
    BY DEF RoutesWithout
  <2> QED BY <1>2, <2>1, <2>2 DEF DeleteDriver, signed
<1>3. ASSUME NEW d \in Driver, NEW dt \in Date, NEW s \in DutyInputs,
             UpsertAvailability(d, dt, s)
      PROVE TypeOK'
  BY <1>3, InputAssumption DEF UpsertAvailability, signed
<1> QED BY <1>1, <1>2, <1>3, InputAssumption DEF DriverStep

LEMMA TypeStartStep ==
  ASSUME TypeOK, ForeignKeysHold, NEW w \in Worker, StartStep(w) PROVE TypeOK'
<1>1. SUFFICES ASSUME NEW r \in Request, Become(w, r), UNCHANGED tables
               PROVE TypeOK'
  <2>0. \A dt \in Date : dt \in Nat
    BY DateFacts
  <2>1. ASSUME NEW o \in Order, DeleteOrder(w, o)
        PROVE \E r \in Request : Become(w, r) /\ UNCHANGED tables
    BY <2>1, IdleTyped DEF DeleteOrder, Request, PCs, AllJobs
  <2>2. ASSUME NEW dt \in Date, PlanDay(w, dt)
        PROVE \E r \in Request : Become(w, r) /\ UNCHANGED tables
    BY <2>0, <2>2, IdleTyped DEF PlanDay, Request, PCs, AllJobs
  <2>3. ASSUME NEW dt \in Date, PlanOptions(w, dt)
        PROVE \E r \in Request : Become(w, r) /\ UNCHANGED tables
    BY <2>0, <2>3, IdleTyped, ModesAssumption DEF PlanOptions, Request, PCs, AllJobs
  <2>4. ASSUME NEW dt \in Date, NEW n \in 1..(Days - dt + 1), PlanMultiDay(w, dt, n)
        PROVE \E r \in Request : Become(w, r) /\ UNCHANGED tables
    <3>1. n \in Nat
      BY <2>0, DaysAssumption
    <3> QED BY <2>0, <2>4, <3>1, IdleTyped DEF PlanMultiDay, Request, PCs, AllJobs
  <2>5. ASSUME NEW dt \in Date, NEW d \in Driver \cup {NULL}, Replan(w, dt, d)
        PROVE \E r \in Request : Become(w, r) /\ UNCHANGED tables
    <3>1. PendingStopOrders(d) \subseteq Order
      BY DEF PendingStopOrders
    <3> QED BY <2>0, <2>5, <3>1, IdleTyped DEF Replan, Request, PCs, AllJobs
  <2>6. ASSUME NEW dt \in Date, NEW p \in Plan, LoadPlan(w, p, dt)
        PROVE \E r \in Request : Become(w, r) /\ UNCHANGED tables
    <3> DEFINE S == {o \in Order : HasStop(p, o)}
    <3>1. [o \in Order |-> IF o \in S THEN order[o] ELSE GoneOrder]
            \in [Order -> OrderRow]
      BY IdleTyped DEF TypeOK
    <3>2. [o \in Order |-> IF o \in S THEN routeDriver[p][stop[p][o].route] ELSE NULL]
            \in [Order -> Driver \cup {NULL}]
      <4>1. ASSUME NEW o \in S PROVE stop[p][o].route \in Driver
        <5>1. stop[p][o] \in StopRow /\ stop[p][o].route # NULL
          BY DEF TypeOK, ForeignKeysHold
        <5> QED BY <5>1 DEF StopRow
      <4> QED BY <4>1 DEF TypeOK
    <3> QED BY <2>0, <2>6, <3>1, <3>2, IdleTyped DEF LoadPlan, Request, PCs, AllJobs
  <2>7. ASSUME NEW o \in Order, NEW p \in Plan, NEW s \in StopInputs,
               LoadStop(w, p, o, s)
        PROVE \E r \in Request : Become(w, r) /\ UNCHANGED tables
    <3> DEFINE gone == [q \in Order |-> GoneOrder]
               row == [gone[o] EXCEPT !.status = order[o].status]
               loaded == [gone EXCEPT ![o] = row]
               r == [Idle EXCEPT
                      !.pc = "report", !.job = "report", !.plan = p, !.orders = {o},
                      !.loaded = loaded, !.told = stop[p][o].status, !.report = s]
    <3>1. row \in OrderRow
      <4>1. gone[o] \in OrderRow /\ order[o] \in OrderRow
        BY IdleTyped DEF TypeOK
      <4> QED BY <4>1 DEF OrderRow
    <3>2. loaded \in [Order -> OrderRow]
      BY <3>1, IdleTyped
    <3>3. stop[p][o].status \in StopReport \cup {"NONE", "PENDING"} /\ s \in StopReport
      <4>1. stop[p][o] \in StopRow
        BY DEF TypeOK
      <4> QED BY <4>1, InputAssumption DEF StopRow
    <3>4. r \in Request
      BY <3>2, <3>3, IdleTyped DEF Request, PCs, AllJobs
    <3>5. Become(w, r) /\ UNCHANGED tables
      BY <2>7 DEF LoadStop, Idle
    <3> QED BY <3>4, <3>5
  <2> QED BY <2>1, <2>2, <2>3, <2>4, <2>5, <2>6, <2>7 DEF StartStep
<1>2. req' \in [Worker -> Request]
  BY <1>1, BecomeTyped
<1> QED BY <1>1, <1>2 DEF TypeOK, tables, signed

\* What a report does to the stops: one status, of one stop.
LEMMA StopsAfterReport ==
  ASSUME TypeOK, NEW w \in Worker, NEW o \in Order, req[w].plan \in Plan,
         req[w].report \in StopReport, stop' = StopAfterReport(w, o)
  PROVE /\ stop' \in [Plan -> [Order -> StopRow]]
        /\ \A q \in Plan, r \in Order :
             IF q = req[w].plan /\ r = o
             THEN /\ stop'[q][r].route = stop[q][r].route
                  /\ stop'[q][r].status =
                       IF TellsStop(w) THEN req[w].report ELSE stop[q][r].status
             ELSE stop'[q][r] = stop[q][r]
<1> DEFINE p == req[w].plan
           s == IF TellsStop(w) THEN req[w].report ELSE stop[p][o].status
           row == [stop[p][o] EXCEPT !.status = s]
           of == [stop[p] EXCEPT ![o] = row]
<1>1. stop \in [Plan -> [Order -> StopRow]] /\ stop[p][o] \in StopRow
  BY DEF TypeOK
<1>2. s \in StopReport \cup {"NONE", "PENDING"}
  BY <1>1 DEF StopRow
<1>3. stop' = [stop EXCEPT ![p] = of]
  BY DEF StopAfterReport, Flushed, TellsStop
<1> HIDE DEF s
<1>4. row \in StopRow /\ row.status = s /\ row.route = stop[p][o].route
  BY <1>1, <1>2 DEF StopRow
<1> HIDE DEF row
<1>5. of \in [Order -> StopRow] /\ of[o] = row /\ \A r \in Order : r # o => of[r] = stop[p][r]
  BY <1>1, <1>4
<1> HIDE DEF of
<1>6. /\ stop' \in [Plan -> [Order -> StopRow]] /\ stop'[p] = of
      /\ \A q \in Plan : q # p => stop'[q] = stop[q]
  BY <1>1, <1>3, <1>5
<1> QED BY <1>4, <1>5, <1>6 DEF s

\* The commit of a report that finds its stop.
Reported(w, o) ==
  /\ HasStop(req[w].plan, o)
  /\ stop' = StopAfterReport(w, o)
  /\ order' = OrderAfterReport(w, o)
  /\ author' = IF TellsOrder(w, o)
               THEN [author EXCEPT ![o].status = "driver"] ELSE author
  /\ retold' = IF TellsStop(w) /\ stop[req[w].plan][o].status # "PENDING"
               THEN retold \cup {<<req[w].plan, o>>} ELSE retold
  /\ Become(w, Idle)
  /\ UNCHANGED <<driver, duty, plan, routeDriver, history>>

LEMMA ReportSteps ==
  ASSUME ReportsNamed, NEW w \in Worker, UpdateStopStatus(w)
  PROVE \E o \in Order :
          /\ req[w].plan \in Plan /\ req[w].report \in StopReport
          /\ req[w].orders = {o}
          /\ \/ Reported(w, o)
             \/ Abort(w)
             \/ Become(w, Idle) /\ UNCHANGED tables
<1>1. PICK o \in Order : req[w].plan \in Plan /\ req[w].report \in StopReport
                         /\ req[w].orders = {o}
  BY DEF UpdateStopStatus, ReportsNamed
<1> QED BY Zenon, <1>1 DEF UpdateStopStatus, Reported

LEMMA TypeWorkerStep ==
  ASSUME TypeOK, PublishedKept, ReportsNamed, NEW w \in Worker, WorkerStep(w) PROVE TypeOK'
<1>1. ASSUME NEW r \in Request, Become(w, r), UNCHANGED tables
      PROVE TypeOK'
  BY <1>1, BecomeTyped DEF TypeOK, tables, signed
<1>2. ASSUME NEW r \in Request, Become(w, r), order' \in [Order -> OrderRow],
             author' \in Authors,
             UNCHANGED <<driver, duty, plan, routeDriver, stop, history, retold>>
      PROVE TypeOK'
  BY <1>2, BecomeTyped DEF TypeOK, Authors
<1>3. ASSUME NEW r \in Request, Become(w, r), NEW p \in Plan,
             NEW S \in SUBSET req[w].orders, NEW f \in [S -> req[w].drivers],
             NEW b, WritePlan(w, p, f, b)
      PROVE TypeOK'
  <2>1. S \in SUBSET Order /\ f \in [S -> Driver]
    BY DEF TypeOK, Request
  <2>2. author' \in Authors
    BY <1>3, SignedByTyped DEF WritePlan, TypeOK, Authors, Author
  <2> QED BY <1>3, <2>1, <2>2, WritePlanTyped, BecomeTyped DEF TypeOK, WritePlan, Authors
<1>4. req[w] \in Request
  BY DEF TypeOK
<1>5. Abort(w) => TypeOK'
  BY <1>1, FailedTyped DEF Abort
<1>6. CASE EraseOrder(w)
  <2>1. order' \in [Order -> OrderRow]
    BY <1>6, IdleTyped DEF EraseOrder, TypeOK
  <2>2. stop' \in [Plan -> [Order -> StopRow]]
    BY <1>6 DEF EraseOrder, StopsWithout, TypeOK, StopRow, NoStop
  <2>3. req' \in [Worker -> Request]
    BY <1>6, IdleTyped, BecomeTyped DEF EraseOrder
  <2>4. author' \in Authors
    BY <1>6, SignedByTyped DEF EraseOrder, Author
  <2> QED BY <1>6, <2>1, <2>2, <2>3, <2>4 DEF EraseOrder, TypeOK, Authors
<1>7. ASSUME NEW l \in PCs, NEW m \in PCs, ReadInputs(w, l, m) PROVE TypeOK'
  <2> DEFINE S == PendingOrders(req[w].date)
             D == AvailableDrivers(req[w].date)
             r == [req[w] EXCEPT !.pc = m, !.orders = S, !.drivers = D]
  <2>1. S \subseteq Order /\ D \subseteq Driver
    BY DEF PendingOrders, AvailableDrivers
  <2>2. r \in Request
    BY <1>4, <2>1 DEF Request
  <2>3. (Become(w, AfterMode(w)) \/ Become(w, r)) /\ UNCHANGED tables
    BY <1>7 DEF ReadInputs
  <2> QED BY <1>1, <2>2, <2>3, AfterModeTyped
<1>8. CASE SolveWrite(w)
  <2>1. PICK f \in Solutions(w) :
          \/ \E p \in Plan : WritePlan(w, p, f, ~DryRun(w)) /\ Become(w, AfterMode(w))
          \/ Abort(w)
    BY <1>8 DEF SolveWrite
  <2>2. PICK S \in SUBSET req[w].orders : f \in [S -> req[w].drivers]
    BY DEF Solutions
  <2> QED BY <1>3, <1>5, <2>1, <2>2, AfterModeTyped
<1>9. CASE NoSolution(w)
  <2> DEFINE r == [req[w] EXCEPT !.pc = "pick", !.orders = {}, !.drivers = {}]
  <2>1. r \in Request
    BY <1>4 DEF Request, PCs
  <2>2. (Become(w, AfterMode(w)) \/ Become(w, r)) /\ UNCHANGED tables
    BY <1>9 DEF NoSolution
  <2> QED BY <1>1, <2>1, <2>2, AfterModeTyped
<1>10. CASE GreedyWrite(w)
  <2>1. PICK f \in [req[w].orders -> req[w].drivers] :
          \/ \E p \in Plan : WritePlan(w, p, f, TRUE) /\ Become(w, AfterMode(w))
          \/ Abort(w)
    BY <1>10 DEF GreedyWrite
  <2>2. req[w].orders \in SUBSET req[w].orders
    OBVIOUS
  <2> QED BY <1>3, <1>5, <2>1, <2>2, AfterModeTyped
<1>11. CASE ResetOrders(w)
  <2> DEFINE r == [req[w] EXCEPT !.pc = "read", !.orders = {}]
  <2>1. r \in Request
    BY <1>4 DEF Request, PCs
  <2>2. ASSUME NEW o \in Order
        PROVE [order[o] EXCEPT !.status = "PENDING", !.driver = NULL] \in OrderRow
    <3>1. order[o] \in OrderRow
      BY DEF TypeOK
    <3> QED BY <3>1 DEF OrderRow, OrderStatus
  <2>3. OrdersReset(req[w].orders) \in [Order -> OrderRow]
    BY <2>2 DEF OrdersReset, TypeOK
  <2>4. author' \in Authors
    BY <1>11, SignedByTyped DEF ResetOrders, Author
  <2> QED BY <1>2, <1>11, <2>1, <2>3, <2>4 DEF ResetOrders
<1>12. CASE PublishPlan(w)
  <2>1. CASE Abort(w)
    BY <1>5, <2>1
  <2>2. CASE /\ order' = Confirmed(w)
             /\ plan' = Published(req[w].plan, req[w].date)
             /\ author' = SignedConfirm(w)
             /\ Become(w, [Idle EXCEPT !.pc = "record", !.job = "confirm",
                                       !.plan = req[w].plan])
             /\ UNCHANGED <<driver, duty, routeDriver, stop, history, retold>>
    <3>1. ASSUME NEW o \in Order
          PROVE [order[o] EXCEPT
                   !.status = Flushed(req[w].loaded[o].status, "ASSIGNED", @),
                   !.driver = Flushed(req[w].loaded[o].driver, req[w].wants[o], @)]
                  \in OrderRow
      <4>1. order[o] \in OrderRow /\ req[w].wants[o] \in Driver \cup {NULL}
        BY <1>4 DEF TypeOK, Request
      <4> QED BY <4>1 DEF Flushed, OrderRow, OrderStatus
    <3>2. order' \in [Order -> OrderRow]
      BY <2>2, <3>1 DEF Confirmed, TypeOK
    <3>3. plan' \in [Plan -> [status : {"NONE", "DRAFT", "PUBLISHED", "CANCELLED"},
                             date : Nat]]
      BY <2>2 DEF Published, TypeOK
    <3> DEFINE r == [Idle EXCEPT !.pc = "record", !.job = "confirm",
                                 !.plan = req[w].plan]
    <3>4. r \in Request
      <4>1. ASSUME NEW p \in Plan \cup {NULL}
            PROVE [Idle EXCEPT !.pc = "record", !.job = "confirm", !.plan = p] \in Request
        BY IdleTyped DEF Request, PCs, AllJobs
      <4>2. req[w].plan \in Plan \cup {NULL}
        BY <1>4 DEF Request
      <4> QED BY <4>1, <4>2
    <3>5. req' \in [Worker -> Request]
      BY <2>2, <3>4, BecomeTyped
    <3>6. author' \in Authors
      BY <2>2, ConfirmSigned
    <3> QED BY <2>2, <3>2, <3>3, <3>5, <3>6 DEF TypeOK, Authors
  <2> QED BY <1>12, <2>1, <2>2 DEF PublishPlan
<1>13. CASE RecordHistory(w)
  <2>1. req[w].plan \in Plan
    BY <1>13 DEF RecordHistory, PublishedKept
  <2>2. req' \in [Worker -> Request]
    BY <1>13, IdleTyped, BecomeTyped DEF RecordHistory
  <2> QED BY <1>13, <2>1, <2>2 DEF RecordHistory, TypeOK, signed
<1>14. CASE Reply(w) \/ Crash(w)
  BY <1>1, <1>14, IdleTyped DEF Reply, Crash
<1>15. CASE UpdateStopStatus(w)
  <2>1. PICK o \in Order :
          /\ req[w].plan \in Plan /\ req[w].report \in StopReport
          /\ Reported(w, o) \/ Abort(w) \/ (Become(w, Idle) /\ UNCHANGED tables)
    BY <1>15, ReportSteps
  <2>2. CASE Reported(w, o)
    <3>1. order' \in [Order -> OrderRow]
      <4>1. TellsOrder(w, o) => req[w].report \in OrderStatus
        BY DEF TellsOrder, OrderStatus
      <4> QED BY <2>1, <2>2, <4>1, OrderStatusTyped DEF Reported, OrderAfterReport, TypeOK
    <3>2. stop' \in [Plan -> [Order -> StopRow]]
      BY <2>1, <2>2, StopsAfterReport DEF Reported
    <3>3. author' \in Authors
      BY <2>1, <2>2, SignatureTyped DEF Reported, Author, Authors, TypeOK
    <3>4. req' \in [Worker -> Request] /\ retold' \subseteq Plan \X Order
      BY <2>1, <2>2, IdleTyped, BecomeTyped DEF Reported, TypeOK
    <3> QED BY <2>2, <3>1, <3>2, <3>3, <3>4 DEF Reported, TypeOK, Authors
  <2> QED BY <1>1, <1>5, <2>1, <2>2, IdleTyped
<1> QED BY <1>6, <1>7, <1>8, <1>9, <1>10, <1>11, <1>12, <1>13, <1>14, <1>15
       DEF WorkerStep, ReadForOrtools, ReadForGreedy, PCs

LEMMA TypeNext == ASSUME IInv, [Next]_vars PROVE TypeOK'
<1> USE DEF IInv
<1>1. CASE UNCHANGED vars
  BY <1>1 DEF TypeOK, vars, tables, signed
<1>2. CASE Next
  BY <1>2, TypeOrderStep, TypeDriverStep, TypeStartStep, TypeWorkerStep DEF Next
<1> QED BY <1>1, <1>2

-----------------------------------------------------------------------------
(* Foreign keys, assignments and snapshots.  A step changes the tables in    *)
(* one of few ways; each keeps the three invariants for every request it     *)
(* does not itself advance.                                                  *)

KeepsSnapshots ==
  \A v \in Worker : At(v, "publish") /\ req'[v] = req[v] => Snapshot(v)'

Kept == ForeignKeysHold' /\ DriverBackedByStop' /\ KeepsSnapshots

LEMMA KeptUnchanged ==
  ASSUME IInv, UNCHANGED tables PROVE Kept
<1>1. ForeignKeysHold'
  BY DEF IInv, tables, ForeignKeysHold, HasStop, Live, Employed
<1>2. DriverBackedByStop'
  BY DEF IInv, tables, DriverBackedByStop, Backed, HasStop
<1>3. KeepsSnapshots
  BY DEF IInv, tables, KeepsSnapshots, SnapshotSound, Snapshot, HasStop, Live, Employed
<1> QED BY <1>1, <1>2, <1>3 DEF Kept

\* Every change of orders alone that keeps deleted orders deleted, live orders
\* live, and either keeps or clears each assignment, or assigns a new order.
LEMMA KeptOrders ==
  ASSUME IInv, order' \in [Order -> OrderRow],
         UNCHANGED <<driver, plan, routeDriver, stop>>,
         \A o \in Order : order'[o].driver \in {NULL, order[o].driver},
         \A o \in Order : Live(o) => Live(o)',
         \A o \in Order : ~Live(o) /\ Live(o)' => order[o].status = "ABSENT",
         \A o \in Order : order'[o].status = "ABSENT" => order[o].status = "ABSENT"
  PROVE Kept
<1>1. ForeignKeysHold'
  BY DEF IInv, ForeignKeysHold, HasStop, Employed
<1>2. DriverBackedByStop'
  BY DEF IInv, DriverBackedByStop, Backed, HasStop
<1>3. KeepsSnapshots
  <2> SUFFICES ASSUME NEW v \in Worker, At(v, "publish"), req'[v] = req[v]
               PROVE Snapshot(v)'
    BY DEF KeepsSnapshots
  <2>1. Snapshot(v) /\ req[v].orders \subseteq Order
    BY DEF IInv, SnapshotSound, TypeOK, Request
  <2> QED BY <2>1 DEF Snapshot, HasStop, Employed
<1> QED BY <1>1, <1>2, <1>3 DEF Kept

\* The same for drivers: none is forgotten, none comes back.
LEMMA KeptDrivers ==
  ASSUME IInv, UNCHANGED <<order, plan, routeDriver, stop>>,
         \A d \in Driver : Employed(d) => Employed(d)',
         \A d \in Driver : ~Employed(d) /\ Employed(d)' => driver[d] = "ABSENT",
         \A d \in Driver : driver'[d] = "ABSENT" => driver[d] = "ABSENT"
  PROVE Kept
<1>1. ForeignKeysHold'
  <2>1. \A o \in Order : order[o].driver \in Driver \cup {NULL}
    BY DEF IInv, TypeOK, OrderRow
  <2>2. \A p \in Plan, d \in Driver : routeDriver[p][d] \in Driver \cup {NULL}
    BY DEF IInv, TypeOK
  <2> QED BY <2>1, <2>2 DEF IInv, ForeignKeysHold, HasStop, Live
<1>2. DriverBackedByStop'
  BY DEF IInv, DriverBackedByStop, Backed, HasStop
<1>3. KeepsSnapshots
  <2> SUFFICES ASSUME NEW v \in Worker, At(v, "publish"), req'[v] = req[v]
               PROVE Snapshot(v)'
    BY DEF KeepsSnapshots
  <2>1. Snapshot(v) /\ req[v].orders \subseteq Order
    BY DEF IInv, SnapshotSound, TypeOK, Request
  <2>2. \A o \in Order : req[v].wants[o] \in Driver \cup {NULL}
    BY DEF IInv, TypeOK, Request
  <2> QED BY <2>1, <2>2 DEF Snapshot, HasStop, Live
<1> QED BY <1>1, <1>2, <1>3 DEF Kept

LEMMA KeptDeleteDriver ==
  ASSUME IInv, NEW d \in Driver, DeleteDriver(d) PROVE Kept
<1>0. /\ driver \in [Driver -> {"ABSENT", "ACTIVE", "INACTIVE", "DELETED"}]
      /\ \A o \in Order : order[o] \in OrderRow
      /\ \A p \in Plan : routeDriver[p] \in [Driver -> Driver \cup {NULL}]
  BY DEF IInv, TypeOK
<1>1. /\ UNCHANGED <<stop, plan>>
      /\ \A e \in Driver : driver'[e] = IF e = d THEN "DELETED" ELSE driver[e]
  BY <1>0 DEF DeleteDriver
<1>2. ASSUME NEW o \in Order
      PROVE /\ order'[o].status = order[o].status
            /\ order'[o].driver = IF order[o].driver = d THEN NULL ELSE order[o].driver
  <2>1. order'[o] = IF order[o].driver = d
                    THEN [order[o] EXCEPT !.driver = NULL] ELSE order[o]
    BY DEF DeleteDriver, OrdersWithout
  <2> QED BY <1>0, <2>1 DEF OrderRow
<1>3. ASSUME NEW p \in Plan, NEW e \in Driver
      PROVE routeDriver'[p][e] = IF routeDriver[p][e] = d THEN NULL ELSE routeDriver[p][e]
  BY DEF DeleteDriver, RoutesWithout
<1>4. ForeignKeysHold'
  <2>1. ASSUME NEW p \in Plan, NEW o \in Order, HasStop(p, o)'
        PROVE Live(o)' /\ plan'[p].status # "NONE" /\ stop'[p][o].route # NULL
    BY <1>1, <1>2, <2>1 DEF IInv, ForeignKeysHold, HasStop, Live
  <2>2. ASSUME NEW o \in Order, order'[o].driver # NULL
        PROVE Live(o)' /\ driver'[order'[o].driver] \in {"ACTIVE", "INACTIVE"}
    <3>1. order[o].driver # NULL /\ order[o].driver # d
             /\ order'[o].driver = order[o].driver /\ order[o].driver \in Driver
      BY <1>0, <1>2, <2>2 DEF OrderRow
    <3> QED BY <1>1, <1>2, <3>1 DEF IInv, ForeignKeysHold, Live, Employed
  <2>3. ASSUME NEW p \in Plan, NEW e \in Driver, routeDriver'[p][e] # NULL
        PROVE driver'[routeDriver'[p][e]] \in {"ACTIVE", "INACTIVE"}
    <3>1. routeDriver[p][e] # NULL /\ routeDriver[p][e] # d
             /\ routeDriver'[p][e] = routeDriver[p][e] /\ routeDriver[p][e] \in Driver
      BY <1>0, <1>3, <2>3
    <3> QED BY <1>1, <3>1 DEF IInv, ForeignKeysHold, Employed
  <2> QED BY <2>1, <2>2, <2>3 DEF ForeignKeysHold, Employed
<1>5. DriverBackedByStop'
  <2> SUFFICES ASSUME NEW o \in Order, order'[o].driver # NULL
               PROVE Backed(o)'
    BY DEF DriverBackedByStop
  <2>1. order[o].driver # NULL /\ order[o].driver # d /\ order'[o].driver = order[o].driver
    BY <1>2
  <2>2. PICK p \in Plan : /\ HasStop(p, o)
                         /\ routeDriver[p][stop[p][o].route] = order[o].driver
    BY <2>1 DEF IInv, DriverBackedByStop, Backed
  <2>3. stop[p][o].route \in Driver
    <3>1. stop[p][o] \in StopRow
      BY DEF IInv, TypeOK
    <3> QED BY <2>2, <3>1 DEF IInv, ForeignKeysHold, StopRow
  <2> QED BY <1>1, <1>3, <2>1, <2>2, <2>3 DEF Backed, HasStop
<1>6. KeepsSnapshots
  <2> SUFFICES ASSUME NEW v \in Worker, At(v, "publish"), req'[v] = req[v]
               PROVE Snapshot(v)'
    BY DEF KeepsSnapshots
  <2>1. Snapshot(v) /\ req[v].orders \subseteq Order /\ req[v].plan \in Plan
    BY DEF IInv, SnapshotSound, TypeOK, Request, Snapshot
  <2> DEFINE p == req[v].plan
  <2>2. ASSUME NEW o \in req[v].orders, req[v].wants[o] # NULL
        PROVE /\ driver'[req[v].wants[o]] # "ABSENT"
              /\ Live(o)' /\ Employed(req[v].wants[o])'
                   => /\ HasStop(p, o)'
                      /\ routeDriver'[p][stop'[p][o].route] = req[v].wants[o]
    <3> DEFINE e == req[v].wants[o]
    <3>1. e \in Driver
      BY <2>1, <2>2 DEF IInv, TypeOK, Request
    <3>2. driver'[e] # "ABSENT"
      BY <1>1, <2>1, <2>2, <3>1 DEF Snapshot
    <3>3. ASSUME Live(o)', Employed(e)'
          PROVE HasStop(p, o)' /\ routeDriver'[p][stop'[p][o].route] = e
      <4>1. e # d /\ Employed(e) /\ Live(o)
        BY <1>1, <1>2, <2>1, <3>1, <3>3 DEF Employed, Live
      <4>2. HasStop(p, o) /\ routeDriver[p][stop[p][o].route] = e
        BY <2>1, <2>2, <4>1 DEF Snapshot
      <4>3. stop[p][o].route \in Driver
        <5>1. stop[p][o] \in StopRow
          BY <2>1 DEF IInv, TypeOK
        <5> QED BY <2>1, <4>2, <5>1 DEF IInv, ForeignKeysHold, StopRow
      <4> QED BY <1>1, <1>3, <2>1, <4>1, <4>2, <4>3 DEF HasStop
    <3> QED BY <3>2, <3>3
  <2>3. \A o \in req[v].orders : order'[o].status # "ABSENT"
    BY <1>2, <2>1 DEF Snapshot
  <2> QED BY <1>1, <2>1, <2>2, <2>3 DEF Snapshot, Employed
<1> QED BY <1>4, <1>5, <1>6 DEF Kept

\* A report changes the status of a stop, never its order or its route.
LEMMA KeptReport ==
  ASSUME IInv, NEW w \in Worker, NEW o \in Order, Reported(w, o),
         req[w].plan \in Plan, req[w].report \in StopReport
  PROVE Kept
<1> DEFINE p == req[w].plan
           s == req[w].report
<1>1. UNCHANGED <<driver, plan, routeDriver>>
  BY DEF Reported
<1>2. ASSUME NEW q \in Plan, NEW r \in Order
      PROVE /\ stop'[q][r].route = stop[q][r].route
            /\ HasStop(q, r)' => HasStop(q, r)
            /\ HasStop(q, r) => HasStop(q, r)'
  <2>1. IF q = p /\ r = o
        THEN /\ stop'[q][r].route = stop[q][r].route
             /\ stop'[q][r].status = IF TellsStop(w) THEN s ELSE stop[q][r].status
        ELSE stop'[q][r] = stop[q][r]
    BY StopsAfterReport DEF IInv, Reported
  <2>2. HasStop(p, o) /\ s # "NONE"
    BY DEF Reported, StopReport
  <2> QED BY <2>1, <2>2 DEF HasStop
<1>3. ASSUME NEW r \in Order
      PROVE /\ order'[r].driver = order[r].driver
            /\ Live(r)' => Live(r)
            /\ Live(r) => Live(r)'
            /\ order'[r].status = "ABSENT" => order[r].status = "ABSENT"
  <2>1. order \in [Order -> OrderRow] /\ order[o] \in OrderRow /\ Live(o)
    BY DEF IInv, TypeOK, Reported, ForeignKeysHold
  <2>2. CASE TellsOrder(w, o)
    <3>1. order'[r] = IF r = o THEN [order[o] EXCEPT !.status = s] ELSE order[r]
      BY <2>1, <2>2 DEF Reported, OrderAfterReport
    <3>2. s \in {"DELIVERED", "FAILED"}
      BY <2>2 DEF TellsOrder
    <3> QED BY <2>1, <3>1, <3>2 DEF Live, OrderRow, OrderStatus
  <2>3. CASE ~TellsOrder(w, o)
    BY <2>3 DEF Reported, OrderAfterReport, Live
  <2> QED BY <2>2, <2>3
<1>4. ForeignKeysHold'
  <2>1. ASSUME NEW q \in Plan, NEW r \in Order, HasStop(q, r)'
        PROVE Live(r)' /\ plan'[q].status # "NONE" /\ stop'[q][r].route # NULL
    <3>1. HasStop(q, r)
      BY <1>2, <2>1
    <3>2. Live(r) /\ plan[q].status # "NONE" /\ stop[q][r].route # NULL
      BY <3>1 DEF IInv, ForeignKeysHold
    <3> QED BY <1>1, <1>2, <1>3, <3>2
  <2>2. ASSUME NEW r \in Order, order'[r].driver # NULL
        PROVE Live(r)' /\ driver'[order'[r].driver] \in {"ACTIVE", "INACTIVE"}
    <3>1. Live(r) /\ Employed(order[r].driver)
      BY <1>3, <2>2 DEF IInv, ForeignKeysHold
    <3> QED BY <1>1, <1>3, <3>1 DEF Employed
  <2>3. ASSUME NEW q \in Plan, NEW d \in Driver, routeDriver'[q][d] # NULL
        PROVE driver'[routeDriver'[q][d]] \in {"ACTIVE", "INACTIVE"}
    BY <1>1, <2>3 DEF IInv, ForeignKeysHold, Employed
  <2> QED BY <2>1, <2>2, <2>3 DEF ForeignKeysHold, Employed
<1>5. DriverBackedByStop'
  <2> SUFFICES ASSUME NEW r \in Order, order'[r].driver # NULL
               PROVE Backed(r)'
    BY DEF DriverBackedByStop
  <2>1. PICK q \in Plan : HasStop(q, r)
                         /\ routeDriver[q][stop[q][r].route] = order[r].driver
    BY <1>3 DEF IInv, DriverBackedByStop, Backed
  <2>2. HasStop(q, r)' /\ routeDriver'[q][stop'[q][r].route] = order'[r].driver
    BY <1>1, <1>2, <1>3, <2>1
  <2> QED BY <2>2 DEF Backed
<1>6. KeepsSnapshots
  <2> SUFFICES ASSUME NEW v \in Worker, At(v, "publish"), req'[v] = req[v]
               PROVE Snapshot(v)'
    BY DEF KeepsSnapshots
  <2>1. Snapshot(v) /\ req[v].orders \subseteq Order /\ req[v].plan \in Plan
    BY DEF IInv, SnapshotSound, TypeOK, Request, Snapshot
  <2>2. ASSUME NEW r \in req[v].orders
        PROVE order'[r].status # "ABSENT"
    BY <1>3, <2>1 DEF Snapshot
  <2>3. ASSUME NEW r \in req[v].orders, req[v].wants[r] # NULL,
               Live(r)', Employed(req[v].wants[r])
        PROVE /\ HasStop(req[v].plan, r)'
              /\ routeDriver'[req[v].plan][stop'[req[v].plan][r].route]
                   = req[v].wants[r]
    <3>1. Live(r) /\ r \in Order
      BY <1>3, <2>1, <2>3
    <3>2. /\ HasStop(req[v].plan, r)
          /\ routeDriver[req[v].plan][stop[req[v].plan][r].route] = req[v].wants[r]
      BY <2>1, <2>3, <3>1 DEF Snapshot
    <3> QED BY <1>1, <1>2, <2>1, <3>1, <3>2
  <2> QED BY <1>1, <2>1, <2>2, <2>3 DEF Snapshot, Employed, HasStop
<1> QED BY <1>4, <1>5, <1>6 DEF Kept

LEMMA KeptOrderStep ==
  ASSUME IInv, OrderStep PROVE Kept
<1>1. order \in [Order -> OrderRow] /\ \A o \in Order : order[o] \in OrderRow
  BY DEF IInv, TypeOK
<1>2. order' \in [Order -> OrderRow]
  BY TypeOrderStep DEF IInv, TypeOK
<1>3. ASSUME NEW o \in Order, NEW dt \in Date, CreateOrder(o, dt) PROVE Kept
  <2>1. \A r \in Order : r # o => order'[r] = order[r]
    BY <1>1, <1>3 DEF CreateOrder
  <2>2. order'[o].status = "PENDING" /\ order'[o].driver = NULL
          /\ order[o].status = "ABSENT"
    BY <1>1, <1>3 DEF CreateOrder
  <2>3. UNCHANGED <<driver, plan, routeDriver, stop>>
    BY <1>3 DEF CreateOrder
  <2> QED BY <1>2, <2>1, <2>2, <2>3, KeptOrders DEF Live, OrderStatus
<1>4. ASSUME NEW o \in Order, NEW dt \in Date, RescheduleOrder(o, dt) PROVE Kept
  <2>1. \A r \in Order : order'[r].status = order[r].status
                          /\ order'[r].driver = order[r].driver
    <3>1. \A r \in Order : order'[r] = IF r = o THEN [order[o] EXCEPT !.date = dt]
                                       ELSE order[r]
      BY <1>1, <1>4 DEF RescheduleOrder
    <3> QED BY <1>1, <3>1 DEF OrderRow
  <2>2. UNCHANGED <<driver, plan, routeDriver, stop>>
    BY <1>4 DEF RescheduleOrder
  <2> QED BY <1>2, <2>1, <2>2, KeptOrders DEF Live
<1>5. ASSUME NEW o \in Order, NEW s \in PatchStatuses, PatchOrder(o, s) PROVE Kept
  <2>1. \A r \in Order : /\ order'[r].driver = order[r].driver
                         /\ order'[r].status = IF r = o THEN s ELSE order[r].status
    <3>1. \A r \in Order : order'[r] = IF r = o THEN [order[o] EXCEPT !.status = s]
                                       ELSE order[r]
      BY <1>1, <1>5 DEF PatchOrder
    <3> QED BY <1>1, <3>1 DEF OrderRow
  <2>2. UNCHANGED <<driver, plan, routeDriver, stop>> /\ Live(o) /\ s \in OrderStatus
    BY <1>5, InputAssumption DEF PatchOrder
  <2> QED BY <1>2, <2>1, <2>2, KeptOrders DEF Live, OrderStatus
<1> QED BY <1>3, <1>4, <1>5, InputAssumption DEF OrderStep

LEMMA KeptDriverStep ==
  ASSUME IInv, DriverStep PROVE Kept
<1>1. driver \in [Driver -> {"ABSENT", "ACTIVE", "INACTIVE", "DELETED"}]
  BY DEF IInv, TypeOK
<1>2. ASSUME NEW d \in Driver, NEW b, CreateDriver(d) \/ SetActive(d, b)
      PROVE Kept
  <2>1. UNCHANGED <<order, plan, routeDriver, stop>>
    BY <1>2 DEF CreateDriver, SetActive
  <2>2. \A e \in Driver : e # d => driver'[e] = driver[e]
    BY <1>1, <1>2 DEF CreateDriver, SetActive
  <2>3. driver'[d] \in {"ACTIVE", "INACTIVE"}
          /\ driver[d] \in {"ABSENT", "ACTIVE", "INACTIVE"}
    BY <1>1, <1>2 DEF CreateDriver, SetActive, Employed
  <2> QED BY <2>1, <2>2, <2>3, KeptDrivers DEF Employed
<1>3. ASSUME NEW d \in Driver, NEW dt \in Date, NEW s \in DutyInputs,
             UpsertAvailability(d, dt, s)
      PROVE Kept
  BY <1>3, KeptDrivers DEF UpsertAvailability, Employed
<1> QED BY <1>2, <1>3, KeptDeleteDriver DEF DriverStep

\* Deleting an order takes its stops along, by ON DELETE CASCADE.
LEMMA KeptErase ==
  ASSUME IInv, NEW w \in Worker, EraseOrder(w) PROVE Kept
<1> DEFINE S == req[w].orders
<1>1. /\ UNCHANGED <<driver, plan, routeDriver>>
      /\ \A o \in Order : order'[o] = IF o \in S /\ Live(o) THEN GoneOrder ELSE order[o]
      /\ \A p \in Plan, o \in Order :
           stop'[p][o] = IF o \in S THEN NoStop ELSE stop[p][o]
  BY DEF EraseOrder, StopsWithout
<1>2. ForeignKeysHold'
  BY <1>1 DEF IInv, ForeignKeysHold, HasStop, Live, Employed, NoStop, GoneOrder
<1>3. DriverBackedByStop'
  <2> SUFFICES ASSUME NEW o \in Order, order'[o].driver # NULL
               PROVE Backed(o)'
    BY DEF DriverBackedByStop
  <2>1. order[o].driver # NULL /\ o \notin S /\ order'[o] = order[o]
    BY <1>1 DEF GoneOrder, IInv, ForeignKeysHold
  <2> QED BY <1>1, <2>1 DEF IInv, DriverBackedByStop, Backed, HasStop
<1>4. KeepsSnapshots
  <2> SUFFICES ASSUME NEW v \in Worker, At(v, "publish"), req'[v] = req[v]
               PROVE Snapshot(v)'
    BY DEF KeepsSnapshots
  <2>1. Snapshot(v) /\ req[v].orders \subseteq Order
    BY DEF IInv, SnapshotSound, TypeOK, Request
  <2>2. \A o \in Order : order'[o].status = "ABSENT" => order[o].status = "ABSENT"
    BY <1>1 DEF GoneOrder
  <2>3. \A o \in Order : Live(o)' => Live(o) /\ o \notin S
    BY <1>1 DEF GoneOrder, Live, OrderStatus
  <2> QED BY SMTT(60), <1>1, <2>1, <2>2, <2>3 DEF Snapshot, Employed, HasStop
<1> QED BY <1>2, <1>3, <1>4 DEF Kept

LEMMA KeptReset ==
  ASSUME IInv, NEW w \in Worker, ResetOrders(w) PROVE Kept
<1>1. /\ UNCHANGED <<driver, plan, routeDriver, stop>>
      /\ \A o \in Order : order[o] \in OrderRow
  BY DEF ResetOrders, IInv, TypeOK
<1>2. order' = OrdersReset(req[w].orders)
  BY DEF ResetOrders
<1>3. ASSUME NEW o \in Order
      PROVE /\ order'[o] \in OrderRow
            /\ order'[o].driver \in {NULL, order[o].driver}
            /\ Live(o) => Live(o)'
            /\ ~Live(o) => order'[o] = order[o]
            /\ order'[o].status = "ABSENT" => order[o].status = "ABSENT"
  <2>1. order'[o] = IF o \in req[w].orders /\ Live(o)
                    THEN [order[o] EXCEPT !.status = "PENDING", !.driver = NULL]
                    ELSE order[o]
    BY <1>2 DEF OrdersReset
  <2> QED BY <1>1, <2>1 DEF Live, OrderRow, OrderStatus
<1>4. order' \in [Order -> OrderRow]
  BY <1>2, <1>3 DEF OrdersReset
<1>5. \A o \in Order : ~Live(o) /\ Live(o)' => order[o].status = "ABSENT"
  BY <1>3 DEF Live
<1> QED BY <1>1, <1>3, <1>4, <1>5, KeptOrders

\* A plan is written under a name no stop uses yet, with its routes, its stops
\* and the assignments, all from one f.
LEMMA KeptWrite ==
  ASSUME IInv, NEW w \in Worker, NEW p \in Plan,
         NEW S \in SUBSET Order, NEW f \in [S -> Driver], NEW b,
         WritePlan(w, p, f, b)
  PROVE Kept
<1>1. /\ \A o \in Order : order[o] \in OrderRow
      /\ routeDriver \in [Plan -> [Driver -> Driver \cup {NULL}]]
      /\ stop \in [Plan -> [Order -> StopRow]]
      /\ plan[p].status = "NONE" /\ UNCHANGED driver
      /\ \A o \in S : Live(o) /\ Employed(f[o])
  BY DEF IInv, TypeOK, WritePlan, Insertable
<1>2. ASSUME NEW q \in Plan, q # p
      PROVE /\ plan'[q] = plan[q]
            /\ routeDriver'[q] = routeDriver[q]
            /\ stop'[q] = stop[q]
  BY <1>1, <1>2 DEF WritePlan, WithPlan, WithRoutes, WithStops, IInv, TypeOK
<1>3. /\ plan'[p].status # "NONE"
      /\ \A d \in Driver :
           routeDriver'[p][d] = IF \E o \in S : f[o] = d THEN d ELSE NULL
      /\ \A o \in S : HasStop(p, o)' /\ stop'[p][o].route = f[o]
      /\ \A o \in Order \ S : ~HasStop(p, o)'
  <2>1. \A o \in Order : stop'[p][o] = IF o \in S
                                     THEN [route |-> f[o], status |-> "PENDING"]
                                     ELSE NoStop
    BY <1>1 DEF WritePlan, WithStops
  <2>2. \A o \in S : stop'[p][o] = [route |-> f[o], status |-> "PENDING"]
    BY <2>1
  <2>3. \A o \in Order \ S : stop'[p][o] = NoStop
    BY <2>1
  <2>4. ASSUME NEW o \in S PROVE HasStop(p, o)' /\ stop'[p][o].route = f[o]
    <3>1. stop'[p][o] = [route |-> f[o], status |-> "PENDING"]
      BY <2>2
    <3>2. stop'[p][o].status = "PENDING" /\ stop'[p][o].route = f[o]
      BY <3>1
    <3> QED BY <3>2 DEF HasStop
  <2>5. ASSUME NEW o \in Order \ S PROVE ~HasStop(p, o)'
    <3>1. stop'[p][o].status = "NONE"
      BY <2>3 DEF NoStop
    <3> QED BY <3>1 DEF HasStop
  <2>6. \A d \in Driver :
          routeDriver'[p][d] = IF \E o \in S : f[o] = d THEN d ELSE NULL
    BY <1>1 DEF WritePlan, WithRoutes
  <2>7. plan'[p].status # "NONE"
    BY DEF WritePlan, WithPlan, IInv, TypeOK
  <2> QED BY <2>4, <2>5, <2>6, <2>7
<1>4. ASSUME NEW o \in Order
      PROVE /\ Live(o) => Live(o)'
            /\ Live(o)' => Live(o)
            /\ order'[o].status = "ABSENT" => order[o].status = "ABSENT"
            /\ \/ order'[o].driver = order[o].driver
               \/ o \in S /\ order'[o].driver = f[o]
  <2>1. \/ order'[o] = order[o]
        \/ /\ o \in S
           /\ order'[o] = [order[o] EXCEPT !.status = "ASSIGNED", !.driver = f[o]]
    <3>1. order' = order \/ order' = Assigned(f)
      BY Zenon DEF WritePlan
    <3> QED BY <3>1 DEF Assigned
  <2> QED BY <1>1, <2>1 DEF Live, OrderRow, OrderStatus
<1>5. ASSUME NEW o \in Order PROVE ~HasStop(p, o)
  BY <1>1 DEF IInv, ForeignKeysHold
<1>6. ForeignKeysHold'
  <2>1. ASSUME NEW q \in Plan, NEW o \in Order, HasStop(q, o)'
        PROVE Live(o)' /\ plan'[q].status # "NONE" /\ stop'[q][o].route # NULL
    <3>1. CASE q = p
      <4>1. o \in S /\ stop'[q][o].route = f[o] /\ f[o] \in Driver
        BY <1>3, <2>1, <3>1
      <4> QED BY <1>1, <1>3, <1>4, <3>1, <4>1, NullAssumption
    <3>2. CASE q # p
      <4>1. HasStop(q, o)
        BY <1>2, <2>1, <3>2 DEF HasStop
      <4>2. Live(o) /\ plan[q].status # "NONE" /\ stop[q][o].route # NULL
        BY <4>1 DEF IInv, ForeignKeysHold
      <4> QED BY <1>2, <1>4, <3>2, <4>2
    <3> QED BY <3>1, <3>2
  <2>2. ASSUME NEW o \in Order, order'[o].driver # NULL
        PROVE Live(o)' /\ driver'[order'[o].driver] \in {"ACTIVE", "INACTIVE"}
    <3>1. CASE order'[o].driver = order[o].driver
      BY <1>1, <1>4, <2>2, <3>1 DEF IInv, ForeignKeysHold, Employed
    <3>2. CASE o \in S /\ order'[o].driver = f[o]
      BY <1>1, <1>4, <3>2 DEF Employed
    <3> QED BY <1>4, <3>1, <3>2
  <2>3. ASSUME NEW q \in Plan, NEW d \in Driver, routeDriver'[q][d] # NULL
        PROVE driver'[routeDriver'[q][d]] \in {"ACTIVE", "INACTIVE"}
    <3>1. CASE q = p
      BY <1>1, <1>3, <2>3, <3>1 DEF Employed
    <3>2. CASE q # p
      BY <1>1, <1>2, <2>3, <3>2 DEF IInv, ForeignKeysHold, Employed
    <3> QED BY <3>1, <3>2
  <2> QED BY <2>1, <2>2, <2>3 DEF ForeignKeysHold, Employed
<1>7. DriverBackedByStop'
  <2> SUFFICES ASSUME NEW o \in Order, order'[o].driver # NULL
               PROVE Backed(o)'
    BY DEF DriverBackedByStop
  <2>1. CASE order'[o].driver = order[o].driver
    <3>1. PICK q \in Plan : HasStop(q, o)
                           /\ routeDriver[q][stop[q][o].route] = order[o].driver
      BY <2>1 DEF IInv, DriverBackedByStop, Backed
    <3>2. q # p
      BY <1>5, <3>1
    <3> QED BY <1>2, <2>1, <3>1, <3>2 DEF Backed, HasStop
  <2>2. CASE o \in S /\ order'[o].driver = f[o]
    <3>1. HasStop(p, o)' /\ stop'[p][o].route = f[o] /\ f[o] \in Driver
      BY <1>3, <2>2
    <3>2. routeDriver'[p][f[o]] = f[o]
      BY <1>3, <2>2, <3>1
    <3> QED BY <2>2, <3>1, <3>2 DEF Backed
  <2> QED BY <1>4, <2>1, <2>2
<1>8. KeepsSnapshots
  <2> SUFFICES ASSUME NEW v \in Worker, At(v, "publish"), req'[v] = req[v]
               PROVE Snapshot(v)'
    BY DEF KeepsSnapshots
  <2>1. Snapshot(v) /\ req[v].orders \subseteq Order /\ req[v].plan \in Plan
    BY DEF IInv, SnapshotSound, TypeOK, Request, Snapshot
  <2>2. req[v].plan # p
    BY <1>1, <2>1 DEF Snapshot
  <2>3. ASSUME NEW o \in req[v].orders
        PROVE order'[o].status # "ABSENT"
    BY <1>4, <2>1 DEF Snapshot
  <2>4. ASSUME NEW o \in req[v].orders, req[v].wants[o] # NULL,
               Live(o)', Employed(req[v].wants[o])
        PROVE /\ HasStop(req[v].plan, o)'
              /\ routeDriver'[req[v].plan][stop'[req[v].plan][o].route]
                   = req[v].wants[o]
    <3>1. Live(o) /\ o \in Order
      BY <1>4, <2>1, <2>4
    <3>2. /\ HasStop(req[v].plan, o)
          /\ routeDriver[req[v].plan][stop[req[v].plan][o].route] = req[v].wants[o]
      BY <2>1, <2>4, <3>1 DEF Snapshot
    <3> QED BY <1>2, <2>1, <2>2, <3>1, <3>2 DEF HasStop
  <2>5. req'[v].plan \in Plan /\ plan'[req'[v].plan].status # "NONE"
    BY <1>2, <2>1, <2>2 DEF Snapshot
  <2>6. ASSUME NEW o \in req[v].orders, req[v].wants[o] # NULL
        PROVE driver'[req[v].wants[o]] # "ABSENT"
    BY <1>1, <2>1, <2>6 DEF Snapshot
  <2>7. \A d : Employed(d)' => Employed(d)
    BY <1>1 DEF Employed
  <2> QED BY <2>3, <2>4, <2>5, <2>6, <2>7 DEF Snapshot, Employed
<1> QED BY <1>6, <1>7, <1>8 DEF Kept

\* No step takes a plan back to NONE, nor a PUBLISHED plan back.
LEMMA PublishedPlans ==
  ASSUME IInv, NEW p \in Plan, NEW dt, plan' = Published(p, dt), NEW q \in Plan
  PROVE /\ plan[q].status # "NONE" => plan'[q].status # "NONE"
        /\ plan[q].status = "PUBLISHED" => plan'[q].status = "PUBLISHED"
        /\ plan'[p].status = "PUBLISHED"
<1>1. \A r \in Plan : plan[r] \in [status : {"NONE", "DRAFT", "PUBLISHED", "CANCELLED"},
                                   date : Nat]
  BY DEF IInv, TypeOK
<1>2. \A r \in Plan : plan'[r] =
        IF r = p THEN [plan[r] EXCEPT !.status = "PUBLISHED"]
        ELSE IF plan[r].date = dt /\ plan[r].status = "DRAFT"
             THEN [plan[r] EXCEPT !.status = "CANCELLED"] ELSE plan[r]
  BY DEF Published
<1>3. plan'[p].status = "PUBLISHED"
  BY <1>1, <1>2
<1>4. CASE q = p
  BY <1>3, <1>4
<1>5. CASE q # p
  BY <1>1, <1>2, <1>3, <1>5
<1> QED BY <1>4, <1>5

\* The confirmed assignments are the routes' drivers, as far as the orders and
\* the drivers still exist.
LEMMA KeptPublish ==
  ASSUME IInv, NEW w \in Worker, PublishPlan(w) PROVE Kept
<1>1. CASE Abort(w)
  BY <1>1, KeptUnchanged DEF Abort
<1>2. CASE ~Abort(w)
  <2> DEFINE p == req[w].plan
  <2>1. /\ Updatable(w) /\ order' = Confirmed(w)
        /\ plan' = Published(p, req[w].date)
        /\ UNCHANGED <<driver, routeDriver, stop>>
        /\ Snapshot(w) /\ p \in Plan /\ req[w].orders \subseteq Order
    BY <1>2 DEF PublishPlan, IInv, SnapshotSound, Snapshot, TypeOK, Request
  <2>2. ASSUME NEW q \in Plan
        PROVE plan[q].status # "NONE" => plan'[q].status # "NONE"
    BY <2>1, PublishedPlans
  <2>3. ASSUME NEW o \in Order
        PROVE /\ Live(o) => Live(o)'
              /\ Live(o)' => Live(o)
              /\ order'[o].status = "ABSENT" => order[o].status = "ABSENT"
              /\ \/ order'[o].driver = order[o].driver
                 \/ /\ o \in req[w].orders /\ Live(o)
                    /\ req[w].loaded[o].driver # req[w].wants[o]
                    /\ order'[o].driver = req[w].wants[o]
    <3>1. order[o] \in OrderRow
      BY DEF IInv, TypeOK
    <3>2. CASE o \notin req[w].orders \/ ~Live(o)
      BY <2>1, <3>2 DEF Confirmed, Live
    <3>3. CASE o \in req[w].orders /\ Live(o)
      <4>1. order'[o] = [order[o] EXCEPT
              !.status = Flushed(req[w].loaded[o].status, "ASSIGNED", @),
              !.driver = Flushed(req[w].loaded[o].driver, req[w].wants[o], @)]
        BY <2>1, <3>3 DEF Confirmed
      <4> QED BY <3>1, <3>3, <4>1 DEF Flushed, Live, OrderRow, OrderStatus
    <3> QED BY <3>2, <3>3
  \* A newly written driver is still employed, and routes a stop of the order.
  <2>4. ASSUME NEW o \in req[w].orders, Live(o), req[w].wants[o] # NULL,
               req[w].loaded[o].driver # req[w].wants[o]
        PROVE /\ Employed(req[w].wants[o])
              /\ HasStop(p, o)
              /\ routeDriver[p][stop[p][o].route] = req[w].wants[o]
    <3>1. Employed(req[w].wants[o])
      BY <2>1, <2>4 DEF Updatable
    <3> QED BY <2>1, <2>4, <3>1 DEF Snapshot
  <2>5. ForeignKeysHold'
    <3>1. ASSUME NEW q \in Plan, NEW o \in Order, HasStop(q, o)'
          PROVE Live(o)' /\ plan'[q].status # "NONE" /\ stop'[q][o].route # NULL
      <4>1. HasStop(q, o)
        BY <2>1, <3>1 DEF HasStop
      <4>2. Live(o) /\ plan[q].status # "NONE" /\ stop[q][o].route # NULL
        BY <4>1 DEF IInv, ForeignKeysHold
      <4> QED BY <2>1, <2>2, <2>3, <4>2
    <3>2. ASSUME NEW o \in Order, order'[o].driver # NULL
          PROVE Live(o)' /\ driver'[order'[o].driver] \in {"ACTIVE", "INACTIVE"}
      <4>1. CASE order'[o].driver = order[o].driver
        BY <2>1, <2>3, <3>2, <4>1 DEF IInv, ForeignKeysHold, Employed
      <4>2. CASE order'[o].driver # order[o].driver
        BY <2>1, <2>3, <2>4, <3>2, <4>2 DEF Employed
      <4> QED BY <4>1, <4>2
    <3>3. ASSUME NEW q \in Plan, NEW d \in Driver, routeDriver'[q][d] # NULL
          PROVE driver'[routeDriver'[q][d]] \in {"ACTIVE", "INACTIVE"}
      BY <2>1, <3>3 DEF IInv, ForeignKeysHold, Employed
    <3> QED BY <3>1, <3>2, <3>3 DEF ForeignKeysHold, Employed
  <2>6. DriverBackedByStop'
    <3> SUFFICES ASSUME NEW o \in Order, order'[o].driver # NULL
                 PROVE Backed(o)'
      BY DEF DriverBackedByStop
    <3>1. CASE order'[o].driver = order[o].driver
      <4>1. PICK q \in Plan : HasStop(q, o)
                             /\ routeDriver[q][stop[q][o].route] = order[o].driver
        BY <3>1 DEF IInv, DriverBackedByStop, Backed
      <4> QED BY <2>1, <3>1, <4>1 DEF Backed, HasStop
    <3>2. CASE order'[o].driver # order[o].driver
      BY <2>1, <2>3, <2>4, <3>2 DEF Backed, HasStop
    <3> QED BY <3>1, <3>2
  <2>7. KeepsSnapshots
    <3> SUFFICES ASSUME NEW v \in Worker, At(v, "publish"), req'[v] = req[v]
                 PROVE Snapshot(v)'
      BY DEF KeepsSnapshots
    <3>1. Snapshot(v) /\ req[v].orders \subseteq Order /\ req[v].plan \in Plan
      BY DEF IInv, SnapshotSound, TypeOK, Request, Snapshot
    <3>2. ASSUME NEW o \in req[v].orders
          PROVE order'[o].status # "ABSENT"
      BY <2>3, <3>1 DEF Snapshot
    <3>3. ASSUME NEW o \in req[v].orders, req[v].wants[o] # NULL,
                 Live(o)', Employed(req[v].wants[o])
          PROVE /\ HasStop(req[v].plan, o)
                /\ routeDriver[req[v].plan][stop[req[v].plan][o].route]
                     = req[v].wants[o]
      BY <2>3, <3>1, <3>3 DEF Snapshot
    <3>4. plan'[req[v].plan].status # "NONE"
      BY <2>2, <3>1 DEF Snapshot
    <3> QED BY ZenonT(60), <2>1, <3>1, <3>2, <3>3, <3>4 DEF Snapshot, Employed, HasStop
  <2> QED BY <2>5, <2>6, <2>7 DEF Kept
<1> QED BY <1>1, <1>2

-----------------------------------------------------------------------------
(* The invariant *)

\* A planner's write, whichever planner made it.
LEMMA WriteSteps ==
  ASSUME IInv, NEW w \in Worker, SolveWrite(w) \/ GreedyWrite(w)
  PROVE /\ \/ Abort(w)
           \/ /\ Become(w, AfterMode(w))
              /\ \E p \in Plan, S \in SUBSET Order : \E f \in [S -> Driver], b \in BOOLEAN :
                   WritePlan(w, p, f, b)
<1>1. req[w].orders \subseteq Order /\ req[w].drivers \subseteq Driver
  BY DEF IInv, TypeOK, Request
<1>2. CASE SolveWrite(w)
  <2>1. PICK f \in Solutions(w) :
          \/ \E p \in Plan : WritePlan(w, p, f, ~DryRun(w)) /\ Become(w, AfterMode(w))
          \/ Abort(w)
    BY <1>2 DEF SolveWrite
  <2>2. PICK S \in SUBSET req[w].orders : f \in [S -> req[w].drivers]
    BY DEF Solutions
  <2>3. S \in SUBSET Order /\ f \in [S -> Driver]
    BY <1>1, <2>2
  <2>4. (~DryRun(w)) \in BOOLEAN
    BY Zenon
  <2> QED BY <2>1, <2>3, <2>4
<1>3. CASE GreedyWrite(w)
  <2>1. PICK f \in [req[w].orders -> req[w].drivers] :
          \/ \E p \in Plan : WritePlan(w, p, f, TRUE) /\ Become(w, AfterMode(w))
          \/ Abort(w)
    BY <1>3 DEF GreedyWrite
  <2>2. req[w].orders \in SUBSET Order /\ f \in [req[w].orders -> Driver]
    BY <1>1
  <2> QED BY <2>1, <2>2
<1> QED BY <1>2, <1>3

LEMMA KeptWorkerStep ==
  ASSUME IInv, NEW w \in Worker, WorkerStep(w) PROVE Kept
<1>1. CASE UNCHANGED tables
  BY <1>1, KeptUnchanged
<1>2. CASE SolveWrite(w) \/ GreedyWrite(w)
  <2>1. CASE Abort(w)
    BY <1>1, <2>1 DEF Abort
  <2>2. CASE \E p \in Plan, S \in SUBSET Order : \E f \in [S -> Driver], b \in BOOLEAN :
               WritePlan(w, p, f, b)
    BY <2>2, KeptWrite
  <2> QED BY <1>2, <2>1, <2>2, WriteSteps
<1>3. CASE RecordHistory(w)
  <2>1. UNCHANGED <<order, driver, plan, routeDriver, stop>>
    BY <1>3 DEF RecordHistory
  <2> QED BY <2>1, KeptDrivers DEF Employed
<1>4. CASE UpdateStopStatus(w)
  <2>1. PICK o \in Order :
          /\ req[w].plan \in Plan /\ req[w].report \in StopReport
          /\ Reported(w, o) \/ Abort(w) \/ UNCHANGED tables
    BY <1>4, ReportSteps DEF IInv
  <2> QED BY <1>1, <2>1, KeptReport DEF Abort
<1> QED BY <1>1, <1>2, <1>3, <1>4, KeptErase, KeptReset, KeptPublish
       DEF WorkerStep, ReadForOrtools, ReadForGreedy, ReadInputs, NoSolution, Reply, Crash

LEMMA KeptStartStep ==
  ASSUME IInv, NEW w \in Worker, StartStep(w) PROVE Kept
<1>1. UNCHANGED tables
  BY DEF StartStep, DeleteOrder, LoadStop, PlanDay, PlanOptions, PlanMultiDay, Replan, LoadPlan
<1> QED BY <1>1, KeptUnchanged

\* Only a confirm that has just read its plan holds a new snapshot.
LEMMA SnapshotTaken ==
  ASSUME IInv, NEW w \in Worker, StartStep(w), req'[w].pc = "publish"
  PROVE Snapshot(w)'
<1>1. \A r : Become(w, r) => req'[w] = r
  BY DEF Become, IInv, TypeOK
<1>2. PICK p \in Plan, dt \in Date : LoadPlan(w, p, dt)
  <2>1. \A o \in Order, p \in Plan, s \in StopInputs : ~LoadStop(w, p, o, s)
    BY ZenonT(60), <1>1 DEF LoadStop, Idle
  <2> QED BY ZenonT(60), <1>1, <2>1
          DEF StartStep, DeleteOrder, PlanDay, PlanOptions, PlanMultiDay, Replan, Idle
<1> DEFINE S == {o \in Order : HasStop(p, o)}
<1>3. /\ req'[w].plan = p /\ req'[w].orders = S
      /\ req'[w].wants = [o \in Order |-> IF o \in S
                                        THEN routeDriver[p][stop[p][o].route] ELSE NULL]
      /\ plan[p].status # "NONE" /\ UNCHANGED tables
  BY ZenonT(60), <1>1, <1>2 DEF LoadPlan, Idle
<1>4. ASSUME NEW o \in S
      PROVE /\ order[o].status # "ABSENT"
            /\ req'[w].wants[o] = routeDriver[p][stop[p][o].route]
            /\ req'[w].wants[o] # NULL => driver[req'[w].wants[o]] # "ABSENT"
            /\ HasStop(p, o)
  <2>1. stop[p][o].route \in Driver /\ Live(o)
    <3>1. stop[p][o] \in StopRow
      BY DEF IInv, TypeOK
    <3> QED BY <3>1 DEF IInv, ForeignKeysHold, StopRow
  <2> QED BY <1>3, <2>1 DEF IInv, ForeignKeysHold, Live, OrderStatus, Employed
<1> QED BY <1>3, <1>4 DEF Snapshot, tables, HasStop

\* A report's commit ends the request.
LEMMA ReportEnds ==
  ASSUME IInv, NEW w \in Worker, UpdateStopStatus(w)
  PROVE Become(w, Idle) \/ Become(w, Failed(w))
BY ReportSteps DEF IInv, Reported, Abort

\* No other step leaves a request about to publish, or with a report loaded.
LEMMA NoOtherSnapshot ==
  ASSUME IInv, NEW w \in Worker, WorkerStep(w)
  PROVE req'[w].pc \notin {"publish", "report"}
<1>1. req[w] \in Request /\ \A r : Become(w, r) => req'[w] = r
  BY DEF Become, IInv, TypeOK
<1>2. Idle.pc = "idle" /\ Failed(w).pc = "failed"
  BY DEF Idle, Failed
<1>3. AfterMode(w).pc \in {"idle", "read"}
  BY <1>1, <1>2 DEF AfterMode, Request
<1>4. CASE ReadForOrtools(w) \/ ReadForGreedy(w) \/ NoSolution(w) \/ ResetOrders(w)
  BY <1>1, <1>3, <1>4
     DEF ReadForOrtools, ReadForGreedy, ReadInputs, NoSolution, ResetOrders, Request
<1>5. CASE SolveWrite(w) \/ GreedyWrite(w)
  BY <1>1, <1>2, <1>3, <1>5, WriteSteps DEF Abort
<1>6. CASE PublishPlan(w)
  BY <1>1, <1>2, <1>6 DEF PublishPlan, Abort, Idle
<1>7. CASE EraseOrder(w) \/ RecordHistory(w) \/ Reply(w) \/ Crash(w)
  BY <1>1, <1>2, <1>7 DEF EraseOrder, RecordHistory, Reply, Crash
<1>8. CASE UpdateStopStatus(w)
  BY <1>1, <1>2, <1>8, ReportEnds
<1> QED BY <1>4, <1>5, <1>6, <1>7, <1>8 DEF WorkerStep

\* What a report loads, and that nothing else starts one.
LEMMA ReportTaken ==
  ASSUME IInv, NEW w \in Worker, StartStep(w) \/ WorkerStep(w), req'[w].pc = "report"
  PROVE \E p \in Plan, o \in Order, s \in StopReport :
          /\ HasStop(p, o) /\ UNCHANGED tables
          /\ req'[w].plan = p /\ req'[w].orders = {o} /\ req'[w].report = s
          /\ req'[w].told = stop[p][o].status
          /\ req'[w].loaded[o].status = order[o].status
<1>1. \A r : Become(w, r) => req'[w] = r
  BY DEF Become, IInv, TypeOK
<1>2. StartStep(w)
  BY NoOtherSnapshot
<1>3. \A dt \in Date, p \in Plan : ~LoadPlan(w, p, dt)
  BY ZenonT(60), <1>1 DEF LoadPlan, Idle
<1>4. PICK o \in Order, p \in Plan, s \in StopInputs : LoadStop(w, p, o, s)
  BY ZenonT(60), <1>1, <1>2, <1>3
     DEF StartStep, DeleteOrder, PlanDay, PlanOptions, PlanMultiDay, Replan, Idle
<1> DEFINE gone == [q \in Order |-> GoneOrder]
           row == [gone[o] EXCEPT !.status = order[o].status]
           loaded == [gone EXCEPT ![o] = row]
<1>5. /\ HasStop(p, o) /\ UNCHANGED tables
      /\ req'[w] = [Idle EXCEPT
           !.pc = "report", !.job = "report", !.plan = p, !.orders = {o},
           !.loaded = loaded, !.told = stop[p][o].status, !.report = s]
  BY <1>1, <1>4 DEF LoadStop, Idle
<1>6. loaded[o].status = order[o].status
  BY DEF GoneOrder
<1>7. s \in StopReport
  BY InputAssumption
<1> HIDE DEF loaded
<1>8. /\ req'[w].plan = p /\ req'[w].orders = {o} /\ req'[w].report = s
      /\ req'[w].told = stop[p][o].status /\ req'[w].loaded = loaded
  BY <1>5 DEF Idle
<1> QED BY <1>5, <1>6, <1>7, <1>8

\* A step of one request leaves the others as they are.
LEMMA OthersWait ==
  ASSUME IInv, NEW w \in Worker, StartStep(w) \/ WorkerStep(w),
         NEW v \in Worker, v # w
  PROVE req'[v] = req[v]
<1>1. \A r : Become(w, r) => req'[v] = req[v]
  BY DEF Become, IInv, TypeOK
<1>2. CASE StartStep(w)
  BY <1>1, <1>2
     DEF StartStep, DeleteOrder, LoadStop, PlanDay, PlanOptions, PlanMultiDay, Replan, LoadPlan
<1>3. CASE WorkerStep(w)
  BY <1>1, <1>3, WriteSteps, ReportEnds
     DEF WorkerStep, EraseOrder, ReadForOrtools, ReadForGreedy, ReadInputs, NoSolution,
         ResetOrders, PublishPlan, RecordHistory, Reply, Crash, Abort
<1> QED BY <1>2, <1>3

\* Plans stay published: planners write new plans, confirm cancels drafts.
LEMMA PlanStays ==
  ASSUME IInv, [Next]_vars, NEW q \in Plan, plan[q].status = "PUBLISHED"
  PROVE plan'[q].status = "PUBLISHED"
<1>1. CASE UNCHANGED plan
  BY <1>1
<1>2. ASSUME NEW w \in Worker, PublishPlan(w) PROVE plan'[q].status = "PUBLISHED"
  <2>1. CASE Abort(w)
    BY <2>1 DEF Abort, tables
  <2>2. CASE ~Abort(w)
    <3>1. plan' = Published(req[w].plan, req[w].date) /\ req[w].plan \in Plan
      BY <1>2, <2>2 DEF PublishPlan, IInv, SnapshotSound, Snapshot
    <3> QED BY <3>1, PublishedPlans
  <2> QED BY <2>1, <2>2
<1>3. ASSUME NEW w \in Worker, SolveWrite(w) \/ GreedyWrite(w)
      PROVE plan'[q].status = "PUBLISHED"
  <2>1. CASE Abort(w)
    BY <2>1 DEF Abort, tables
  <2>2. ASSUME NEW p \in Plan, NEW S \in SUBSET Order, NEW f \in [S -> Driver],
               NEW b \in BOOLEAN, WritePlan(w, p, f, b)
        PROVE plan'[q].status = "PUBLISHED"
    <3>1. p # q
      BY <2>2 DEF WritePlan
    <3> QED BY <2>2, <3>1 DEF WritePlan, WithPlan, IInv, TypeOK
  <2> QED BY <1>3, <2>1, <2>2, WriteSteps
<1>4. ASSUME NEW w \in Worker, UpdateStopStatus(w) PROVE UNCHANGED plan
  BY <1>4, ReportSteps DEF IInv, Reported, Abort, tables
<1> QED BY ZenonT(60), <1>1, <1>2, <1>3, <1>4
       DEF Next, vars, tables, OrderStep, CreateOrder, RescheduleOrder, PatchOrder,
            DriverStep, CreateDriver, SetActive, DeleteDriver,
           UpsertAvailability, StartStep, DeleteOrder, LoadStop, PlanDay, PlanOptions, PlanMultiDay,
           Replan, LoadPlan, WorkerStep, EraseOrder, ReadForOrtools, ReadForGreedy,
           ReadInputs, NoSolution, ResetOrders, RecordHistory, Reply, Crash

\* A request about to write its history row has just published its plan.
LEMMA RecordFollowsPublish ==
  ASSUME IInv, NEW w \in Worker, StartStep(w) \/ WorkerStep(w),
         req'[w].pc = "record"
  PROVE /\ req'[w].plan \in Plan
        /\ plan'[req'[w].plan].status = "PUBLISHED"
<1>1. req[w] \in Request /\ \A r : Become(w, r) => req'[w] = r
  BY DEF Become, IInv, TypeOK
<1>2. Idle.pc = "idle" /\ Failed(w).pc = "failed"
  BY DEF Idle, Failed
<1>3. AfterMode(w).pc \in {"idle", "read"}
  BY <1>1, <1>2 DEF AfterMode, Request
<1>4. ~(StartStep(w) \/ ReadForOrtools(w) \/ ReadForGreedy(w) \/ NoSolution(w)
          \/ ResetOrders(w) \/ EraseOrder(w) \/ RecordHistory(w) \/ UpdateStopStatus(w)
          \/ Reply(w) \/ Crash(w))
  <2>1. ~StartStep(w)
    <3>1. \A o \in Order : ~DeleteOrder(w, o)
      BY <1>1 DEF DeleteOrder, Idle
    <3>2. \A dt \in Date : ~PlanDay(w, dt) /\ ~PlanOptions(w, dt)
      BY ZenonT(60), <1>1 DEF PlanDay, PlanOptions, Idle
    <3>3. \A dt \in Date : \A n \in 1..(Days - dt + 1) : ~PlanMultiDay(w, dt, n)
      BY <1>1 DEF PlanMultiDay, Idle
    <3>4. \A dt \in Date, d \in Driver \cup {NULL} : ~Replan(w, dt, d)
      BY ZenonT(60), <1>1 DEF Replan, Idle
    <3>5. \A dt \in Date, p \in Plan : ~LoadPlan(w, p, dt)
      BY ZenonT(60), <1>1 DEF LoadPlan, Idle
    <3>6. \A o \in Order, p \in Plan, s \in StopInputs : ~LoadStop(w, p, o, s)
      BY ZenonT(60), <1>1 DEF LoadStop, Idle
    <3> QED BY <3>1, <3>2, <3>3, <3>4, <3>5, <3>6 DEF StartStep
  <2>2. ~(ReadForOrtools(w) \/ ReadForGreedy(w) \/ NoSolution(w) \/ ResetOrders(w))
    BY <1>1, <1>3
       DEF ReadForOrtools, ReadForGreedy, ReadInputs, NoSolution, ResetOrders, Request
  <2>3. ~(EraseOrder(w) \/ RecordHistory(w) \/ Reply(w) \/ Crash(w))
    BY <1>1, <1>2 DEF EraseOrder, RecordHistory, Reply, Crash
  <2>4. ~UpdateStopStatus(w)
    BY <1>1, <1>2, ReportEnds
  <2> QED BY <2>1, <2>2, <2>3, <2>4
<1>5. ~(SolveWrite(w) \/ GreedyWrite(w))
  BY <1>1, <1>2, <1>3, WriteSteps DEF Abort
<1>6. PublishPlan(w) /\ ~Abort(w)
  BY <1>1, <1>2, <1>4, <1>5 DEF WorkerStep, Abort
<1>7. /\ plan' = Published(req[w].plan, req[w].date) /\ req[w].plan \in Plan
      /\ req'[w].plan = req[w].plan
  BY <1>1, <1>6 DEF PublishPlan, IInv, SnapshotSound, Snapshot, Idle
<1> QED BY <1>7, PublishedPlans

LEMMA ReportHistory ==
  ASSUME IInv, NEW w \in Worker, UpdateStopStatus(w) PROVE UNCHANGED history
BY ReportSteps DEF IInv, Reported, Abort, tables

LEMMA IInvInit == Init => IInv
<1> SUFFICES ASSUME Init PROVE IInv
  OBVIOUS
<1>1. ForeignKeysHold /\ DriverBackedByStop
  BY DEF Init, ForeignKeysHold, DriverBackedByStop, HasStop, NoStop
<1>2. SnapshotSound /\ PublishedKept /\ RecordedIsPublished /\ ReportsNamed
  BY DEF Init, SnapshotSound, PublishedKept, RecordedIsPublished, ReportsNamed, At, Idle
<1> QED BY <1>1, <1>2, TypeInit DEF IInv

LEMMA IInvNext == ASSUME IInv, [Next]_vars PROVE IInv'
<1>1. TypeOK'
  BY TypeNext
<1>2. Kept
  <2>1. CASE UNCHANGED vars
    BY <2>1, KeptUnchanged DEF vars, tables
  <2>2. CASE Next
    BY <2>2, KeptOrderStep, KeptDriverStep, KeptStartStep, KeptWorkerStep DEF Next
  <2> QED BY <2>1, <2>2
<1>3. \/ UNCHANGED req /\ UNCHANGED history
      \/ \E w \in Worker : StartStep(w) \/ WorkerStep(w)
  BY DEF Next, vars, tables, OrderStep, CreateOrder, RescheduleOrder, PatchOrder,
         DriverStep, CreateDriver, SetActive, DeleteDriver, UpsertAvailability
<1>4. SnapshotSound'
  <2> SUFFICES ASSUME NEW v \in Worker, At(v, "publish")' PROVE Snapshot(v)'
    BY DEF SnapshotSound
  <2>1. CASE req'[v] = req[v]
    BY <1>2, <2>1 DEF Kept, KeepsSnapshots, At
  <2>2. CASE req'[v] # req[v]
    BY <1>3, <2>2, OthersWait, NoOtherSnapshot, SnapshotTaken DEF At
  <2> QED BY <2>1, <2>2
<1>5. PublishedKept'
  <2> SUFFICES ASSUME NEW v \in Worker, At(v, "record")'
               PROVE req'[v].plan \in Plan /\ plan'[req'[v].plan].status = "PUBLISHED"
    BY DEF PublishedKept
  <2>1. CASE req'[v] = req[v]
    BY <2>1, PlanStays DEF At, IInv, PublishedKept
  <2>2. CASE req'[v] # req[v]
    BY <1>3, <2>2, OthersWait, RecordFollowsPublish DEF At
  <2> QED BY <2>1, <2>2
<1>6. RecordedIsPublished'
  <2> SUFFICES ASSUME NEW q \in history' PROVE plan'[q].status = "PUBLISHED"
    BY DEF RecordedIsPublished
  <2>1. history \subseteq Plan
    BY DEF IInv, TypeOK
  <2>2. CASE q \in history
    BY <2>1, <2>2, PlanStays DEF IInv, RecordedIsPublished
  <2>3. CASE q \notin history
    <3>1. PICK w \in Worker : RecordHistory(w)
      BY ZenonT(60), <1>3, <2>3, WriteSteps, ReportHistory
         DEF StartStep, DeleteOrder, LoadStop, PlanDay, PlanOptions, PlanMultiDay, Replan, LoadPlan,
             WorkerStep, EraseOrder, ReadForOrtools, ReadForGreedy, ReadInputs, NoSolution,
             ResetOrders, PublishPlan, WritePlan, Reply, Crash, Abort, tables
    <3>2. q = req[w].plan /\ plan[q].status = "PUBLISHED" /\ q \in Plan
      BY <2>3, <3>1 DEF RecordHistory, IInv, PublishedKept
    <3> QED BY <3>2, PlanStays
  <2> QED BY <2>2, <2>3
<1>7. ReportsNamed'
  <2> SUFFICES ASSUME NEW v \in Worker, At(v, "report")'
               PROVE /\ req'[v].plan \in Plan /\ req'[v].report \in StopReport
                     /\ \E o \in Order : req'[v].orders = {o}
    BY DEF ReportsNamed
  <2>1. CASE req'[v] = req[v]
    BY <2>1 DEF At, IInv, ReportsNamed
  <2>2. CASE req'[v] # req[v]
    BY <1>3, <2>2, OthersWait, ReportTaken DEF At
  <2> QED BY <2>1, <2>2
<1> QED BY <1>1, <1>2, <1>4, <1>5, <1>6, <1>7 DEF IInv, Kept

-----------------------------------------------------------------------------

THEOREM DispatchInvariant == Spec => []IInv
<1>1. IInv /\ [Next]_vars => IInv'
  BY IInvNext
<1> QED BY IInvInit, <1>1, PTL DEF Spec

\* Whatever the requests and however they interleave, the columns hold values
\* of their types.
THEOREM DispatchTyped == Spec => []TypeOK
<1>1. IInv => TypeOK
  BY DEF IInv
<1> QED BY <1>1, DispatchInvariant, PTL

\* Deleting orders and drivers between any reads and writes of planners and
\* confirms never leaves a row that refers to a missing one.
THEOREM DispatchForeignKeys == Spec => []ForeignKeysHold
<1>1. IInv => ForeignKeysHold
  BY DEF IInv
<1> QED BY <1>1, DispatchInvariant, PTL

\* An assigned driver always has a stop for the order on one of their routes,
\* whichever planner, confirm, replan or deletion came last.
THEOREM DispatchBacked == Spec => []DriverBackedByStop
<1>1. IInv => DriverBackedByStop
  BY DEF IInv
<1> QED BY <1>1, DispatchInvariant, PTL

\* A plan the history names is never cancelled by a later or racing confirm.
THEOREM DispatchRecorded == Spec => []RecordedIsPublished
<1>1. IInv => RecordedIsPublished
  BY DEF IInv
<1> QED BY <1>1, DispatchInvariant, PTL

-----------------------------------------------------------------------------
(* Dry runs *)

\* A dry run only ever reads and solves.
LEMMA DryRunsPlanNext ==
  ASSUME IInv, DryRunsPlan, [Next]_vars PROVE DryRunsPlan'
<1> SUFFICES ASSUME NEW v \in Worker, DryRun(v)'
             PROVE req'[v].pc \in {"read", "solve", "failed"}
  BY DEF DryRunsPlan
<1>1. CASE req'[v] = req[v]
  BY <1>1 DEF DryRun, DryRunsPlan
<1>2. CASE req'[v] # req[v]
  <2>1. StartStep(v) \/ WorkerStep(v)
    <3>1. \E w \in Worker : StartStep(w) \/ WorkerStep(w)
      BY <1>2 DEF Next, vars, OrderStep, CreateOrder, RescheduleOrder, PatchOrder,
            DriverStep, CreateDriver, SetActive, DeleteDriver,
           UpsertAvailability
    <3> QED BY <1>2, <3>1, OthersWait
  <2>2. req[v] \in Request /\ \A r : Become(v, r) => req'[v] = r
    BY DEF Become, IInv, TypeOK
  <2>3. /\ Idle.job = "none" /\ Failed(v).pc = "failed"
        /\ AfterMode(v).job = "none" \/ AfterMode(v).pc = "read"
    BY <2>2 DEF Idle, Failed, AfterMode, Request
  <2>4. CASE StartStep(v)
    <3>1. \A o \in Order : ~DeleteOrder(v, o)
      BY <2>2 DEF DeleteOrder, Idle, DryRun
    <3>2. \A dt \in Date, p \in Plan : ~LoadPlan(v, p, dt)
      BY ZenonT(60), <2>2 DEF LoadPlan, Idle, DryRun
    <3>3. \A dt \in Date, d \in Driver \cup {NULL} : ~PlanDay(v, dt) /\ ~Replan(v, dt, d)
      <4>1. ASSUME NEW dt \in Date, PlanDay(v, dt) PROVE FALSE
        <5>1. req'[v].job = "day"
          BY <2>2, <4>1 DEF PlanDay, Idle
        <5> QED BY <5>1 DEF DryRun
      <4>2. ASSUME NEW dt \in Date, NEW d \in Driver \cup {NULL}, Replan(v, dt, d)
            PROVE FALSE
        <5>1. req'[v].job = "replan"
          BY <2>2, <4>2 DEF Replan, Idle
        <5> QED BY <5>1 DEF DryRun
      <4> QED BY <4>1, <4>2
    <3>5. \A o \in Order, p \in Plan, s \in StopInputs : ~LoadStop(v, p, o, s)
      BY ZenonT(60), <2>2 DEF LoadStop, Idle, DryRun
    <3>4. \E dt \in Date : \/ PlanOptions(v, dt)
                          \/ \E n \in 1..(Days - dt + 1) : PlanMultiDay(v, dt, n)
      BY <2>4, <3>1, <3>2, <3>3, <3>5 DEF StartStep
    <3> QED BY ZenonT(60), <2>2, <3>4 DEF PlanOptions, PlanMultiDay, Idle
  <2>5. CASE ReadForOrtools(v) \/ ReadForGreedy(v)
    <3> DEFINE S == PendingOrders(req[v].date)
               D == AvailableDrivers(req[v].date)
    <3>1. CASE req'[v] = AfterMode(v)
      BY <2>3, <3>1 DEF DryRun
    <3>2. CASE \E m \in {"solve", "greedy"} :
                 req'[v] = [req[v] EXCEPT !.pc = m, !.orders = S, !.drivers = D]
      <4>1. DryRun(v) /\ req'[v].pc \in {"solve", "greedy"}
        BY <2>2, <3>2 DEF DryRun, Request
      <4>2. ReadForOrtools(v)
        BY <2>5, <4>1 DEF DryRunsPlan, ReadForGreedy, ReadInputs, At
      <4> QED BY <2>2, <2>3, <4>1, <4>2 DEF ReadForOrtools, ReadInputs, Request, DryRun
    <3> QED BY <2>2, <2>5, <3>1, <3>2 DEF ReadForOrtools, ReadForGreedy, ReadInputs
  <2>6. CASE SolveWrite(v) \/ GreedyWrite(v)
    BY <2>2, <2>3, <2>6, WriteSteps DEF Abort, DryRun
  <2>7. CASE NoSolution(v) \/ ResetOrders(v)
    BY <2>2, <2>3, <2>7 DEF NoSolution, ResetOrders, DryRun, DryRunsPlan, At, Request
  <2>8. CASE EraseOrder(v) \/ RecordHistory(v) \/ Reply(v) \/ Crash(v)
    BY <2>2, <2>3, <2>8 DEF EraseOrder, RecordHistory, Reply, Crash, DryRun
  <2>9. CASE PublishPlan(v)
    BY <2>2, <2>3, <2>9 DEF PublishPlan, Abort, DryRun, Idle
  <2>10. CASE UpdateStopStatus(v)
    BY <2>2, <2>3, <2>10, ReportEnds DEF DryRun
  <2> QED BY <2>1, <2>4, <2>5, <2>6, <2>7, <2>8, <2>9, <2>10 DEF WorkerStep
<1> QED BY <1>1, <1>2

\* plan/options and plan/multi-day never touch an order, with any planner and
\* any other request in between.
THEOREM DispatchDryRun == Spec => DryRunLeavesOrders
<1>1. Init => DryRunsPlan
  BY DEF Init, DryRunsPlan, DryRun, Idle
<1>2. IInv /\ DryRunsPlan /\ [Next]_vars => DryRunsPlan'
  BY DryRunsPlanNext
<1>3. IInv /\ DryRunsPlan /\ [Next]_vars
        => [\A w \in Worker :
              req[w].job \in {"options", "multiday"} /\ req'[w] # req[w]
                => UNCHANGED order]_vars
  <2> SUFFICES ASSUME IInv, DryRunsPlan, [Next]_vars, NEW w \in Worker,
                      req[w].job \in {"options", "multiday"}, req'[w] # req[w]
               PROVE UNCHANGED order
    OBVIOUS
  <2>1. StartStep(w) \/ WorkerStep(w)
    <3>1. \E v \in Worker : StartStep(v) \/ WorkerStep(v)
      BY DEF Next, vars, OrderStep, CreateOrder, RescheduleOrder, PatchOrder,
              DriverStep, CreateDriver, SetActive, DeleteDriver,
             UpsertAvailability
    <3> QED BY <3>1, OthersWait
  <2>2. DryRun(w) /\ req[w].pc \in {"read", "solve", "failed"}
    BY DEF DryRun, DryRunsPlan
  <2>3. CASE SolveWrite(w)
    BY <2>2, <2>3 DEF SolveWrite, WritePlan, Abort, tables
  <2> QED BY <2>1, <2>2, <2>3
         DEF StartStep, DeleteOrder, LoadStop, PlanDay, PlanOptions, PlanMultiDay, Replan, LoadPlan,
             WorkerStep, EraseOrder, ReadForOrtools, ReadForGreedy, ReadInputs, NoSolution,
             ResetOrders, GreedyWrite, PublishPlan, RecordHistory, UpdateStopStatus, Reply,
             Crash, At, tables
<1> QED BY <1>1, <1>2, <1>3, DispatchInvariant, PTL DEF Spec, DryRunLeavesOrders

-----------------------------------------------------------------------------
(* Who sets an order's columns.  A step leaves an order alone or does one of  *)
(* seven things to it.                                                        *)

Final == {"DELIVERED", "FAILED"}

Same(o) == /\ order'[o].status = order[o].status
           /\ order'[o].driver \in {NULL, order[o].driver}
           /\ author'[o] = author[o]

Created(o) == /\ order[o].status = "ABSENT" /\ author'[o] = author[o]
              /\ order'[o].status = "PENDING" /\ order'[o].driver = NULL

Patched(o) == /\ Live(o) /\ author'[o].status = "user"
              /\ order'[o].status \in OrderStatus

Erased(o) == /\ author'[o].status = "none"
             /\ order'[o].status = IF Live(o) THEN "DELETED" ELSE order[o].status

Planned(o) == /\ Live(o) /\ author'[o].status = "planner"
              /\ order'[o].status = "ASSIGNED"

Replanned(o) == /\ author'[o].status = "replan"
                /\ \/ Live(o) /\ order'[o].status = "PENDING" /\ order'[o].driver = NULL
                   \/ ~Live(o) /\ order'[o] = order[o]

ConfirmedBy(w, o) ==
  /\ At(w, "publish") /\ o \in req[w].orders /\ order[o].status # "ABSENT"
  /\ \/ /\ req[w].loaded[o].status = "ASSIGNED"
        /\ order'[o].status = order[o].status
        /\ author'[o].status = author[o].status
        /\ \/ order'[o].driver = order[o].driver /\ author'[o] = author[o]
           \/ author'[o].driver = "confirm"
     \/ /\ author'[o].status = "confirm"
        /\ order'[o].status = IF Live(o) THEN "ASSIGNED" ELSE order[o].status

Told(w, o) == /\ Live(o) /\ author'[o].status = "driver"
              /\ At(w, "report") /\ o \in req[w].orders
              /\ Reported(w, o) /\ TellsOrder(w, o)
              /\ order'[o].status = req[w].report

Fate(o) ==
  \/ Same(o) \/ Created(o) \/ Patched(o) \/ Erased(o) \/ Planned(o) \/ Replanned(o)
  \/ \E w \in Worker : ConfirmedBy(w, o) \/ Told(w, o)

LEMMA FateOfConfirmed ==
  ASSUME IInv, NEW w \in Worker, PublishPlan(w), ~Abort(w), NEW o \in Order
  PROVE Same(o) \/ ConfirmedBy(w, o)
<1>1. /\ At(w, "publish") /\ order' = Confirmed(w) /\ author' = SignedConfirm(w)
      /\ Snapshot(w) /\ order[o] \in OrderRow
      /\ author[o] \in [status : Author, driver : Author]
  BY DEF PublishPlan, IInv, SnapshotSound, TypeOK
<1>2. CASE o \notin req[w].orders
  BY <1>1, <1>2 DEF Confirmed, SignedConfirm, Same
<1>3. CASE o \in req[w].orders
  <2> DEFINE st == Flushed(req[w].loaded[o].status, "ASSIGNED", order[o].status)
             d == Flushed(req[w].loaded[o].driver, req[w].wants[o], order[o].driver)
             dirty == req[w].loaded[o].driver # req[w].wants[o]
             old == req[w].loaded[o].status = "ASSIGNED"
  <2>1. order'[o] = IF Live(o) THEN [order[o] EXCEPT !.status = st, !.driver = d]
                    ELSE order[o]
    BY <1>1, <1>3 DEF Confirmed
  <2>2. /\ author'[o].status = IF old THEN author[o].status ELSE "confirm"
        /\ author'[o].driver = IF dirty THEN "confirm" ELSE author[o].driver
    BY <1>1, <1>3 DEF SignedConfirm
  <2>3. ~dirty /\ old => author'[o] = author[o]
    BY <1>1, <1>3 DEF SignedConfirm
  <2>4. /\ st = IF old THEN order[o].status ELSE "ASSIGNED"
        /\ ~dirty => d = order[o].driver
    BY DEF Flushed
  <2>5. order[o].status # "ABSENT"
    BY <1>1, <1>3 DEF Snapshot
  <2> HIDE DEF st, d, dirty, old
  <2>6. /\ order'[o].status = IF Live(o) THEN st ELSE order[o].status
        /\ order'[o].driver = IF Live(o) THEN d ELSE order[o].driver
    BY <1>1, <2>1 DEF OrderRow
  <2>7. CASE old
    <3>1. /\ order'[o].status = order[o].status /\ author'[o].status = author[o].status
          /\ \/ order'[o].driver = order[o].driver /\ author'[o] = author[o]
             \/ author'[o].driver = "confirm"
      BY <2>2, <2>3, <2>4, <2>6, <2>7
    <3> QED BY <1>1, <1>3, <2>5, <2>7, <3>1 DEF ConfirmedBy, old
  <2>8. CASE ~old
    BY <1>1, <1>3, <2>2, <2>4, <2>5, <2>6, <2>8 DEF ConfirmedBy
  <2> QED BY <2>7, <2>8
<1> QED BY <1>2, <1>3

LEMMA OrderFate == ASSUME IInv, [Next]_vars, NEW o \in Order PROVE Fate(o)
<1>0. /\ order \in [Order -> OrderRow] /\ order[o] \in OrderRow
      /\ author \in Authors /\ author[o] \in [status : Author, driver : Author]
  BY DEF IInv, TypeOK, Authors
<1>1. CASE UNCHANGED tables
  BY <1>1 DEF tables, signed, Fate, Same
<1>2. CASE OrderStep
  <2>1. ASSUME NEW q \in Order, NEW dt \in OrderDates, CreateOrder(q, dt) PROVE Fate(o)
    BY <1>0, <2>1 DEF CreateOrder, signed, Fate, Same, Created
  <2>2. ASSUME NEW q \in Order, NEW dt \in OrderDates, RescheduleOrder(q, dt) PROVE Fate(o)
    <3>1. order'[o] \in {order[o], [order[o] EXCEPT !.date = dt]}
      BY <1>0, <2>2 DEF RescheduleOrder
    <3> QED BY <1>0, <2>2, <3>1 DEF RescheduleOrder, signed, Fate, Same, OrderRow
  <2>3. ASSUME NEW q \in Order, NEW s \in PatchStatuses, PatchOrder(q, s) PROVE Fate(o)
    <3>1. CASE q # o
      BY <1>0, <2>3, <3>1 DEF PatchOrder, Fate, Same
    <3>2. CASE q = o
      <4>1. /\ order'[o] = [order[o] EXCEPT !.status = s]
            /\ author'[o] = [author[o] EXCEPT !.status = "user"] /\ Live(o)
        BY <1>0, <2>3, <3>2 DEF PatchOrder, Authors
      <4> QED BY <1>0, <4>1, InputAssumption DEF OrderRow, Fate, Patched
    <3> QED BY <3>1, <3>2
  <2> QED BY <1>2, <2>1, <2>2, <2>3 DEF OrderStep
<1>3. CASE DriverStep
  <2>1. /\ UNCHANGED author
        /\ UNCHANGED order \/ \E d \in Driver : order' = OrdersWithout(d)
    BY <1>3
       DEF DriverStep, CreateDriver, SetActive, DeleteDriver, UpsertAvailability, signed
  <2>2. order'[o] \in {order[o], [order[o] EXCEPT !.driver = NULL]}
    BY <2>1 DEF OrdersWithout
  <2> QED BY <1>0, <2>1, <2>2 DEF Fate, Same, OrderRow
<1>4. ASSUME NEW w \in Worker, EraseOrder(w) PROVE Fate(o)
  <2>1. CASE o \in req[w].orders
    <3>1. /\ order'[o] = IF Live(o) THEN GoneOrder ELSE order[o]
          /\ author'[o] = [status |-> "none", driver |-> "none"]
      BY <1>4, <2>1 DEF EraseOrder, SignedBy
    <3> QED BY <3>1 DEF Fate, Erased, GoneOrder
  <2>2. CASE o \notin req[w].orders
    BY <1>4, <2>2 DEF EraseOrder, SignedBy, Fate, Same
  <2> QED BY <2>1, <2>2
<1>5. ASSUME NEW w \in Worker, ResetOrders(w) PROVE Fate(o)
  <2>1. CASE o \in req[w].orders
    <3>1. /\ order'[o] = IF Live(o)
                         THEN [order[o] EXCEPT !.status = "PENDING", !.driver = NULL]
                         ELSE order[o]
          /\ author'[o] = [status |-> "replan", driver |-> "replan"]
      BY <1>5, <2>1 DEF ResetOrders, OrdersReset, SignedBy
    <3> QED BY <1>0, <3>1 DEF Fate, Replanned, OrderRow
  <2>2. CASE o \notin req[w].orders
    BY <1>5, <2>2 DEF ResetOrders, OrdersReset, SignedBy, Fate, Same
  <2> QED BY <2>1, <2>2
<1>6. ASSUME NEW w \in Worker, PublishPlan(w) PROVE Fate(o)
  BY <1>1, <1>6, FateOfConfirmed DEF Abort, Fate
<1>7. ASSUME NEW w \in Worker, SolveWrite(w) \/ GreedyWrite(w) PROVE Fate(o)
  <2>1. ASSUME NEW p \in Plan, NEW S \in SUBSET Order, NEW f \in [S -> Driver],
               NEW b \in BOOLEAN, WritePlan(w, p, f, b)
        PROVE Fate(o)
    <3>1. CASE b /\ o \in S
      <4>1. /\ order'[o] = [order[o] EXCEPT !.status = "ASSIGNED", !.driver = f[o]]
            /\ author'[o] = [status |-> "planner", driver |-> "planner"] /\ Live(o)
        BY <2>1, <3>1 DEF WritePlan, Assigned, SignedBy, Insertable
      <4> QED BY <1>0, <4>1 DEF Fate, Planned, OrderRow
    <3>2. CASE ~(b /\ o \in S)
      BY <2>1, <3>2 DEF WritePlan, Assigned, SignedBy, Fate, Same
    <3> QED BY <3>1, <3>2
  <2> QED BY <1>1, <1>7, <2>1, WriteSteps DEF Abort
<1>8. ASSUME NEW w \in Worker, UpdateStopStatus(w) PROVE Fate(o)
  <2>1. PICK q \in Order :
          /\ req[w].plan \in Plan /\ req[w].orders = {q}
          /\ Reported(w, q) \/ UNCHANGED tables
    BY <1>8, ReportSteps DEF IInv, Abort
  <2>2. CASE Reported(w, q)
    <3>1. CASE q = o /\ TellsOrder(w, o)
      <4>1. /\ order'[o] = [order[o] EXCEPT !.status = req[w].report]
            /\ author'[o] = [author[o] EXCEPT !.status = "driver"]
        BY <1>0, <2>2, <3>1 DEF Reported, OrderAfterReport, Authors
      <4>3. Live(o) /\ At(w, "report")
        BY <1>8, <2>1, <2>2, <3>1 DEF Reported, UpdateStopStatus, IInv, ForeignKeysHold
      <4>2. order'[o].status = req[w].report /\ author'[o].status = "driver"
        BY <1>0, <4>1 DEF OrderRow
      <4> QED BY <2>1, <2>2, <3>1, <4>2, <4>3 DEF Fate, Told
    <3>2. CASE ~(q = o /\ TellsOrder(w, o))
      BY <1>0, <2>2, <3>2 DEF Reported, OrderAfterReport, Fate, Same, Authors
    <3> QED BY <3>1, <3>2
  <2> QED BY <1>1, <2>1, <2>2
<1>9. ASSUME NEW w \in Worker, StartStep(w) \/ WorkerStep(w),
             ~EraseOrder(w), ~ResetOrders(w), ~PublishPlan(w), ~SolveWrite(w),
             ~GreedyWrite(w), ~UpdateStopStatus(w)
      PROVE Fate(o)
  <2>1. CASE RecordHistory(w)
    BY <2>1 DEF RecordHistory, signed, Fate, Same
  <2>2. CASE ~RecordHistory(w)
    BY <1>1, <1>9, <2>2
       DEF StartStep, DeleteOrder, LoadStop, PlanDay, PlanOptions, PlanMultiDay, Replan,
           LoadPlan, WorkerStep, ReadForOrtools, ReadForGreedy, ReadInputs, NoSolution,
           Reply, Crash
  <2> QED BY <2>1, <2>2
<1> QED BY <1>1, <1>2, <1>3, <1>4, <1>5, <1>6, <1>7, <1>8, <1>9 DEF Next, vars

-----------------------------------------------------------------------------
(* The pool *)

\* An order is PENDING as it was created, or as a user or a replan made it; and
\* an order that a confirm has loaded as ASSIGNED has been written before.
PoolInv ==
  /\ PendingIsPlannable
  /\ \A o \in Order :
       /\ order[o].status \in {"PENDING", "ABSENT"}
            => author[o].status \in {"none", "user", "replan"}
       /\ Live(o) /\ author[o].status = "none" => order[o].status = "PENDING"
  /\ \A w \in Worker : At(w, "publish") =>
       \A o \in req[w].orders :
         Live(o) /\ req[w].loaded[o].status = "ASSIGNED" => author[o].status # "none"

\* What a confirm loads: the orders as they are.
LEMMA LoadedOrders ==
  ASSUME IInv, NEW w \in Worker, StartStep(w) \/ WorkerStep(w), req'[w].pc = "publish"
  PROVE /\ UNCHANGED tables
        /\ \A o \in req'[w].orders : o \in Order /\ req'[w].loaded[o] = order[o]
<1>1. \A r : Become(w, r) => req'[w] = r
  BY DEF Become, IInv, TypeOK
<1>2. StartStep(w)
  BY NoOtherSnapshot
<1>3. \A o \in Order, p \in Plan, s \in StopInputs : ~LoadStop(w, p, o, s)
  BY ZenonT(60), <1>1 DEF LoadStop, Idle
<1>4. PICK p \in Plan, dt \in Date : LoadPlan(w, p, dt)
  BY ZenonT(60), <1>1, <1>2, <1>3
     DEF StartStep, DeleteOrder, PlanDay, PlanOptions, PlanMultiDay, Replan, Idle
<1> DEFINE S == {o \in Order : HasStop(p, o)}
<1>5. /\ req'[w].orders = S /\ UNCHANGED tables
      /\ req'[w].loaded = [o \in Order |-> IF o \in S THEN order[o] ELSE GoneOrder]
  BY ZenonT(60), <1>1, <1>4 DEF LoadPlan, Idle
<1> QED BY <1>5

LEMMA PoolNext == ASSUME IInv, IInv', PoolInv, [Next]_vars PROVE PoolInv'
<1>1. ASSUME NEW o \in Order
      PROVE /\ order'[o].status = "PENDING" /\ order'[o].driver # NULL
                 => \/ author'[o].status = "user"
                    \/ author'[o] = [status |-> "replan", driver |-> "confirm"]
            /\ order'[o].status \in {"PENDING", "ABSENT"}
                 => author'[o].status \in {"none", "user", "replan"}
            /\ Live(o)' /\ author'[o].status = "none" => order'[o].status = "PENDING"
            /\ Live(o)' /\ author'[o].status = "none"
                 => \/ Live(o) /\ author[o].status = "none"
                    \/ order[o].status = "ABSENT"
  <2>1. /\ order[o].status = "PENDING" /\ order[o].driver # NULL
             => \/ author[o].status = "user"
                \/ author[o] = [status |-> "replan", driver |-> "confirm"]
        /\ order[o].status \in {"PENDING", "ABSENT"}
             => author[o].status \in {"none", "user", "replan"}
        /\ Live(o) /\ author[o].status = "none" => order[o].status = "PENDING"
    BY DEF PoolInv, PendingIsPlannable
  <2>2. author'[o] \in [status : Author, driver : Author]
    BY DEF IInv, TypeOK
  <2>3. CASE Same(o) \/ Created(o)
    BY <2>1, <2>3 DEF Same, Created, Live
  <2>4. CASE Patched(o) \/ Erased(o) \/ Planned(o)
    BY <2>1, <2>4 DEF Patched, Erased, Planned, Live, OrderStatus
  <2>5. CASE Replanned(o)
    BY <2>1, <2>5 DEF Replanned, Live, OrderStatus
  <2>6. ASSUME NEW w \in Worker, Told(w, o)
        PROVE author'[o].status = "driver" /\ order'[o].status \in Final
    BY <2>6 DEF Told, TellsOrder, Final
  <2>7. ASSUME NEW w \in Worker, ConfirmedBy(w, o), req[w].loaded[o].status = "ASSIGNED",
               order'[o].status = order[o].status, author'[o].status = author[o].status
        PROVE Live(o) => author[o].status # "none"
    BY <2>7 DEF ConfirmedBy, PoolInv
  <2>8. ASSUME NEW w \in Worker, ConfirmedBy(w, o)
        PROVE \/ /\ author'[o].status = "confirm"
                 /\ order'[o].status \notin {"PENDING", "ABSENT"}
              \/ /\ order'[o].status = order[o].status
                 /\ author'[o].status = author[o].status
                 /\ Live(o) => author[o].status # "none"
                 /\ \/ order'[o].driver = order[o].driver /\ author'[o] = author[o]
                    \/ author'[o].driver = "confirm"
    BY <2>7, <2>8 DEF ConfirmedBy, Live, OrderStatus
  <2>9. ASSUME order'[o].status = order[o].status, author'[o].status = author[o].status,
               author'[o].driver = "confirm", Live(o) => author[o].status # "none",
               order'[o].status = "PENDING"
        PROVE \/ author'[o].status = "user"
              \/ author'[o] = [status |-> "replan", driver |-> "confirm"]
    <3>1. author'[o].status \in {"user", "replan"}
      BY <2>1, <2>9 DEF Live, OrderStatus
    <3> QED BY <2>2, <2>9, <3>1
  <2>10. ASSUME NEW w \in Worker, ConfirmedBy(w, o)
         PROVE /\ order'[o].status = "PENDING" /\ order'[o].driver # NULL
                    => \/ author'[o].status = "user"
                       \/ author'[o] = [status |-> "replan", driver |-> "confirm"]
               /\ order'[o].status \in {"PENDING", "ABSENT"}
                    => author'[o].status \in {"none", "user", "replan"}
               /\ ~(Live(o)' /\ author'[o].status = "none")
    BY <2>1, <2>8, <2>9, <2>10 DEF Live
  <2> QED BY <2>3, <2>4, <2>5, <2>6, <2>10, OrderFate DEF Fate, Final
<1>2. ASSUME NEW w \in Worker, At(w, "publish")', NEW o \in req'[w].orders,
             Live(o)', req'[w].loaded[o].status = "ASSIGNED"
      PROVE author'[o].status # "none"
  <2>1. o \in Order
    BY <1>2 DEF IInv, TypeOK, Request
  <2>2. CASE req'[w] = req[w]
    <3>1. At(w, "publish") /\ o \in req[w].orders /\ order[o].status # "ABSENT"
      BY <1>2, <2>2 DEF At, IInv, SnapshotSound, Snapshot
    <3> QED BY <1>1, <1>2, <2>1, <2>2, <3>1 DEF PoolInv
  <2>3. CASE req'[w] # req[w]
    <3>1. StartStep(w) \/ WorkerStep(w)
      <4>1. \E v \in Worker : StartStep(v) \/ WorkerStep(v)
        BY <2>3 DEF Next, vars, OrderStep, CreateOrder, RescheduleOrder, PatchOrder,
               DriverStep, CreateDriver, SetActive, DeleteDriver, UpsertAvailability
      <4> QED BY <2>3, <4>1, OthersWait
    <3>2. UNCHANGED tables /\ req'[w].loaded[o] = order[o]
      BY <1>2, <3>1, LoadedOrders DEF At
    <3>3. order'[o].status = "ASSIGNED"
      BY <1>2, <3>2 DEF tables
    <3> QED BY <1>1, <1>2, <2>1, <3>3
  <2> QED BY <2>2, <2>3
<1> QED BY <1>1, <1>2 DEF PoolInv, PendingIsPlannable

\* Whatever users, drivers, planners, replans, confirms and deletions do and however
\* they interleave, a PENDING order is hidden from the planners only because a user
\* PATCHed it back, or because a replan reset it under a confirm that sent its driver.
THEOREM DispatchPool == Spec => []PendingIsPlannable
<1>1. Init => PoolInv
  BY DEF Init, PoolInv, PendingIsPlannable, Live, OrderStatus, At, Idle
<1>2. IInv /\ IInv' /\ PoolInv /\ [Next]_vars => PoolInv'
  BY PoolNext
<1>3. PoolInv => PendingIsPlannable
  BY DEF PoolInv
<1> QED BY <1>1, <1>2, <1>3, DispatchInvariant, PTL DEF Spec

-----------------------------------------------------------------------------
(* Reports *)

\* A stop says s, or it said so until a later report changed it.
Says(p, o, s) ==
  \/ stop[p][o].status = s
  \/ <<p, o>> \in retold /\ stop[p][o].status \in StopReport

\* A request that need not send the stop's status, as it had loaded the one
\* reported, may rely on it.
ToldSound ==
  \A w \in Worker : At(w, "report") /\ req[w].told = req[w].report =>
    \A o \in req[w].orders :
      Says(req[w].plan, o, req[w].report) \/ order[o].status = "DELETED"

StopFate(p, o) ==
  /\ retold \subseteq retold'
  /\ \/ stop'[p][o].status = stop[p][o].status
     \/ Live(o) => order'[o].status = "DELETED"
     \/ ~HasStop(p, o)
     \/ /\ stop'[p][o].status \in StopReport
        /\ stop[p][o].status = "PENDING" \/ <<p, o>> \in retold'

\* Stops change by the commits of planners, of deletions and of reports.
LEMMA StopsFate ==
  ASSUME IInv, [Next]_vars, NEW p \in Plan, NEW o \in Order PROVE StopFate(p, o)
<1>0. stop \in [Plan -> [Order -> StopRow]]
  BY DEF IInv, TypeOK
<1>1. CASE UNCHANGED stop /\ UNCHANGED retold
  BY <1>1 DEF StopFate
<1>2. CASE OrderStep \/ DriverStep
  BY <1>1, <1>2
     DEF OrderStep, CreateOrder, RescheduleOrder, PatchOrder, DriverStep, CreateDriver,
         SetActive, DeleteDriver, UpsertAvailability, signed
<1>3. ASSUME NEW w \in Worker, EraseOrder(w) PROVE StopFate(p, o)
  <2>1. /\ UNCHANGED retold
        /\ stop'[p][o] = stop[p][o] \/ (Live(o) => order'[o] = GoneOrder)
    BY <1>3 DEF EraseOrder, StopsWithout
  <2> QED BY <2>1 DEF StopFate, GoneOrder
<1>4. ASSUME NEW w \in Worker, SolveWrite(w) \/ GreedyWrite(w) PROVE StopFate(p, o)
  <2>1. ASSUME NEW q \in Plan, NEW S \in SUBSET Order, NEW f \in [S -> Driver],
               NEW b \in BOOLEAN, WritePlan(w, q, f, b)
        PROVE StopFate(p, o)
    <3>1. UNCHANGED retold /\ (p # q => stop'[p] = stop[p])
      BY <1>0, <2>1 DEF WritePlan, WithStops
    <3>2. p = q => ~HasStop(p, o)
      BY <2>1 DEF WritePlan, IInv, ForeignKeysHold
    <3> QED BY <3>1, <3>2 DEF StopFate
  <2> QED BY <1>1, <1>4, <2>1, WriteSteps DEF Abort, tables, signed
<1>5. ASSUME NEW w \in Worker, UpdateStopStatus(w) PROVE StopFate(p, o)
  <2>1. PICK q \in Order :
          /\ req[w].plan \in Plan /\ req[w].report \in StopReport
          /\ Reported(w, q) \/ UNCHANGED tables
    BY <1>5, ReportSteps DEF IInv, Abort
  <2>2. CASE Reported(w, q)
    <3>1. retold \subseteq retold'
      BY <2>2 DEF Reported
    <3>2. CASE p = req[w].plan /\ o = q /\ TellsStop(w)
      <4>1. stop'[p][o].status = req[w].report
        BY <2>1, <2>2, <3>2, StopsAfterReport DEF IInv, Reported
      <4>2. stop[p][o].status = "PENDING" \/ <<p, o>> \in retold'
        BY <2>2, <3>2 DEF Reported
      <4> QED BY <2>1, <3>1, <4>1, <4>2 DEF StopFate
    <3>3. CASE ~(p = req[w].plan /\ o = q /\ TellsStop(w))
      <4>1. stop'[p][o].status = stop[p][o].status
        BY <2>1, <2>2, <3>3, StopsAfterReport DEF IInv, Reported
      <4> QED BY <3>1, <4>1 DEF StopFate
    <3> QED BY <3>2, <3>3
  <2> QED BY <1>1, <2>1, <2>2 DEF tables, signed
<1>6. ASSUME NEW w \in Worker, StartStep(w) \/ WorkerStep(w),
             ~EraseOrder(w), ~SolveWrite(w), ~GreedyWrite(w), ~UpdateStopStatus(w)
      PROVE StopFate(p, o)
  BY <1>1, <1>6
     DEF StartStep, DeleteOrder, LoadStop, PlanDay, PlanOptions, PlanMultiDay, Replan,
         LoadPlan, WorkerStep, ReadForOrtools, ReadForGreedy, ReadInputs, NoSolution,
         ResetOrders, PublishPlan, RecordHistory, Reply, Crash, Abort, tables, signed
<1> QED BY <1>1, <1>2, <1>3, <1>4, <1>5, <1>6 DEF Next, vars, tables, signed

\* What a stop once said is never lost, unless the order is deleted.
LEMMA SaysStays ==
  ASSUME IInv, [Next]_vars, NEW p \in Plan, NEW o \in Order, NEW s \in StopReport,
         Says(p, o, s)
  PROVE Says(p, o, s)' \/ order'[o].status = "DELETED"
<1>1. StopFate(p, o)
  BY StopsFate
<1>2. HasStop(p, o) /\ stop[p][o].status # "PENDING"
  BY DEF Says, HasStop, StopReport
<1>3. Live(o)
  BY <1>2 DEF IInv, ForeignKeysHold
<1> QED BY <1>1, <1>2, <1>3 DEF StopFate, Says

LEMMA DeletedStays ==
  ASSUME IInv, [Next]_vars, NEW o \in Order, order[o].status = "DELETED"
  PROVE order'[o].status = "DELETED"
BY OrderFate
   DEF Fate, Same, Created, Patched, Erased, Planned, Replanned, ConfirmedBy, Told, Live,
       OrderStatus

LEMMA ToldNext == ASSUME IInv, ToldSound, [Next]_vars PROVE ToldSound'
<1> SUFFICES ASSUME NEW w \in Worker, At(w, "report")', req'[w].told = req'[w].report,
                    NEW o \in req'[w].orders
             PROVE Says(req[w].plan, o, req[w].report)' \/ order'[o].status = "DELETED"
  BY DEF ToldSound
<1>1. CASE req'[w] = req[w]
  <2>1. /\ At(w, "report") /\ o \in Order /\ req[w].plan \in Plan
        /\ req[w].report \in StopReport
        /\ Says(req[w].plan, o, req[w].report) \/ order[o].status = "DELETED"
    BY <1>1 DEF At, ToldSound, IInv, ReportsNamed, TypeOK, Request
  <2>2. Says(req[w].plan, o, req[w].report)' \/ order'[o].status = "DELETED"
    BY <1>1, <2>1, SaysStays, DeletedStays DEF Says
  <2> QED BY <2>2
<1>2. CASE req'[w] # req[w]
  <2>1. StartStep(w) \/ WorkerStep(w)
    <3>1. \E v \in Worker : StartStep(v) \/ WorkerStep(v)
      BY <1>2 DEF Next, vars, OrderStep, CreateOrder, RescheduleOrder, PatchOrder,
             DriverStep, CreateDriver, SetActive, DeleteDriver, UpsertAvailability
    <3> QED BY <1>2, <3>1, OthersWait
  <2>2. stop'[req'[w].plan][o].status = req'[w].report
    BY <2>1, ReportTaken DEF At, tables
  <2> QED BY <2>2 DEF Says
<1> QED BY <1>1, <1>2

LEMMA ReportedNext ==
  ASSUME IInv, ToldSound, ReportedOutcome, [Next]_vars PROVE ReportedOutcome'
<1> SUFFICES ASSUME NEW o \in Order, order'[o].status \in Final
             PROVE \/ author'[o].status = "user"
                   \/ author'[o].status = "driver" /\ \E p \in Plan : Tells(p, o)'
  BY DEF ReportedOutcome, Final
<1>1. Final \subseteq StopReport /\ Final \subseteq OrderStatus
  BY DEF Final, StopReport, OrderStatus
\* The outcome stands.
<1>2. ASSUME order'[o].status = order[o].status, author'[o].status = author[o].status
      PROVE \/ author'[o].status = "user"
            \/ author'[o].status = "driver" /\ \E p \in Plan : Tells(p, o)'
  <2>1. CASE author[o].status = "user"
    BY <1>2, <2>1
  <2>2. CASE author[o].status = "driver" /\ \E p \in Plan : Tells(p, o)
    <3>1. PICK p \in Plan : Says(p, o, order[o].status)
      BY <2>2 DEF Tells, Says
    <3>2. Says(p, o, order[o].status)'
      BY <1>1, <1>2, <3>1, SaysStays DEF Final
    <3>3. Tells(p, o)'
      BY <1>2, <3>2 DEF Tells, Says
    <3> QED BY <1>2, <2>2, <3>3
  <2> QED BY <1>2, <2>1, <2>2 DEF ReportedOutcome, Final
\* A report makes it.
<1>3. ASSUME NEW w \in Worker, Told(w, o)
      PROVE author'[o].status = "driver" /\ \E p \in Plan : Tells(p, o)'
  <2>1. PICK p \in Plan, s \in StopReport :
          p = req[w].plan /\ s = req[w].report /\ order'[o].status = s
    BY <1>3 DEF Told, IInv, ReportsNamed
  <2>2. CASE TellsStop(w)
    <3>1. stop'[p][o].status = s
      BY <1>3, <2>1, <2>2, StopsAfterReport DEF Told, Reported, IInv
    <3> QED BY <1>3, <2>1, <3>1 DEF Told, Tells
  <2>3. CASE ~TellsStop(w)
    <3>1. Says(p, o, s)
      BY <1>3, <2>1, <2>3 DEF Told, TellsStop, ToldSound, Live, OrderStatus
    <3>2. Says(p, o, s)'
      BY <2>1, <3>1, SaysStays DEF StopReport
    <3> QED BY <1>3, <2>1, <3>2 DEF Told, Tells, Says
  <2> QED BY <2>2, <2>3
<1>4. CASE Same(o)
  BY <1>2, <1>4 DEF Same
<1>5. ASSUME NEW w \in Worker, ConfirmedBy(w, o)
      PROVE order'[o].status = order[o].status /\ author'[o].status = author[o].status
  BY <1>1, <1>5 DEF ConfirmedBy, Live, Final
<1>6. ~(Created(o) \/ Planned(o) \/ Erased(o) \/ Replanned(o))
  BY <1>1 DEF Created, Planned, Erased, Replanned, Live, Final
<1>7. CASE Patched(o)
  BY <1>7 DEF Patched
<1> QED BY <1>2, <1>3, <1>4, <1>5, <1>6, <1>7, OrderFate DEF Fate

\* Whatever users write and drivers report, an order is DELIVERED or FAILED because a
\* user said so, or because a driver did on a stop that still says it, or says what a
\* later report made of it, through planners, replans, confirms and deletions.
THEOREM DispatchReported == Spec => []ReportedOutcome
<1>1. Init => ToldSound /\ ReportedOutcome
  BY DEF Init, ToldSound, ReportedOutcome, At, Idle
<1>2. IInv /\ ToldSound /\ [Next]_vars => ToldSound'
  BY ToldNext
<1>3. IInv /\ ToldSound /\ ReportedOutcome /\ [Next]_vars => ReportedOutcome'
  BY ReportedNext
<1> QED BY <1>1, <1>2, <1>3, DispatchInvariant, PTL DEF Spec

-----------------------------------------------------------------------------
(* What overlapping planning requests cost.  double_stop shows that an order  *)
(* may be on several plans; the number of workers bounds how many.           *)

Stops(o) == {p \in Plan : HasStop(p, o)}

\* No request plans several times or returns planned orders to the pool.
PlannedOnce ==
  Jobs \cap {"options", "multiday", "replan"} = {} /\ "PENDING" \notin PatchStatuses

\* An order is on no more plans than there are workers.
StopsBounded ==
  \A o \in Order : IsFiniteSet(Stops(o)) /\ Cardinality(Stops(o)) <= Cardinality(Worker)

\* The requests that have read the order and may still write a stop for it.
Holders(o) == {w \in Worker : req[w].pc \in {"solve", "greedy"} /\ o \in req[w].orders}

OneDay(w) ==
  /\ req[w].pc # "reset"
  /\ req[w].pc \in {"read", "solve", "pick", "greedy"} => req[w].left = 0 /\ ~DryRun(w)

PendingUnplanned(o) == order[o].status = "PENDING" => Stops(o) = {}

\* A request holds an order only if no plan had it yet: what is planned and what
\* may still be planned together stay within the workers.
Within(o) ==
  /\ IsFiniteSet(Stops(o))
  /\ Cardinality(Stops(o)) + Cardinality(Holders(o)) <= Cardinality(Worker)

StopInv ==
  /\ \A w \in Worker : OneDay(w)
  /\ \A o \in Order : PendingUnplanned(o) /\ Within(o)

LEMMA HolderSets ==
  ASSUME IsFiniteSet(Worker), NEW o
  PROVE /\ IsFiniteSet(Holders(o)) /\ Cardinality(Holders(o)) \in Nat
        /\ Cardinality(Worker) \in Nat /\ Cardinality(Holders(o)) <= Cardinality(Worker)
<1>1. Holders(o) \subseteq Worker
  BY DEF Holders
<1> QED BY <1>1, FS_Subset, FS_CardinalityType

\* An order without a stop is within the bound, whoever holds it.
LEMMA UnplannedWithin ==
  ASSUME IsFiniteSet(Worker), NEW o, Stops(o) = {} PROVE Within(o)
<1>1. IsFiniteSet(Stops(o)) /\ Cardinality(Stops(o)) = 0
  BY FS_EmptySet
<1> QED BY <1>1, HolderSets DEF Within

\* No new stop and no new holder.
LEMMA QuietWithin ==
  ASSUME IsFiniteSet(Worker), NEW o, Within(o),
         Stops(o)' \subseteq Stops(o), Holders(o)' \subseteq Holders(o)
  PROVE Within(o)'
<1>1. IsFiniteSet(Holders(o)) /\ Cardinality(Holders(o)) \in Nat /\ Cardinality(Worker) \in Nat
  BY HolderSets
<1>2. Cardinality(Holders(o)') \in Nat /\ Cardinality(Holders(o)') <= Cardinality(Holders(o))
  BY <1>1, FS_Subset, FS_CardinalityType
<1>3. /\ IsFiniteSet(Stops(o)') /\ Cardinality(Stops(o)') \in Nat
      /\ Cardinality(Stops(o)) \in Nat /\ Cardinality(Stops(o)') <= Cardinality(Stops(o))
  BY FS_Subset, FS_CardinalityType DEF Within
<1> QED BY <1>1, <1>2, <1>3 DEF Within

\* The stop a request writes uses up its hold.
LEMMA WriteWithin ==
  ASSUME IsFiniteSet(Worker), NEW o, Within(o), NEW p, Stops(o)' \subseteq Stops(o) \cup {p},
         NEW w \in Holders(o), Holders(o)' \subseteq Holders(o) \ {w}
  PROVE Within(o)'
<1>1. IsFiniteSet(Holders(o)) /\ Cardinality(Holders(o)) \in Nat /\ Cardinality(Worker) \in Nat
  BY HolderSets
<1>2. IsFiniteSet(Holders(o) \ {w}) /\ Cardinality(Holders(o) \ {w}) = Cardinality(Holders(o)) - 1
  BY <1>1, FS_RemoveElement
<1>3. /\ Cardinality(Holders(o)') \in Nat
      /\ Cardinality(Holders(o)') <= Cardinality(Holders(o) \ {w})
  BY <1>2, FS_Subset, FS_CardinalityType
<1>4. IsFiniteSet(Stops(o)) /\ Cardinality(Stops(o)) \in Nat
  BY FS_CardinalityType DEF Within
<1>5. /\ IsFiniteSet(Stops(o) \cup {p}) /\ Cardinality(Stops(o) \cup {p}) \in Nat
      /\ Cardinality(Stops(o) \cup {p}) <= Cardinality(Stops(o)) + 1
  <2>1. CASE p \in Stops(o)
    <3> DEFINE S == Stops(o) \cup {p}
    <3>1. S = Stops(o)
      BY <2>1
    <3>2. IsFiniteSet(S) /\ Cardinality(S) = Cardinality(Stops(o))
      BY <1>4, <3>1
    <3> HIDE DEF S
    <3>3. Cardinality(S) <= Cardinality(Stops(o)) + 1
      BY <1>4, <3>2
    <3> QED BY <1>4, <3>2, <3>3 DEF S
  <2>2. CASE p \notin Stops(o)
    BY <1>4, <2>2, FS_AddElement
  <2> QED BY <2>1, <2>2
<1>6. /\ IsFiniteSet(Stops(o)') /\ Cardinality(Stops(o)') \in Nat
      /\ Cardinality(Stops(o)') <= Cardinality(Stops(o) \cup {p})
  BY <1>5, FS_Subset, FS_CardinalityType
<1> QED BY <1>1, <1>2, <1>3, <1>4, <1>5, <1>6 DEF Within

LEMMA OneDayNext ==
  ASSUME PlannedOnce, IInv, \A w \in Worker : OneDay(w), [Next]_vars, NEW v \in Worker
  PROVE OneDay(v)'
<1>1. CASE req'[v] = req[v]
  BY <1>1 DEF OneDay, DryRun
<1>2. ASSUME req'[v] # req[v] PROVE OneDay(v)'
  <2>0. req[v] \in Request /\ \A r : Become(v, r) => req'[v] = r
    BY DEF Become, IInv, TypeOK
  <2>1. StartStep(v) \/ WorkerStep(v)
    <3>1. \E w \in Worker : StartStep(w) \/ WorkerStep(w)
      BY <1>2 DEF Next, vars, OrderStep, CreateOrder, RescheduleOrder, PatchOrder,
              DriverStep, CreateDriver, SetActive, DeleteDriver,
             UpsertAvailability
    <3> QED BY <1>2, <3>1, OthersWait
  <2>2. CASE req'[v].pc \notin {"reset", "read", "solve", "pick", "greedy"}
    BY <2>2 DEF OneDay
  <2>3. CASE req'[v].left = 0 /\ req'[v].job \notin {"options", "multiday"}
             /\ req'[v].pc # "reset"
    BY <2>3 DEF OneDay, DryRun
  <2>4. Idle.pc = "idle" /\ Failed(v).pc = "failed"
    BY DEF Idle, Failed
  <2>5. CASE StartStep(v)
    <3>1. ASSUME NEW o \in Order, DeleteOrder(v, o) PROVE req'[v].pc = "erase"
      BY <2>0, <3>1 DEF DeleteOrder, Idle
    <3>2. ASSUME NEW dt \in Date, PlanDay(v, dt)
          PROVE req'[v].left = 0 /\ req'[v].job = "day" /\ req'[v].pc \in {"read", "pick"}
      BY <2>0, <3>2 DEF PlanDay, Idle
    <3>3. \A dt, n, d : ~PlanOptions(v, dt) /\ ~PlanMultiDay(v, dt, n) /\ ~Replan(v, dt, d)
      BY Zenon DEF PlannedOnce, PlanOptions, PlanMultiDay, Replan
    <3>4. ASSUME NEW dt \in Date, NEW p \in Plan, LoadPlan(v, p, dt)
          PROVE req'[v].pc = "publish"
      BY <2>0, <3>4 DEF LoadPlan, Idle
    <3>5. ASSUME NEW o \in Order, NEW p \in Plan, NEW s \in StopInputs, LoadStop(v, p, o, s)
          PROVE req'[v].pc = "report"
      BY <2>0, <3>5 DEF LoadStop, Idle
    <3> QED BY <2>2, <2>3, <2>5, <3>1, <3>2, <3>3, <3>4, <3>5 DEF StartStep
  <2>6. CASE WorkerStep(v)
    <3>1. req[v].pc \in {"read", "solve", "pick", "greedy"} => AfterMode(v) = Idle
      BY DEF OneDay, AfterMode
    <3>2. ~ResetOrders(v)
      BY DEF OneDay, ResetOrders, At
    <3>3. CASE ReadForOrtools(v) \/ ReadForGreedy(v) \/ NoSolution(v)
      <4>1. \/ req'[v] = Idle
            \/ \E l \in {"solve", "greedy"} : \E S, D :
                 req'[v] = [req[v] EXCEPT !.pc = l, !.orders = S, !.drivers = D]
            \/ req'[v] = [req[v] EXCEPT !.pc = "pick", !.orders = {}, !.drivers = {}]
        BY <2>0, <3>1, <3>3 DEF ReadForOrtools, ReadForGreedy, ReadInputs, NoSolution, At
      <4>2. req[v].left = 0 /\ req[v].job \notin {"options", "multiday"}
        BY <3>3 DEF ReadForOrtools, ReadForGreedy, ReadInputs, NoSolution, At, OneDay, DryRun
      <4>3. CASE req'[v] = Idle
        BY <2>2, <2>4, <4>3
      <4>4. ASSUME NEW l \in {"solve", "greedy", "pick"}, NEW S, NEW D,
                   req'[v] = [req[v] EXCEPT !.pc = l, !.orders = S, !.drivers = D]
            PROVE req'[v].left = req[v].left /\ req'[v].job = req[v].job /\ req'[v].pc = l
        BY <2>0, <4>4 DEF Request
      <4> QED BY <2>3, <4>1, <4>2, <4>3, <4>4
    <3>4. CASE SolveWrite(v) \/ GreedyWrite(v)
      <4>1. req[v].pc \in {"solve", "greedy"}
        BY <3>4 DEF SolveWrite, GreedyWrite, At
      <4> QED BY <2>0, <2>2, <2>4, <3>1, <3>4, <4>1, WriteSteps DEF Abort
    <3>5. CASE PublishPlan(v)
      <4>1. [Idle EXCEPT !.pc = "record", !.job = "confirm", !.plan = req[v].plan].pc = "record"
        BY DEF Idle
      <4> QED BY <2>0, <2>2, <2>4, <3>5, <4>1 DEF PublishPlan, Abort
    <3>6. CASE EraseOrder(v) \/ RecordHistory(v) \/ Reply(v) \/ Crash(v)
      BY <2>0, <2>2, <2>4, <3>6 DEF EraseOrder, RecordHistory, Reply, Crash
    <3>7. CASE UpdateStopStatus(v)
      BY <2>0, <2>2, <2>4, <3>7, ReportEnds
    <3> QED BY <2>6, <3>2, <3>3, <3>4, <3>5, <3>6, <3>7 DEF WorkerStep
  <2> QED BY <2>1, <2>5, <2>6
<1> QED BY <1>1, <1>2

\* Only a planner's SELECT makes its request a holder, of orders then PENDING.
LEMMA NewHolder ==
  ASSUME IInv, NEW w \in Worker, StartStep(w) \/ WorkerStep(w),
         NEW o \in Order, w \in Holders(o)'
  PROVE UNCHANGED tables /\ order[o].status = "PENDING"
<1>0. req[w] \in Request /\ \A r : Become(w, r) => req'[w] = r
  BY DEF Become, IInv, TypeOK
<1>1. req'[w].pc \in {"solve", "greedy"} /\ o \in req'[w].orders
  BY DEF Holders
<1>2. Idle.pc = "idle" /\ Failed(w).pc = "failed"
  BY DEF Idle, Failed
<1>3. AfterMode(w).pc \in {"idle", "read"}
  BY <1>0, <1>2 DEF AfterMode, Request
<1>4. ~StartStep(w)
  <2>1. \A q \in Order : ~DeleteOrder(w, q)
    BY <1>0, <1>1 DEF DeleteOrder, Idle
  <2>2. \A dt \in Date : ~PlanDay(w, dt) /\ ~PlanOptions(w, dt)
    BY ZenonT(60), <1>0, <1>1 DEF PlanDay, PlanOptions, Idle
  <2>3. \A dt \in Date : \A n \in 1..(Days - dt + 1) : ~PlanMultiDay(w, dt, n)
    BY <1>0, <1>1 DEF PlanMultiDay, Idle
  <2>4. \A dt \in Date, d \in Driver \cup {NULL} : ~Replan(w, dt, d)
    BY ZenonT(60), <1>0, <1>1 DEF Replan, Idle
  <2>5. \A dt \in Date, p \in Plan : ~LoadPlan(w, p, dt)
    BY ZenonT(60), <1>0, <1>1 DEF LoadPlan, Idle
  <2>6. \A q \in Order, p \in Plan, s \in StopInputs : ~LoadStop(w, p, q, s)
    BY ZenonT(60), <1>0, <1>1 DEF LoadStop, Idle
  <2> QED BY <2>1, <2>2, <2>3, <2>4, <2>5, <2>6 DEF StartStep
<1>5. ~(SolveWrite(w) \/ GreedyWrite(w))
  BY <1>0, <1>1, <1>2, <1>3, WriteSteps DEF Abort
<1>6. ~(EraseOrder(w) \/ RecordHistory(w) \/ Reply(w) \/ Crash(w) \/ PublishPlan(w))
  <2>1. [Idle EXCEPT !.pc = "record", !.job = "confirm", !.plan = req[w].plan].pc = "record"
    BY DEF Idle
  <2> QED BY <1>0, <1>1, <1>2, <2>1
          DEF EraseOrder, RecordHistory, Reply, Crash, PublishPlan, Abort
<1>7. ~(NoSolution(w) \/ ResetOrders(w))
  BY <1>0, <1>1, <1>3 DEF NoSolution, ResetOrders, Request
<1>11. ~UpdateStopStatus(w)
  BY <1>0, <1>1, <1>2, ReportEnds
<1>8. PICK l \in PCs, m \in PCs : ReadInputs(w, l, m)
  BY <1>4, <1>5, <1>6, <1>7, <1>11 DEF WorkerStep, ReadForOrtools, ReadForGreedy, PCs
<1>9. /\ UNCHANGED tables
      /\ req'[w] = [req[w] EXCEPT !.pc = m, !.orders = PendingOrders(req[w].date),
                                  !.drivers = AvailableDrivers(req[w].date)]
  BY <1>0, <1>1, <1>3, <1>8 DEF ReadInputs
<1>10. o \in PendingOrders(req[w].date)
  BY <1>0, <1>1, <1>9 DEF Request
<1> QED BY <1>9, <1>10 DEF PendingOrders, Plannable

\* A planner's commit writes stops for orders its request holds, and assigns them.
LEMMA HolderWrites ==
  ASSUME IInv, NEW w \in Worker, OneDay(w), SolveWrite(w) \/ GreedyWrite(w), ~Abort(w)
  PROVE /\ Become(w, Idle)
        /\ \E p \in Plan, S \in SUBSET req[w].orders : \E f \in [S -> Driver] :
             WritePlan(w, p, f, TRUE)
<1>1. req[w].pc \in {"solve", "greedy"}
  BY DEF SolveWrite, GreedyWrite, At
<1>2. AfterMode(w) = Idle /\ (~DryRun(w)) = TRUE /\ req[w].drivers \subseteq Driver
  BY <1>1 DEF OneDay, AfterMode, IInv, TypeOK, Request
<1>3. CASE SolveWrite(w)
  <2>1. PICK f \in Solutions(w) :
          \E p \in Plan : WritePlan(w, p, f, ~DryRun(w)) /\ Become(w, AfterMode(w))
    BY <1>3 DEF SolveWrite
  <2>2. PICK S \in SUBSET req[w].orders : f \in [S -> req[w].drivers]
    BY DEF Solutions
  <2>3. f \in [S -> Driver]
    BY <1>2, <2>2
  <2> QED BY <1>2, <2>1, <2>3
<1>4. CASE GreedyWrite(w)
  <2>1. PICK f \in [req[w].orders -> req[w].drivers] :
          \E p \in Plan : WritePlan(w, p, f, TRUE) /\ Become(w, AfterMode(w))
    BY <1>4 DEF GreedyWrite
  <2>2. f \in [req[w].orders -> Driver]
    BY <1>2
  <2> QED BY <1>2, <2>1, <2>2
<1> QED BY <1>3, <1>4

\* Nothing but a planner's commit gives an order a stop, and nothing returns an
\* order with a stop to the pool.
LEMMA StopsKept ==
  ASSUME PlannedOnce, IInv, NEW o \in Order, [Next]_vars,
         \A w \in Worker : OneDay(w) /\ (SolveWrite(w) \/ GreedyWrite(w) => Abort(w))
  PROVE /\ Stops(o)' \subseteq Stops(o)
        /\ order'[o].status = "PENDING" => order[o].status \in {"PENDING", "ABSENT"}
<1>0. /\ order \in [Order -> OrderRow] /\ order[o] \in OrderRow
      /\ stop \in [Plan -> [Order -> StopRow]]
  BY DEF IInv, TypeOK
<1>1. CASE UNCHANGED <<order, stop>>
  BY <1>1 DEF Stops, HasStop
<1>2. CASE OrderStep
  <2>1. ASSUME NEW q \in Order, NEW dt \in Date, CreateOrder(q, dt)
        PROVE Stops(o)' \subseteq Stops(o)
              /\ (order'[o].status = "PENDING" => order[o].status \in {"PENDING", "ABSENT"})
    BY <1>0, <2>1 DEF CreateOrder, Stops, HasStop
  <2>2. ASSUME NEW q \in Order, NEW dt \in Date, RescheduleOrder(q, dt)
        PROVE Stops(o)' \subseteq Stops(o) /\ order'[o].status = order[o].status
    <3>1. [order[q] EXCEPT !.date = dt].status = order[q].status
      BY <1>0 DEF OrderRow
    <3> QED BY <1>0, <2>2, <3>1 DEF RescheduleOrder, Stops, HasStop
  <2>3. ASSUME NEW q \in Order, NEW s \in PatchStatuses, PatchOrder(q, s)
        PROVE Stops(o)' \subseteq Stops(o)
              /\ (order'[o].status = "PENDING" => order[o].status \in {"PENDING", "ABSENT"})
    <3>1. [order[q] EXCEPT !.status = s].status = s
      BY <1>0 DEF OrderRow
    <3> QED BY <1>0, <2>3, <3>1 DEF PatchOrder, Stops, HasStop, PlannedOnce
  <2> QED BY <1>2, <2>1, <2>2, <2>3, InputAssumption DEF OrderStep
<1>3. CASE DriverStep
  <2>1. UNCHANGED stop /\ (UNCHANGED order \/ \E d \in Driver : order' = OrdersWithout(d))
    BY <1>3 DEF DriverStep, CreateDriver, SetActive, DeleteDriver, UpsertAvailability
  <2>2. ASSUME NEW d \in Driver, order' = OrdersWithout(d)
        PROVE order'[o].status = order[o].status
    <3>1. order'[o] = IF order[o].driver = d
                      THEN [order[o] EXCEPT !.driver = NULL] ELSE order[o]
      BY <2>2 DEF OrdersWithout
    <3> QED BY <1>0, <3>1 DEF OrderRow
  <2> QED BY <1>1, <2>1, <2>2 DEF Stops, HasStop
<1>4. ASSUME NEW w \in Worker, EraseOrder(w)
      PROVE Stops(o)' \subseteq Stops(o)
            /\ (order'[o].status = "PENDING" => order[o].status \in {"PENDING", "ABSENT"})
  <2>1. order'[o] \in {order[o], GoneOrder}
    BY <1>4 DEF EraseOrder
  <2>2. \A p \in Plan : stop'[p][o] \in {stop[p][o], NoStop}
    BY <1>4 DEF EraseOrder, StopsWithout
  <2> QED BY <2>1, <2>2 DEF GoneOrder, NoStop, Stops, HasStop
<1>5. ASSUME NEW w \in Worker, PublishPlan(w)
      PROVE Stops(o)' \subseteq Stops(o)
            /\ (order'[o].status = "PENDING" => order[o].status \in {"PENDING", "ABSENT"})
  <2>1. UNCHANGED stop /\ (UNCHANGED order \/ order' = Confirmed(w))
    BY <1>5 DEF PublishPlan, Abort, tables
  <2>2. ASSUME order' = Confirmed(w)
        PROVE order'[o].status \in {"ASSIGNED", order[o].status}
    <3> DEFINE st == Flushed(req[w].loaded[o].status, "ASSIGNED", order[o].status)
               d == Flushed(req[w].loaded[o].driver, req[w].wants[o], order[o].driver)
    <3>1. order'[o] = order[o] \/ order'[o] = [order[o] EXCEPT !.status = st, !.driver = d]
      BY <2>2 DEF Confirmed
    <3>2. st \in {"ASSIGNED", order[o].status}
      BY DEF Flushed
    <3> HIDE DEF st, d
    <3>3. [order[o] EXCEPT !.status = st, !.driver = d].status = st
      BY <1>0 DEF OrderRow
    <3> QED BY <3>1, <3>2, <3>3
  <2> QED BY <2>1, <2>2 DEF Stops, HasStop
<1>6. ASSUME NEW w \in Worker, StartStep(w) \/ WorkerStep(w),
             ~EraseOrder(w), ~PublishPlan(w), ~UpdateStopStatus(w)
      PROVE UNCHANGED <<order, stop>>
  <2>1. ~ResetOrders(w)
    BY DEF OneDay, ResetOrders, At
  <2> QED BY <1>6, <2>1
         DEF StartStep, DeleteOrder, LoadStop, PlanDay, PlanOptions, PlanMultiDay, Replan, LoadPlan,
             WorkerStep, ReadForOrtools, ReadForGreedy, ReadInputs, NoSolution,
             RecordHistory, Reply, Crash, Abort, tables
<1>7. ASSUME NEW w \in Worker, UpdateStopStatus(w)
      PROVE Stops(o)' \subseteq Stops(o)
            /\ (order'[o].status = "PENDING" => order[o].status \in {"PENDING", "ABSENT"})
  <2>1. PICK q \in Order :
          /\ req[w].plan \in Plan /\ req[w].report \in StopReport
          /\ Reported(w, q) \/ UNCHANGED tables
    BY <1>7, ReportSteps DEF IInv, Abort
  <2>2. CASE Reported(w, q)
    <3>1. \A r \in Plan : HasStop(r, o)' => HasStop(r, o)
      BY <2>1, <2>2, StopsAfterReport DEF IInv, Reported, HasStop
    <3>2. \/ order' = order
          \/ req[w].report # "PENDING" /\ order' = [order EXCEPT ![q].status = req[w].report]
      BY <2>2 DEF Reported, OrderAfterReport, TellsOrder
    <3> QED BY <1>0, <3>1, <3>2 DEF Stops, OrderRow
  <2> QED BY <1>1, <2>1, <2>2 DEF tables
<1> QED BY <1>1, <1>2, <1>3, <1>4, <1>5, <1>6, <1>7 DEF Next, vars, tables

LEMMA StopInvInit ==
  ASSUME IsFiniteSet(Worker), Init PROVE StopInv
<1>1. \A w \in Worker : OneDay(w)
  BY DEF Init, OneDay, Idle
<1>2. \A o \in Order : Stops(o) = {}
  BY DEF Init, Stops, HasStop, NoStop
<1>3. \A o \in Order : Within(o)
  BY <1>2, UnplannedWithin
<1> QED BY <1>1, <1>2, <1>3 DEF StopInv, PendingUnplanned

LEMMA StopInvNext ==
  ASSUME IsFiniteSet(Worker), PlannedOnce, IInv, IInv', StopInv, [Next]_vars
  PROVE StopInv'
<1>1. \A w \in Worker : OneDay(w)'
  BY OneDayNext DEF StopInv
<1>2. ASSUME NEW o \in Order PROVE PendingUnplanned(o)' /\ Within(o)'
  <2>0. Within(o) /\ PendingUnplanned(o) /\ \A w \in Worker : OneDay(w)
    BY DEF StopInv
  <2>1. ASSUME (Stops(o) = {})' PROVE PendingUnplanned(o)' /\ Within(o)'
    <3>1. (Stops(o) = {} => Within(o))'
      BY UnplannedWithin, PTL
    <3> QED BY <2>1, <3>1 DEF PendingUnplanned
  <2>2. order[o].status = "ABSENT" => Stops(o) = {}
    BY DEF IInv, ForeignKeysHold, Stops, Live, OrderStatus
  <2>3. ASSUME \A w \in Worker : SolveWrite(w) \/ GreedyWrite(w) => Abort(w),
               Holders(o)' \subseteq Holders(o)
        PROVE PendingUnplanned(o)' /\ Within(o)'
    <3>1. /\ Stops(o)' \subseteq Stops(o)
          /\ order'[o].status = "PENDING" => order[o].status \in {"PENDING", "ABSENT"}
      BY <2>0, <2>3, StopsKept
    <3>2. PendingUnplanned(o)'
      BY <2>0, <2>2, <3>1 DEF PendingUnplanned
    <3> QED BY <2>0, <2>3, <3>1, <3>2, QuietWithin
  <2>4. CASE UNCHANGED req
    <3>1. Holders(o)' = Holders(o)
      BY <2>4 DEF Holders
    <3>2. ASSUME NEW w \in Worker, SolveWrite(w) \/ GreedyWrite(w), ~Abort(w) PROVE FALSE
      <4>1. Become(w, Idle) /\ req[w].pc \in {"solve", "greedy"} /\ req'[w] = req[w]
        BY <2>0, <2>4, <3>2, HolderWrites DEF SolveWrite, GreedyWrite, At
      <4> QED BY <4>1 DEF Become, IInv, TypeOK, Idle
    <3> QED BY <2>3, <3>1, <3>2
  <2>5. ASSUME NEW w \in Worker, StartStep(w) \/ WorkerStep(w)
        PROVE PendingUnplanned(o)' /\ Within(o)'
    <3>1. \A v \in Worker : v # w => req'[v] = req[v]
      BY <2>5, OthersWait
    <3>2. Holders(o)' \subseteq Holders(o) \cup {w}
      BY <3>1 DEF Holders
    <3>3. CASE w \in Holders(o)'
      <4>1. UNCHANGED tables /\ order[o].status = "PENDING"
        BY <2>5, <3>3, NewHolder
      <4>2. (Stops(o) = {})'
        BY <2>0, <4>1 DEF PendingUnplanned, Stops, HasStop, tables
      <4> QED BY <2>1, <4>2
    <3>4. CASE w \notin Holders(o)'
      <4>1. Holders(o)' \subseteq Holders(o) \ {w}
        BY <3>1, <3>4 DEF Holders
      <4>2. ASSUME NEW v \in Worker, SolveWrite(v) \/ GreedyWrite(v), ~Abort(v)
            PROVE v = w
        <5>1. Become(v, Idle) /\ req[v].pc \in {"solve", "greedy"}
          BY <2>0, <4>2, HolderWrites DEF SolveWrite, GreedyWrite, At
        <5>2. req'[v] # req[v]
          BY <5>1 DEF Become, IInv, TypeOK, Idle
        <5> QED BY <3>1, <5>2
      <4>3. CASE SolveWrite(w) \/ GreedyWrite(w) => Abort(w)
        BY <2>3, <4>1, <4>2, <4>3
      <4>4. CASE (SolveWrite(w) \/ GreedyWrite(w)) /\ ~Abort(w)
        <5>1. PICK p \in Plan, S \in SUBSET req[w].orders : \E f \in [S -> Driver] :
                WritePlan(w, p, f, TRUE)
          BY <2>0, <4>4, HolderWrites
        <5>2. PICK f \in [S -> Driver] : WritePlan(w, p, f, TRUE)
          BY <5>1
        <5>3. /\ order \in [Order -> OrderRow] /\ order[o] \in OrderRow
              /\ stop \in [Plan -> [Order -> StopRow]]
          BY DEF IInv, TypeOK
        <5>4. \A q \in Plan : q # p => stop'[q][o] = stop[q][o]
          BY <5>2, <5>3 DEF WritePlan, WithStops
        <5>5. CASE o \in S
          <6>1. w \in Holders(o)
            BY <4>4, <5>5 DEF Holders, SolveWrite, GreedyWrite, At
          <6>2. Stops(o)' \subseteq Stops(o) \cup {p}
            BY <5>4 DEF Stops, HasStop
          <6>3. order'[o].status # "PENDING"
            BY <5>2, <5>3, <5>5 DEF WritePlan, Assigned, OrderRow
          <6> QED BY <2>0, <4>1, <6>1, <6>2, <6>3, WriteWithin DEF PendingUnplanned
        <5>6. CASE o \notin S
          <6>1. order'[o] = order[o] /\ stop'[p][o] = NoStop
            BY <5>2, <5>3, <5>6 DEF WritePlan, Assigned, WithStops
          <6>2. Stops(o)' \subseteq Stops(o)
            BY <5>4, <6>1 DEF Stops, HasStop, NoStop
          <6>3. PendingUnplanned(o)'
            BY <2>0, <6>1, <6>2 DEF PendingUnplanned
          <6>4. Holders(o)' \subseteq Holders(o)
            BY <4>1
          <6> QED BY <2>0, <6>2, <6>3, <6>4, QuietWithin
        <5> QED BY <5>5, <5>6
      <4> QED BY <4>3, <4>4
    <3> QED BY <3>3, <3>4
  <2>6. UNCHANGED req \/ \E w \in Worker : StartStep(w) \/ WorkerStep(w)
    BY DEF Next, vars, OrderStep, CreateOrder, RescheduleOrder, PatchOrder,
           DriverStep, CreateDriver, SetActive, DeleteDriver, UpsertAvailability
  <2> QED BY <2>4, <2>5, <2>6
<1> QED BY <1>1, <1>2 DEF StopInv

\* Overlap is the only way for plan/day to put an order on two plans: each worker
\* adds one stop at most, through confirms, reports, deletions and crashes.
THEOREM DispatchStopsBounded ==
  ASSUME IsFiniteSet(Worker), PlannedOnce
  PROVE Spec => []StopsBounded
<1>1. Init => StopInv
  BY StopInvInit
<1>2. IInv /\ IInv' /\ StopInv /\ [Next]_vars => StopInv'
  BY StopInvNext
<1>3. StopInv => StopsBounded
  <2> SUFFICES ASSUME StopInv, NEW o \in Order
               PROVE IsFiniteSet(Stops(o)) /\ Cardinality(Stops(o)) <= Cardinality(Worker)
    BY DEF StopsBounded
  <2>1. Within(o)
    BY DEF StopInv
  <2>2. Cardinality(Stops(o)) \in Nat
    BY <2>1, FS_CardinalityType DEF Within
  <2> QED BY <2>1, <2>2, HolderSets DEF Within
<1> QED BY <1>1, <1>2, <1>3, DispatchInvariant, PTL DEF Spec

\* In particular, requests served one at a time keep "order.route_stop" one-to-one.
THEOREM DispatchOneStop ==
  ASSUME PlannedOnce, NEW w, Worker = {w}
  PROVE Spec => []OneStopPerOrder
<1>1. IsFiniteSet(Worker) /\ Cardinality(Worker) = 1
  BY FS_Singleton
<1>2. StopsBounded => OneStopPerOrder
  <2> SUFFICES ASSUME StopsBounded, NEW o \in Order, NEW p \in Plan, NEW q \in Plan,
                      HasStop(p, o), HasStop(q, o), p # q
               PROVE FALSE
    BY DEF OneStopPerOrder
  <2>1. IsFiniteSet(Stops(o)) /\ Cardinality(Stops(o)) <= 1
    BY <1>1 DEF StopsBounded
  <2>2. {p, q} \subseteq Stops(o)
    BY DEF Stops
  <2>3. Cardinality({p, q}) = 2 /\ Cardinality({p, q}) <= Cardinality(Stops(o))
    <3>1. IsFiniteSet({p}) /\ Cardinality({p}) = 1
      BY FS_Singleton
    <3>2. {p, q} = {p} \cup {q} /\ q \notin {p}
      OBVIOUS
    <3>3. Cardinality({p, q}) = 2
      BY <3>1, <3>2, FS_AddElement
    <3> QED BY <2>1, <2>2, <3>3, FS_Subset
  <2>4. Cardinality(Stops(o)) \in Nat
    BY <2>1, FS_CardinalityType
  <2> QED BY <2>1, <2>3, <2>4
<1>3. Spec => []StopsBounded
  BY <1>1, DispatchStopsBounded
<1> QED BY <1>2, <1>3, PTL
=============================================================================
