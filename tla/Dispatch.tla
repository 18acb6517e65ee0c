------------------------------ MODULE Dispatch ------------------------------
(***************************************************************************)
(* The dispatch core of FleetOpsX: one tenant's orders, drivers, route     *)
(* plans, routes and stops, and the API requests that change them          *)
(* (app/services, app/planners, app/api/v1/planning.py and driver.py).     *)
(*                                                                         *)
(* The API runs its synchronous handlers on a thread pool over a READ      *)
(* COMMITTED Postgres database: a request is a process (a Worker) that     *)
(* reads rows in one step and commits what it computed from them in a      *)
(* later one, and any other request may commit in between.  A request that *)
(* only writes the columns of one row that it was sent is one step.        *)
(*                                                                         *)
(* Row identities are fresh UUIDs in the code.  Here an order or a driver  *)
(* is created at most once; both planners give a driver at most one route  *)
(* and an order at most one stop within a plan, so a route is named by its *)
(* plan and the driver it was created for, a stop by its plan and order.   *)
(***************************************************************************)
EXTENDS Naturals

CONSTANTS
  Order, Driver, Plan,   \* rows that can exist (bounds the model)
  Worker,                \* threads serving long requests (bounds concurrency)
  NULL,                  \* SQL NULL
  Days,                  \* planning dates are 1..Days
  OrtoolsPlanner,        \* PLANNER_TYPE: FALSE is the default, rule_based
  Uuid4Imported,         \* FALSE: ortools_planner.py as it is, uuid4 unbound
  NModes,                \* number of PLAN_MODES
  Jobs,                  \* the long requests the users of this instance issue
  OrderDates,            \* dates users schedule orders for
  PatchStatuses,         \* values users write with PATCH /orders/{id}
  StopInputs,            \* statuses the drivers report
  DutyInputs,            \* statuses of PATCH /drivers/{id}/availability
  ActiveInputs,          \* values of is_active in PATCH /drivers/{id}
  OnLeave,               \* driver_shifts rows that are not WORKING (seeded)
  Removable,             \* drivers the users of this instance delete
  Crashes                \* whether the API process may die inside a request

Date == 1..Days
OrderStatus == {"PENDING", "ASSIGNED", "IN_TRANSIT", "DELIVERED", "FAILED",
                "CANCELLED"}
StopReport == {"ARRIVED", "DELIVERED", "FAILED", "SKIPPED"}
AllJobs == {"day", "options", "multiday", "replan", "confirm", "delete",
            "report"}

ASSUME DaysAssumption == Days \in Nat \ {0}
ASSUME NullAssumption ==
  NULL \notin Order /\ NULL \notin Driver /\ NULL \notin Plan
ASSUME FlagAssumption ==
  /\ OrtoolsPlanner \in BOOLEAN
  /\ Uuid4Imported \in BOOLEAN
  /\ Crashes \in BOOLEAN
ASSUME ModesAssumption == NModes \in Nat \ {0}
ASSUME InputAssumption ==
  /\ Jobs \subseteq AllJobs
  /\ OrderDates \subseteq Date
  /\ PatchStatuses \subseteq OrderStatus
  /\ StopInputs \subseteq StopReport
  /\ DutyInputs \subseteq {"available", "off"}
  /\ ActiveInputs \subseteq BOOLEAN
  /\ OnLeave \subseteq Driver \X Date
  /\ Removable \subseteq Driver

VARIABLES
  order,        \* orders:  status, assigned_driver_id, scheduled_date
  driver,       \* drivers: ABSENT, ACTIVE, INACTIVE (is_active), DELETED
  duty,         \* driver_availability per driver and date
  plan,         \* route_plans: status and plan_date
  routeDriver,  \* routes.driver_id of the route a plan made for a driver
  stop,         \* route_stops of a plan, by order: route and status
  history,      \* plans a plan_history row was written for
  req,          \* the request each worker is serving
  \* History variables: no action reads them, the program has neither.
  author,       \* who last set an order's status, and who its driver
  retold        \* stops whose status a second report changed

signed == <<author, retold>>
tables == <<order, driver, duty, plan, routeDriver, stop, history, signed>>
vars == <<tables, req>>

NoStop == [route |-> NULL, status |-> "NONE"]
NoPlan == [status |-> "NONE", date |-> 1]
GoneOrder == [status |-> "DELETED", driver |-> NULL, date |-> 1]

Live(o) == order[o].status \in OrderStatus
Employed(d) == driver[d] \in {"ACTIVE", "INACTIVE"}
HasStop(p, o) == stop[p][o].status # "NONE"

(***************************************************************************)
(* Requests.  pc is the next database step of the request:                 *)
(*   read/solve     OR-Tools planner: SELECT, then solve and write         *)
(*   pick/greedy    rule-based planner: SELECT, then assign and write      *)
(*   reset          replan: stops selected, their orders to be reset       *)
(*   publish/record confirm: rows loaded; committed, history row missing   *)
(*   erase          delete order: looked for a stop, DELETE to be sent     *)
(*   report         driver's report: stop and order loaded, UPDATE to send *)
(*   failed         answering HTTP 500                                     *)
(***************************************************************************)
PCs == {"idle", "read", "solve", "pick", "greedy", "reset", "publish",
        "record", "erase", "report", "failed"}

Nothing == [o \in Order |-> NULL]

Idle == [pc |-> "idle", job |-> "none", date |-> 1, left |-> 0,
         orders |-> {}, drivers |-> {}, plan |-> NULL,
         loaded |-> [o \in Order |-> GoneOrder], wants |-> Nothing,
         told |-> "NONE", report |-> "NONE"]

Failed(w) == [Idle EXCEPT !.pc = "failed", !.job = req[w].job]

At(w, l) == req[w].pc = l
Become(w, r) == req' = [req EXCEPT ![w] = r]

DryRun(w) == req[w].job \in {"options", "multiday"}

\* PLAN_MODES are tried one after the other, plan_horizon's dates likewise.
AfterMode(w) ==
  IF req[w].left <= 1 THEN Idle
  ELSE [req[w] EXCEPT !.pc = "read", !.left = @ - 1,
                      !.date = IF req[w].job = "multiday" THEN @ + 1 ELSE @,
                      !.orders = {}, !.drivers = {}]

\* The unit of work sends only the columns that differ from the loaded row.
Flushed(old, new, current) == IF old = new THEN current ELSE new

\* The orders of S get both columns from who.
SignedBy(S, who) ==
  [o \in Order |-> IF o \in S THEN [status |-> who, driver |-> who]
                  ELSE author[o]]

-----------------------------------------------------------------------------
(* Orders: app/services/order_service.py *)

CreateOrder(o, dt) ==
  /\ order[o].status = "ABSENT"
  /\ order' = [order EXCEPT ![o] =
                 [status |-> "PENDING", driver |-> NULL, date |-> dt]]
  /\ UNCHANGED <<driver, duty, plan, routeDriver, stop, history, req, signed>>

\* PATCH loads the row to learn whether the column changes, and sends an UPDATE
\* of that column alone if it does.  Another request may commit in between, but
\* all the row read before decides is whether the column is written at all, and
\* a PATCH that writes nothing is no step: one step at the COMMIT loses nothing.
PatchOrder(o, s) ==
  /\ Live(o) /\ order[o].status # s
  /\ order' = [order EXCEPT ![o].status = s]
  /\ author' = [author EXCEPT ![o].status = "user"]
  /\ UNCHANGED <<driver, duty, plan, routeDriver, stop, history, req, retold>>

RescheduleOrder(o, dt) ==
  /\ Live(o)
  /\ order' = [order EXCEPT ![o].date = dt]
  /\ UNCHANGED <<driver, duty, plan, routeDriver, stop, history, req, signed>>

\* The flush of db.delete looks the order's stop up first and would set its
\* NOT NULL order_id to NULL: an order with a stop is refused with a 500.
Erasable(o) == Live(o) /\ \A p \in Plan : ~HasStop(p, o)

DeleteOrder(w, o) ==
  /\ At(w, "idle") /\ "delete" \in Jobs
  /\ Erasable(o)
  /\ Become(w, [Idle EXCEPT !.pc = "erase", !.job = "delete", !.orders = {o}])
  /\ UNCHANGED tables

\* ON DELETE CASCADE takes the stops a planner committed meanwhile.
StopsWithout(S) ==
  [p \in Plan |-> [o \in Order |-> IF o \in S THEN NoStop ELSE stop[p][o]]]

EraseOrder(w) ==
  /\ At(w, "erase")
  /\ order' = [o \in Order |-> IF o \in req[w].orders /\ Live(o)
                               THEN GoneOrder ELSE order[o]]
  /\ stop' = StopsWithout(req[w].orders)
  /\ author' = SignedBy(req[w].orders, "none")
  /\ Become(w, Idle)
  /\ UNCHANGED <<driver, duty, plan, routeDriver, history, retold>>

-----------------------------------------------------------------------------
(* Drivers: app/services/driver_service.py, availability_service.py *)

CreateDriver(d) ==
  /\ driver[d] = "ABSENT"
  /\ driver' = [driver EXCEPT ![d] = "ACTIVE"]
  /\ UNCHANGED <<order, duty, plan, routeDriver, stop, history, req, signed>>

SetActive(d, active) ==
  /\ Employed(d)
  /\ driver' = [driver EXCEPT ![d] = IF active THEN "ACTIVE" ELSE "INACTIVE"]
  /\ UNCHANGED <<order, duty, plan, routeDriver, stop, history, req, signed>>

\* Mutated OrdersWithout: assigned_driver_id is not ON DELETE SET NULL.
OrdersKept(d) == [o \in Order |-> order[o]]

\* orders.assigned_driver_id and routes.driver_id are ON DELETE SET NULL.
OrdersWithout(d) ==
  [o \in Order |-> IF order[o].driver = d
                   THEN [order[o] EXCEPT !.driver = NULL] ELSE order[o]]
RoutesWithout(d) ==
  [p \in Plan |-> [e \in Driver |-> IF routeDriver[p][e] = d
                                    THEN NULL ELSE routeDriver[p][e]]]

\* A driver with driver_availability rows is refused with a 500: the backref
\* has no cascade, so the flush sets their NOT NULL driver_id to NULL.
DeleteDriver(d) ==
  /\ Employed(d) /\ d \in Removable
  /\ \A dt \in Date : duty[d][dt] = "none"
  /\ driver' = [driver EXCEPT ![d] = "DELETED"]
  /\ order' = OrdersWithout(d)
  /\ routeDriver' = RoutesWithout(d)
  /\ UNCHANGED <<duty, plan, stop, history, req, signed>>

UpsertAvailability(d, dt, s) ==
  /\ Employed(d)
  /\ duty' = [duty EXCEPT ![d][dt] = s]
  /\ UNCHANGED <<order, driver, plan, routeDriver, stop, history, req, signed>>

-----------------------------------------------------------------------------
(* Planners: app/planners/rule_based.py, ortools_planner.py *)

Plannable(o, dt) ==
  /\ order[o].status = "PENDING"
  /\ order[o].driver = NULL
  /\ order[o].date = dt

Available(d, dt) ==
  /\ driver[d] = "ACTIVE"
  /\ <<d, dt>> \notin OnLeave
  /\ duty[d][dt] \in {"none", "available"}

PendingOrders(dt) == {o \in Order : Plannable(o, dt)}
AvailableDrivers(dt) == {d \in Driver : Available(d, dt)}

PlanDay(w, dt) ==
  /\ At(w, "idle") /\ "day" \in Jobs
  /\ Become(w, [Idle EXCEPT !.pc = IF OrtoolsPlanner THEN "read" ELSE "pick",
                            !.job = "day", !.date = dt])
  /\ UNCHANGED tables

PlanOptions(w, dt) ==
  /\ At(w, "idle") /\ "options" \in Jobs
  /\ Become(w, [Idle EXCEPT !.pc = "read", !.job = "options", !.date = dt,
                            !.left = NModes])
  /\ UNCHANGED tables

PlanMultiDay(w, dt, n) ==
  /\ At(w, "idle") /\ "multiday" \in Jobs
  /\ Become(w, [Idle EXCEPT !.pc = "read", !.job = "multiday", !.date = dt,
                            !.left = n])
  /\ UNCHANGED tables

\* Both planners start with the same SELECTs and return early, with nothing
\* written, when there is no pending order or no available driver.
ReadInputs(w, here, next) ==
  LET S == PendingOrders(req[w].date)
      D == AvailableDrivers(req[w].date)
  IN /\ At(w, here)
     /\ Become(w, IF S = {} \/ D = {} THEN AfterMode(w)
                  ELSE [req[w] EXCEPT !.pc = next, !.orders = S, !.drivers = D])
     /\ UNCHANGED tables

ReadForOrtools(w) == ReadInputs(w, "read", "solve")
ReadForGreedy(w) == ReadInputs(w, "pick", "greedy")

\* Mutated Insertable: the new rows' foreign keys are not enforced.
AnyInsert(f) == TRUE

\* The foreign keys of the new stops and routes at the planner's COMMIT.
Insertable(f) == \A o \in DOMAIN f : Live(o) /\ Employed(f[o])

\* The planner's write: a DRAFT plan, one route per driver used, the stops,
\* and, when assignments are committed, the orders themselves.
WithPlan(p, dt) == [plan EXCEPT ![p] = [status |-> "DRAFT", date |-> dt]]
WithRoutes(p, f) ==
  [routeDriver EXCEPT ![p] =
     [d \in Driver |-> IF \E o \in DOMAIN f : f[o] = d THEN d ELSE NULL]]
WithStops(p, f) ==
  [stop EXCEPT ![p] =
     [o \in Order |-> IF o \in DOMAIN f
                      THEN [route |-> f[o], status |-> "PENDING"] ELSE NoStop]]
Assigned(f) ==
  [o \in Order |-> IF o \in DOMAIN f
                   THEN [order[o] EXCEPT !.status = "ASSIGNED", !.driver = f[o]]
                   ELSE order[o]]

WritePlan(w, p, f, commitAssignments) ==
  /\ plan[p].status = "NONE"
  /\ Insertable(f)
  /\ plan' = WithPlan(p, req[w].date)
  /\ routeDriver' = WithRoutes(p, f)
  /\ stop' = WithStops(p, f)
  /\ order' = IF commitAssignments THEN Assigned(f) ELSE order
  /\ author' = IF commitAssignments THEN SignedBy(DOMAIN f, "planner") ELSE author
  /\ UNCHANGED <<driver, duty, history, retold>>

\* The request dies with an exception; its transaction is rolled back.
Abort(w) == Become(w, Failed(w)) /\ UNCHANGED tables

\* What the solver may return: orders it does not drop, each with one vehicle.
Solutions(w) == UNION {[S -> req[w].drivers] : S \in SUBSET req[w].orders}

\* Inserting the first stop evaluates uuid4(), which the module does not import.
SolveWrite(w) ==
  /\ At(w, "solve")
  /\ \E f \in Solutions(w) :
       \/ /\ DOMAIN f = {} \/ Uuid4Imported
          /\ \E p \in Plan : WritePlan(w, p, f, ~DryRun(w))
          /\ Become(w, AfterMode(w))
       \/ /\ DOMAIN f # {} /\ (~Uuid4Imported \/ ~Insertable(f))
          /\ Abort(w)

\* Mutated NoSolution: dry runs fall back to the rule-based planner too.
AlwaysFallBack(w) ==
  /\ At(w, "solve")
  /\ Become(w, [req[w] EXCEPT !.pc = "pick", !.orders = {}, !.drivers = {}])
  /\ UNCHANGED tables

\* No solution: a dry run skips the mode, a real run falls back to the
\* rule-based planner, which reads the orders and drivers anew.
NoSolution(w) ==
  /\ At(w, "solve")
  /\ Become(w, IF DryRun(w) THEN AfterMode(w)
               ELSE [req[w] EXCEPT !.pc = "pick", !.orders = {}, !.drivers = {}])
  /\ UNCHANGED tables

\* Every order goes to the nearest driver; who is nearest is left open.
GreedyWrite(w) ==
  /\ At(w, "greedy")
  /\ \E f \in [req[w].orders -> req[w].drivers] :
       \/ /\ \E p \in Plan : WritePlan(w, p, f, TRUE)
          /\ Become(w, AfterMode(w))
       \/ /\ ~Insertable(f)
          /\ Abort(w)

-----------------------------------------------------------------------------
(* Replan: app/api/v1/planning.py replan *)

\* d = NULL replans the full fleet.
PendingStopOrders(d) ==
  {o \in Order : \E p \in Plan :
     /\ stop[p][o].status = "PENDING"
     /\ d = NULL \/ routeDriver[p][stop[p][o].route] = d}

Replan(w, dt, d) ==
  /\ At(w, "idle") /\ "replan" \in Jobs
  /\ Become(w, [Idle EXCEPT
                 !.pc = IF PendingStopOrders(d) = {} THEN "read" ELSE "reset",
                 !.job = "replan", !.date = dt,
                 !.orders = PendingStopOrders(d)])
  /\ UNCHANGED tables

\* Mutated OrdersReset: keeps assigned_driver_id.
StatusReset(S) ==
  [o \in Order |-> IF o \in S /\ Live(o)
                   THEN [order[o] EXCEPT !.status = "PENDING"] ELSE order[o]]

OrdersReset(S) ==
  [o \in Order |-> IF o \in S /\ Live(o)
                   THEN [order[o] EXCEPT !.status = "PENDING", !.driver = NULL]
                   ELSE order[o]]

ResetOrders(w) ==
  /\ At(w, "reset")
  /\ order' = OrdersReset(req[w].orders)
  /\ author' = SignedBy(req[w].orders, "replan")
  /\ Become(w, [req[w] EXCEPT !.pc = "read", !.orders = {}])
  /\ UNCHANGED <<driver, duty, plan, routeDriver, stop, history, retold>>

-----------------------------------------------------------------------------
(* Confirm: app/services/plan_options_service.py, planning.py plan_confirm *)

LoadPlan(w, p, dt) ==
  LET S == {o \in Order : HasStop(p, o)}
  IN /\ At(w, "idle") /\ "confirm" \in Jobs
     /\ plan[p].status # "NONE"
     /\ Become(w, [Idle EXCEPT
          !.pc = "publish", !.job = "confirm", !.date = dt, !.plan = p,
          !.orders = S,
          !.loaded = [o \in Order |-> IF o \in S THEN order[o] ELSE GoneOrder],
          !.wants = [o \in Order |-> IF o \in S
                                     THEN routeDriver[p][stop[p][o].route]
                                     ELSE NULL]])
     /\ UNCHANGED tables

Dirty(w, o) ==
  \/ req[w].loaded[o].driver # req[w].wants[o]
  \/ req[w].loaded[o].status # "ASSIGNED"

Confirmed(w) ==
  [o \in Order |->
     IF o \notin req[w].orders \/ ~Live(o) THEN order[o]
     ELSE [order[o] EXCEPT
             !.status = Flushed(req[w].loaded[o].status, "ASSIGNED", @),
             !.driver = Flushed(req[w].loaded[o].driver, req[w].wants[o], @)]]

SignedConfirm(w) ==
  [o \in Order |->
     IF o \notin req[w].orders THEN author[o]
     ELSE [status |-> IF req[w].loaded[o].status # "ASSIGNED" THEN "confirm"
                      ELSE author[o].status,
           driver |-> IF req[w].loaded[o].driver # req[w].wants[o] THEN "confirm"
                      ELSE author[o].driver]]

\* A dirty order must still be there, and so must the driver it is given.
Updatable(w) ==
  \A o \in req[w].orders :
    /\ Dirty(w, o) => Live(o)
    /\ req[w].loaded[o].driver # req[w].wants[o]
         => req[w].wants[o] \in {NULL} \cup {d \in Driver : Employed(d)}

\* Mutated Published: cancels every other plan of the date.
PublishedAlone(p, dt) ==
  [q \in Plan |->
     IF q = p THEN [plan[q] EXCEPT !.status = "PUBLISHED"]
     ELSE IF plan[q].date = dt /\ plan[q].status # "NONE"
          THEN [plan[q] EXCEPT !.status = "CANCELLED"] ELSE plan[q]]

Published(p, dt) ==
  [q \in Plan |->
     IF q = p THEN [plan[q] EXCEPT !.status = "PUBLISHED"]
     ELSE IF plan[q].date = dt /\ plan[q].status = "DRAFT"
          THEN [plan[q] EXCEPT !.status = "CANCELLED"] ELSE plan[q]]

PublishPlan(w) ==
  /\ At(w, "publish")
  /\ \/ /\ Updatable(w)
        /\ order' = Confirmed(w)
        /\ plan' = Published(req[w].plan, req[w].date)
        /\ author' = SignedConfirm(w)
        /\ Become(w, [Idle EXCEPT !.pc = "record", !.job = "confirm",
                                  !.plan = req[w].plan])
        /\ UNCHANGED <<driver, duty, routeDriver, stop, history, retold>>
     \/ /\ ~Updatable(w)
        /\ Abort(w)

RecordHistory(w) ==
  /\ At(w, "record")
  /\ history' = history \cup {req[w].plan}
  /\ Become(w, Idle)
  /\ UNCHANGED <<order, driver, duty, plan, routeDriver, stop, signed>>

-----------------------------------------------------------------------------
(* Drivers' reports: app/api/v1/driver.py update_stop_status *)

\* The stop is loaded, then its order.
LoadStop(w, p, o, s) ==
  /\ At(w, "idle") /\ "report" \in Jobs
  /\ HasStop(p, o)
  /\ Become(w, [Idle EXCEPT
       !.pc = "report", !.job = "report", !.plan = p, !.orders = {o},
       !.loaded[o].status = order[o].status, !.told = stop[p][o].status, !.report = s])
  /\ UNCHANGED tables

\* ARRIVED and SKIPPED leave the order as it is.
TellsOrder(w, o) ==
  /\ req[w].report \in {"DELIVERED", "FAILED"}
  /\ req[w].loaded[o].status # req[w].report
TellsStop(w) == req[w].told # req[w].report

\* Mutated OrderAfterReport: copies every report to the order.
ReportCopied(w, o) == [order EXCEPT ![o].status = req[w].report]

OrderAfterReport(w, o) ==
  IF TellsOrder(w, o) THEN [order EXCEPT ![o].status = req[w].report] ELSE order

\* Mutated StopAfterReport: the stop's change is not part of the commit.
StopNotSaved(w, o) == stop

StopAfterReport(w, o) ==
  [stop EXCEPT ![req[w].plan][o].status = Flushed(req[w].told, req[w].report, @)]

\* The COMMIT.  If the rows were deleted meanwhile an UPDATE finds none of them
\* and the request fails; with nothing to update it does not notice.
UpdateStopStatus(w) ==
  /\ At(w, "report")
  /\ \E o \in req[w].orders :
       LET p == req[w].plan
       IN \/ /\ HasStop(p, o)
             /\ stop' = StopAfterReport(w, o)
             /\ order' = OrderAfterReport(w, o)
             /\ author' = IF TellsOrder(w, o)
                          THEN [author EXCEPT ![o].status = "driver"] ELSE author
             /\ retold' = IF TellsStop(w) /\ stop[p][o].status # "PENDING"
                          THEN retold \cup {<<p, o>>} ELSE retold
             /\ Become(w, Idle)
             /\ UNCHANGED <<driver, duty, plan, routeDriver, history>>
          \/ /\ ~HasStop(p, o) /\ (TellsStop(w) \/ TellsOrder(w, o))
             /\ Abort(w)
          \/ /\ ~HasStop(p, o) /\ ~TellsStop(w) /\ ~TellsOrder(w, o)
             /\ Become(w, Idle)
             /\ UNCHANGED tables

-----------------------------------------------------------------------------
\* The 500 reaches the client.
Reply(w) == At(w, "failed") /\ Become(w, Idle) /\ UNCHANGED tables

\* The API process dies inside a request: what is not committed is lost.
Crash(w) ==
  /\ Crashes /\ req[w].pc \notin {"idle", "failed"}
  /\ Become(w, Idle)
  /\ UNCHANGED tables

Init ==
  /\ order = [o \in Order |-> [status |-> "ABSENT", driver |-> NULL, date |-> 1]]
  /\ driver = [d \in Driver |-> "ABSENT"]
  /\ duty = [d \in Driver |-> [dt \in Date |-> "none"]]
  /\ plan = [p \in Plan |-> NoPlan]
  /\ routeDriver = [p \in Plan |-> [d \in Driver |-> NULL]]
  /\ stop = [p \in Plan |-> [o \in Order |-> NoStop]]
  /\ history = {}
  /\ req = [w \in Worker |-> Idle]
  /\ author = [o \in Order |-> [status |-> "none", driver |-> "none"]]
  /\ retold = {}

OrderStep ==
  \E o \in Order :
    \/ \E dt \in OrderDates : CreateOrder(o, dt) \/ RescheduleOrder(o, dt)
    \/ \E s \in PatchStatuses : PatchOrder(o, s)

DriverStep ==
  \E d \in Driver :
    \/ CreateDriver(d)
    \/ \E b \in ActiveInputs : SetActive(d, b)
    \/ DeleteDriver(d)
    \/ \E dt \in Date, s \in DutyInputs : UpsertAvailability(d, dt, s)

StartStep(w) ==
  \/ \E o \in Order :
       \/ DeleteOrder(w, o)
       \/ \E p \in Plan, s \in StopInputs : LoadStop(w, p, o, s)
  \/ \E dt \in Date :
       \/ PlanDay(w, dt)
       \/ PlanOptions(w, dt)
       \/ \E n \in 1..(Days - dt + 1) : PlanMultiDay(w, dt, n)
       \/ \E d \in Driver \cup {NULL} : Replan(w, dt, d)
       \/ \E p \in Plan : LoadPlan(w, p, dt)

WorkerStep(w) ==
  \/ EraseOrder(w)
  \/ ReadForOrtools(w)
  \/ ReadForGreedy(w)
  \/ SolveWrite(w)
  \/ NoSolution(w)
  \/ GreedyWrite(w)
  \/ ResetOrders(w)
  \/ PublishPlan(w)
  \/ RecordHistory(w)
  \/ UpdateStopStatus(w)
  \/ Reply(w)
  \/ Crash(w)

Next ==
  \/ OrderStep
  \/ DriverStep
  \/ \E w \in Worker : StartStep(w) \/ WorkerStep(w)

Spec == Init /\ [][Next]_vars

-----------------------------------------------------------------------------
(* Properties *)

OrderRow == [status : OrderStatus \cup {"ABSENT", "DELETED"},
             driver : Driver \cup {NULL}, date : Date]
StopRow == [route : Driver \cup {NULL},
            status : StopReport \cup {"NONE", "PENDING"}]
Request == [pc : PCs, job : AllJobs \cup {"none"}, date : Nat, left : Nat,
            orders : SUBSET Order, drivers : SUBSET Driver,
            plan : Plan \cup {NULL},
            loaded : [Order -> OrderRow], wants : [Order -> Driver \cup {NULL}],
            told : StopReport \cup {"NONE", "PENDING"},
            report : StopReport \cup {"NONE"}]
Author == {"none", "user", "planner", "replan", "confirm", "driver"}

\* The columns hold values of their types, whatever the interleaving.
TypeOK ==
  /\ order \in [Order -> OrderRow]
  /\ driver \in [Driver -> {"ABSENT", "ACTIVE", "INACTIVE", "DELETED"}]
  /\ duty \in [Driver -> [Date -> {"none", "available", "off"}]]
  /\ plan \in [Plan -> [status : {"NONE", "DRAFT", "PUBLISHED", "CANCELLED"},
                        date : Nat]]
  /\ routeDriver \in [Plan -> [Driver -> Driver \cup {NULL}]]
  /\ stop \in [Plan -> [Order -> StopRow]]
  /\ history \subseteq Plan
  /\ req \in [Worker -> Request]
  /\ author \in [Order -> [status : Author, driver : Author]]
  /\ retold \subseteq Plan \X Order

\* Rows refer to rows that exist: a stop to an order and a plan, an order's
\* and a route's driver to a driver.  Planners hold rows for up to ten seconds
\* before they write them, while orders and drivers are deleted.
ForeignKeysHold ==
  /\ \A p \in Plan, o \in Order :
       HasStop(p, o) => /\ Live(o)
                        /\ plan[p].status # "NONE"
                        /\ stop[p][o].route # NULL
  /\ \A o \in Order : order[o].driver # NULL => Live(o) /\ Employed(order[o].driver)
  /\ \A p \in Plan, d \in Driver :
       routeDriver[p][d] # NULL => Employed(routeDriver[p][d])

\* An order's assigned_driver_id never names a driver who has no stop for it:
\* the assignment and the routes are two copies of one decision, written by
\* planners, confirm, replan and the cascades of driver deletion.
Backed(o) ==
  \E p \in Plan : /\ HasStop(p, o)
                  /\ routeDriver[p][stop[p][o].route] = order[o].driver
DriverBackedByStop ==
  \A o \in Order : order[o].driver # NULL => Backed(o)

\* The orders and their stops keep two copies of an outcome.  An order is
\* DELIVERED or FAILED because a user PATCHed it so or because a driver reported
\* it, and in the second case one of its stops says the same, or says what a
\* later report on that stop said: no report is saved in one place only, no stop
\* behind an outcome is overwritten, and no request that loaded an outcome
\* before it was undone brings it back.
Tells(p, o) ==
  \/ stop[p][o].status = order[o].status
  \/ <<p, o>> \in retold /\ stop[p][o].status \in StopReport
ReportedOutcome ==
  \A o \in Order :
    order[o].status \in {"DELIVERED", "FAILED"}
      => \/ author[o].status = "user"
         \/ author[o].status = "driver" /\ \E p \in Plan : Tells(p, o)

\* The plan history names plans the drivers work from: once recorded, a plan
\* stays PUBLISHED, also when a confirm of another plan for its date races.
RecordedIsPublished ==
  \A p \in history : plan[p].status = "PUBLISHED"

\* "Order assignments are NOT applied until confirm is called": no step of a
\* plan/options or plan/multi-day request changes an order, on any path.
DryRunLeavesOrders ==
  [][\A w \in Worker :
       req[w].job \in {"options", "multiday"} /\ req'[w] # req[w]
         => UNCHANGED order]_vars

\* A PENDING order that has a driver is hidden from the planners (they ask for
\* assigned_driver_id IS NULL).  Planners, replan, confirm, the drivers' reports
\* and deletions write the two columns at different times, yet only two
\* histories hide an order: a user PATCHed it back to PENDING, or a replan reset
\* it while a confirm held it loaded as ASSIGNED and then sent the driver alone.
PendingIsPlannable ==
  \A o \in Order :
    order[o].status = "PENDING" /\ order[o].driver # NULL
      => \/ author[o].status = "user"
         \/ author[o] = [status |-> "replan", driver |-> "confirm"]

\* order.route_stop is declared one-to-one (uselist=False): an order is on one
\* route at most.
OneStopPerOrder ==
  \A o \in Order, p, q \in Plan : HasStop(p, o) /\ HasStop(q, o) => p = q

\* "already-delivered stops are locked in": replan changes no delivered order.
DeliveredLockedIn ==
  [][\A w \in Worker, o \in Order :
       At(w, "reset") /\ At(w, "read")' /\ order[o].status = "DELIVERED"
         => order'[o] = order[o]]_vars
=============================================================================
