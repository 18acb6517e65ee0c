----------------------------- MODULE Oversight -----------------------------
(***************************************************************************)
(* What watches and measures the planned day: driver positions             *)
(* (services/tracking_service.py), the monitor's warnings and their        *)
(* decisions (planners/agents/monitor_agent.py,                            *)
(* api/v1/agent_suggestions.py), and the analytics ETL with the reports    *)
(* drawn from it (services/analytics_service.py).                          *)
(*                                                                         *)
(* They meet at the stops of the published plans: drivers report on them,  *)
(* the monitor and the ETL read them first and write what they read later. *)
(* No part of the program writes delivery_events, so the ETL never knows   *)
(* an arrival.                                                             *)
(***************************************************************************)
EXTENDS Naturals, FiniteSets

CONSTANTS
  Stop, Order, Driver, Day,
  OrderOf, DriverOf, DayOf,   \* order, route driver and plan date of a stop
  Windowed,                   \* orders with a time_window_end
  Report,                     \* statuses that drivers report
  Warning,                    \* suggestion rows that can exist (bound)
  Scanner,                    \* API processes: each runs one monitor job
  Etl,                        \* run_etl calls that can overlap
  MaxRuns,                    \* run_etl calls (bound)
  NULL

ASSUME OversightAssumption ==
  /\ IsFiniteSet(Stop) /\ IsFiniteSet(Order) /\ IsFiniteSet(Warning) /\ IsFiniteSet(Scanner)
  /\ OrderOf \in [Stop -> Order]
  /\ DriverOf \in [Stop -> Driver]
  /\ DayOf \in [Stop -> Day]
  /\ Windowed \subseteq Order
  /\ Report \subseteq {"ARRIVED", "DELIVERED", "FAILED", "SKIPPED"}
  /\ MaxRuns \in Nat
  /\ NULL \notin Stop \cup Order \cup Driver \cup Day

VARIABLES
  stop,       \* route_stops.status
  employed,   \* drivers that are not deleted
  located,    \* drivers with a position in Redis
  warning,    \* agent_suggestions of type EARLY_SLA_WARNING
  scan,       \* the monitor scan of each process
  analytics,  \* delivery_analytics by order_id, which is UNIQUE (NULL: no row)
  scores,     \* driver_performance_scores; no constraint makes them unique
  etl,        \* the run_etl calls
  runs        \* run_etl calls so far

watching == <<warning, scan>>
facts == <<analytics, scores, etl, runs>>
vars == <<stop, employed, located, watching, facts>>

Active == {"PENDING", "IN_TRANSIT"}

-----------------------------------------------------------------------------
(* Drivers *)

\* update_stop_status: any report may follow any other.
ReportStop(s, st) ==
  /\ DriverOf[s] \in employed
  /\ stop' = [stop EXCEPT ![s] = st]
  /\ UNCHANGED <<employed, located, watching, facts>>

\* record_ping commits the row; a Redis that fails then costs the position.
Ping(d) ==
  /\ d \in employed
  /\ located' \in {located, located \cup {d}}
  /\ UNCHANGED <<stop, employed, watching, facts>>

\* The hour of setex passes.
Expire(d) ==
  /\ d \in located
  /\ located' = located \ {d}
  /\ UNCHANGED <<stop, employed, watching, facts>>

\* delivery_analytics.driver_id is ON DELETE SET NULL, the scores CASCADE.
DeleteDriver(d) ==
  /\ d \in employed
  /\ employed' = employed \ {d}
  /\ analytics' = [o \in Order |->
       IF analytics[o] # NULL /\ analytics[o].driver = d
       THEN [analytics[o] EXCEPT !.driver = NULL] ELSE analytics[o]]
  /\ scores' = {x \in scores : x.driver # d}
  /\ UNCHANGED <<stop, located, watching, etl, runs>>

-----------------------------------------------------------------------------
(* run_monitor_scan *)

Free == [pc |-> "idle", todo |-> {}, late |-> {}]
NoWarning == [stop |-> NULL, status |-> "NONE"]

\* The scheduler does not start a job while it runs.
StartScan(m, d) ==
  /\ scan[m].pc = "idle"
  /\ scan' = [scan EXCEPT ![m] =
       [pc |-> "scan", late |-> {},
        todo |-> {s \in Stop : /\ DayOf[s] = d /\ stop[s] \in Active
                               /\ DriverOf[s] \in employed
                               /\ OrderOf[s] \in Windowed}]]
  /\ UNCHANGED <<stop, employed, located, warning, facts>>

Warned(s, statuses) ==
  \E x \in Warning : warning[x].stop = s /\ warning[x].status \in statuses

Checked(m, s, isLate) ==
  scan' = [scan EXCEPT ![m].todo = @ \ {s},
                       ![m].late = IF isLate THEN @ \cup {s} ELSE @]

\* Mutated CheckStop: any warning is added.
CheckNothing(m, s) ==
  /\ scan[m].pc = "scan" /\ s \in scan[m].todo
  /\ \E late \in BOOLEAN : Checked(m, s, late)
  /\ UNCHANGED <<stop, employed, located, warning, facts>>

\* Position and PENDING warnings are read for each stop; how far the driver is
\* from it is any distance.  autoflush is off: added warnings are not seen.
CheckStop(m, s) ==
  /\ scan[m].pc = "scan" /\ s \in scan[m].todo
  /\ \E far \in BOOLEAN :
       Checked(m, s, far /\ DriverOf[s] \in located /\ ~Warned(s, {"PENDING"}))
  /\ UNCHANGED <<stop, employed, located, warning, facts>>

\* The one commit of all new warnings.
EndScan(m) ==
  /\ scan[m].pc = "scan" /\ scan[m].todo = {}
  /\ \E X \in SUBSET {x \in Warning : warning[x].status = "NONE"} :
       \E f \in [X -> scan[m].late] :
         /\ Cardinality(X) = Cardinality(scan[m].late)
         /\ \A s \in scan[m].late : \E x \in X : f[x] = s
         /\ warning' = [x \in Warning |->
              IF x \in X THEN [stop |-> f[x], status |-> "PENDING"] ELSE warning[x]]
  /\ scan' = [scan EXCEPT ![m] = Free]
  /\ UNCHANGED <<stop, employed, located, facts>>

\* The process dies or is redeployed in the middle of a scan.
StopScan(m) ==
  /\ scan[m].pc = "scan"
  /\ scan' = [scan EXCEPT ![m] = Free]
  /\ UNCHANGED <<stop, employed, located, warning, facts>>

\* update_suggestion does not ask whether the warning is still PENDING, nor
\* whether it has expired; accepting one only logs a notification.
Decide(x, st) ==
  /\ warning[x].status # "NONE"
  /\ warning' = [warning EXCEPT ![x].status = st]
  /\ UNCHANGED <<stop, employed, located, scan, facts>>

-----------------------------------------------------------------------------
(* run_etl *)

Quiet == [pc |-> "idle", run |-> 0, day |-> NULL,
          rows |-> {}, old |-> {}, oldScores |-> {}]
EtlAt(j, l) == etl[j].pc = l
OrdersIn(j) == {r.order : r \in etl[j].rows}
DeliveredBy(j) == {r.driver : r \in etl[j].rows} \ {NULL}
Rows == {o \in Order : analytics[o] # NULL}

\* The DELIVERED stops of the day, with their orders and routes as they are now.
StartEtl(j, d) ==
  LET delivered == {s \in Stop : DayOf[s] = d /\ stop[s] = "DELIVERED"} IN
  /\ EtlAt(j, "idle") /\ runs < MaxRuns
  /\ etl' = [etl EXCEPT ![j] =
       IF delivered = {} THEN Quiet
       ELSE [Quiet EXCEPT !.pc = "rows", !.run = runs + 1, !.day = d, !.rows =
              {[stop |-> s, order |-> OrderOf[s],
                driver |-> IF DriverOf[s] \in employed THEN DriverOf[s] ELSE NULL]
               : s \in delivered}]]
  /\ runs' = runs + 1
  /\ UNCHANGED <<stop, employed, located, watching, analytics, scores>>

\* A DELETE removes, at the commit, the rows that are there when it starts: one
\* that waits for the locks of another call's DELETE does not see the rows that
\* call has put in their place.
Deleting(j) == UNCHANGED <<stop, employed, located, watching, analytics, scores, runs>>

\* Mutated DeleteRows: the DELETE is committed at once.
DeleteRowsNow(j) ==
  /\ EtlAt(j, "rows")
  /\ etl' = [etl EXCEPT ![j].pc = "scores"]
  /\ analytics' = [o \in Order |-> IF o \in OrdersIn(j) THEN NULL ELSE analytics[o]]
  /\ UNCHANGED <<stop, employed, located, watching, scores, runs>>

\* Mutated DeleteRows: all rows of the day go.
DeleteDayRows(j) ==
  /\ EtlAt(j, "rows")
  /\ etl' = [etl EXCEPT ![j].pc = "scores",
       ![j].old = {<<o, analytics[o].run>> : o \in {p \in Rows : analytics[p].day = etl[j].day}}]
  /\ Deleting(j)

DeleteRows(j) ==
  /\ EtlAt(j, "rows")
  /\ etl' = [etl EXCEPT ![j].pc = "scores",
       ![j].old = {<<o, analytics[o].run>> : o \in Rows \cap OrdersIn(j)}]
  /\ Deleting(j)

DeleteScores(j) ==
  /\ EtlAt(j, "scores")
  /\ etl' = [etl EXCEPT ![j].pc = "commit",
       ![j].oldScores = {x \in scores : /\ x.driver \in DeliveredBy(j)
                                        /\ x.day = etl[j].day}]
  /\ Deleting(j)

\* was_on_time without an arrival: true without a window, else NULL ...
OnTime(o) == IF o \in Windowed THEN NULL ELSE TRUE

NewRow(j, r) ==
  [driver |-> r.driver, day |-> etl[j].day, onTime |-> OnTime(r.order), run |-> etl[j].run]

\* ... which a score counts as on time.
NewScore(j, d) ==
  LET orders == {r.order : r \in {q \in etl[j].rows : q.driver = d}} IN
  [driver |-> d, day |-> etl[j].day, run |-> etl[j].run, orders |-> orders,
   onTime |-> {o \in orders : OnTime(o) \in {TRUE, NULL}}]

\* order_id is UNIQUE: one row of an order, and none that the DELETE left.
RowsFree(j) ==
  /\ \A o \in Rows \cap OrdersIn(j) : <<o, analytics[o].run>> \in etl[j].old
  /\ \A r, q \in etl[j].rows : r.order = q.order => r = q

Write(j) ==
  /\ analytics' = [o \in Order |->
       IF o \in OrdersIn(j)
       THEN NewRow(j, CHOOSE r \in etl[j].rows : r.order = o) ELSE analytics[o]]
  /\ scores' = (scores \ etl[j].oldScores) \cup {NewScore(j, d) : d \in DeliveredBy(j)}

\* Mutated CommitEtl: nothing keeps order_id unique.
CommitOver(j) ==
  /\ EtlAt(j, "commit")
  /\ IF DeliveredBy(j) \subseteq employed THEN Write(j) ELSE UNCHANGED <<analytics, scores>>
  /\ etl' = [etl EXCEPT ![j] = Quiet]
  /\ UNCHANGED <<stop, employed, located, watching, runs>>

\* The flush and the COMMIT: all of it or, when a constraint refuses a row or a
\* driver is gone, nothing.
CommitEtl(j) ==
  /\ EtlAt(j, "commit")
  /\ IF RowsFree(j) /\ DeliveredBy(j) \subseteq employed
     THEN Write(j) ELSE UNCHANGED <<analytics, scores>>
  /\ etl' = [etl EXCEPT ![j] = Quiet]
  /\ UNCHANGED <<stop, employed, located, watching, runs>>

\* A deadlock, a lost connection or the end of the process.
StopEtl(j) ==
  /\ ~EtlAt(j, "idle")
  /\ etl' = [etl EXCEPT ![j] = Quiet]
  /\ UNCHANGED <<stop, employed, located, watching, analytics, scores, runs>>

-----------------------------------------------------------------------------
(* The reports: get_kpis, get_driver_performance *)

Kpis(D) ==
  LET rows == {o \in Rows : analytics[o].day \in D} IN
  [orders |-> rows, onTime |-> {o \in rows : analytics[o].onTime = TRUE}]

DriverPerformance(d, D) ==
  LET mine == {x \in scores : x.driver = d /\ x.day \in D} IN
  [orders |-> UNION {x.orders : x \in mine}, onTime |-> UNION {x.onTime : x \in mine}]

-----------------------------------------------------------------------------
Init ==
  /\ stop = [s \in Stop |-> "PENDING"]
  /\ employed = Driver
  /\ located = {}
  /\ warning = [x \in Warning |-> NoWarning]
  /\ scan = [m \in Scanner |-> Free]
  /\ analytics = [o \in Order |-> NULL]
  /\ scores = {}
  /\ etl = [j \in Etl |-> Quiet]
  /\ runs = 0

DriverStep ==
  \/ \E s \in Stop, st \in Report : ReportStop(s, st)
  \/ \E d \in Driver : Ping(d) \/ Expire(d) \/ DeleteDriver(d)

MonitorStep(m) ==
  \/ \E d \in Day : StartScan(m, d)
  \/ \E s \in Stop : CheckStop(m, s)
  \/ EndScan(m)
  \/ StopScan(m)

EtlStep(j) ==
  \/ \E d \in Day : StartEtl(j, d)
  \/ DeleteRows(j)
  \/ DeleteScores(j)
  \/ CommitEtl(j)
  \/ StopEtl(j)

Next ==
  \/ DriverStep
  \/ \E m \in Scanner : MonitorStep(m)
  \/ \E x \in Warning, st \in {"ACCEPTED", "DISMISSED"} : Decide(x, st)
  \/ \E j \in Etl : EtlStep(j)

Spec == Init /\ [][Next]_vars

-----------------------------------------------------------------------------
(* Properties *)

Scan == [pc : {"idle", "scan"}, todo : SUBSET Stop, late : SUBSET Stop]
Row == [driver : Driver \cup {NULL}, day : Day, onTime : {TRUE, NULL}, run : Nat]
ReadStop == [stop : Stop, order : Order, driver : Driver \cup {NULL}]
Score == [driver : Driver, day : Day, run : Nat,
          orders : SUBSET Order, onTime : SUBSET Order]
Call ==
  [pc : {"idle", "rows", "scores", "commit"}, run : Nat, day : Day \cup {NULL},
   rows : SUBSET ReadStop, old : SUBSET (Order \X Nat), oldScores : SUBSET Score]

ASSUME RowAssumption == NULL \notin Row

\* Columns, scans and ETL calls hold values of their types; a scan has no verdict
\* on a stop it has still to check, and a call deletes rows of its own orders.
TypeOK ==
  /\ stop \in [Stop -> {"PENDING"} \cup Report]
  /\ employed \subseteq Driver /\ located \subseteq Driver
  /\ warning \in [Warning -> [stop : Stop \cup {NULL},
                              status : {"NONE", "PENDING", "ACCEPTED", "DISMISSED"}]]
  /\ scan \in [Scanner -> Scan]
  /\ \A m \in Scanner : scan[m].todo \cap scan[m].late = {}
  /\ analytics \in [Order -> {NULL} \cup Row]
  /\ scores \subseteq Score
  /\ etl \in [Etl -> Call]
  /\ \A j \in Etl : \A p \in etl[j].old : p[1] \in OrdersIn(j)
  /\ runs \in Nat

Open(s) == {x \in Warning : warning[x].stop = s /\ warning[x].status = "PENDING"}

\* Monitor: a stop has at most one open warning for each process that runs the job,
\* whatever is decided, reported or lost during the scans.
WarningsBounded == \A s \in Stop : Cardinality(Open(s)) <= Cardinality(Scanner)

\* ETL: overlapping, failing or repeated calls never make two scores of a driver
\* count one delivery of a day, though no constraint makes scores unique.
CountedOnce ==
  \A x, y \in scores :
    x # y /\ x.driver = y.driver /\ x.day = y.day => x.orders \cap y.orders = {}

\* ETL: the two reports fit together whatever failed: a driver's performance counts
\* only deliveries that the KPIs have, and none of them as late that they have on
\* time; a row of a score's own run is of its day, and of its driver exactly when
\* the score counts it.
ScoresBacked ==
  /\ \A d \in Driver :
       LET own == DriverPerformance(d, Day) IN
       /\ own.orders \subseteq Kpis(Day).orders
       /\ own.orders \cap Kpis(Day).onTime \subseteq own.onTime
  /\ \A x \in scores, o \in Rows : analytics[o].run = x.run =>
       /\ analytics[o].day = x.day
       /\ o \in x.orders <=> analytics[o].driver = x.driver
=============
