------------------------------- MODULE Intake -------------------------------
(***************************************************************************)
(* How orders come in and customers follow them: partner deliveries        *)
(* (integrations/ingest_service.py and its adapters), order creation and   *)
(* bulk files (order_service, import_service), deletion, the retention     *)
(* sweep of integration_logs (workers/tasks.py) and tracking links         *)
(* (api/v1/public_track.py).                                               *)
(*                                                                         *)
(* ingest_order looks for a log row, creates the order and commits it,     *)
(* then commits the log row.  Nothing but that row makes it idempotent,    *)
(* and no constraint makes the row unique.                                 *)
(***************************************************************************)
EXTENDS Naturals, Sequences, FiniteSets

CONSTANTS
  Ref, Order,       \* partner order ids, orders that can exist (bounds)
  Worker,           \* requests that can be served at a time
  SweepColumns,     \* do the sweep's TenantConfig columns exist
  File,             \* row sequences of the files that users upload
  MaxSends,         \* deliveries of one partner order (bound)
  MaxRows,          \* rows of each other table that files fill (bound)
  NULL

ASSUME IntakeAssumption ==
  /\ IsFiniteSet(Worker)
  /\ SweepColumns \in BOOLEAN
  /\ File \subseteq Seq({"good", "incomplete", "badDate", "badNumber", "overlong"})
  /\ MaxSends \in Nat /\ MaxRows \in Nat
  /\ NULL \notin Order \cup Ref

VARIABLES
  order,     \* orders: status, token (0 is NULL; a new uuid4 is the next number)
  log,       \* integration_logs of each partner_order_id
  fleet,     \* rows that files created in drivers, vehicles and depots
  req,       \* the request each worker serves
  sends,     \* deliveries of each ref so far
  made,      \* orders they created
  unlogged,  \* of those, the ones whose request ended without their log row
  swept      \* log rows that the retention sweep deleted

tables == <<order, log, fleet>>
counts == <<sends, made, unlogged, swept>>
vars == <<tables, req, counts>>

(***************************************************************************)
(* pc is the next step of the request:                                     *)
(*   find    SELECT the log row          create  INSERT, COMMIT the order  *)
(*   record  COMMIT the log row          error   COMMIT the error row      *)
(*   mint    COMMIT a new token          link    read the token, answer    *)
(***************************************************************************)
Idle == [pc |-> "idle", ref |-> NULL, order |-> NULL]
At(w, l) == req[w].pc = l
Goto(w, l) == req' = [req EXCEPT ![w].pc = l]

\* Mutated Answer: the next request finds what this one left.
AnswerOnly(w) == req' = [req EXCEPT ![w].pc = "idle"]

Answer(w) == req' = [req EXCEPT ![w] = Idle]

Live(o) == order[o].status = "LIVE"
Unused == {o \in Order : order[o].status = "NONE"}

Inserted(S) ==
  [o \in Order |-> IF o \in S THEN [status |-> "LIVE", token |-> 0] ELSE order[o]]

-----------------------------------------------------------------------------
(* Adapters: what a flaw of the payload does to transform() and the INSERT *)

Flaw == {"none", "address", "position", "quantity", "weight", "ref",
         "dateText", "dateType", "overflow", "overlong"}

\* The flaws no default and no "except" of the adapter takes care of; overflow is a
\* number that no float, or no int, can hold.
SapRaises == {"address", "ref", "dateType", "overflow"}
ShopifyRaises == {"address", "position", "quantity", "weight", "dateType", "overflow"}
GenericRaises == {"overflow"}

Raises(f) ==
  {s \in {"SAP", "Shopify", "generic"} :
     \/ s = "SAP" /\ f \in SapRaises
     \/ s = "Shopify" /\ f \in ShopifyRaises
     \/ s = "generic" /\ f \in GenericRaises}

-----------------------------------------------------------------------------
(* POST /integrations/ingest *)

Ingest(w, r) ==
  /\ At(w, "idle") /\ sends[r] < MaxSends
  /\ req' = [req EXCEPT ![w] = [pc |-> "find", ref |-> r, order |-> NULL]]
  /\ sends' = [sends EXCEPT ![r] = @ + 1]
  /\ UNCHANGED <<tables, made, unlogged, swept>>

\* Mutated FindLog: the log row of a failed delivery does not count.
FindNormalized(w) ==
  /\ At(w, "find")
  /\ IF \A i \in DOMAIN log[req[w].ref] : ~log[req[w].ref][i].normalized
     THEN Goto(w, "create")
     ELSE Answer(w)
  /\ UNCHANGED <<tables, counts>>

\* scalar_one_or_none: no row; one, "skipped" whatever became of that delivery;
\* several raise.  Nothing is written in the last two cases.
FindLog(w) ==
  /\ At(w, "find")
  /\ IF log[req[w].ref] = <<>> THEN Goto(w, "create") ELSE Answer(w)
  /\ UNCHANGED <<tables, counts>>

\* The adapter, then create_order with its commit.  Once a flush has failed the
\* session refuses the commit of the error row too: nothing is recorded.
CreateIngested(w) ==
  /\ At(w, "create")
  /\ \E s \in {"SAP", "Shopify", "generic"}, f \in Flaw :
       \/ /\ s \notin Raises(f) /\ f # "overlong"
          /\ \E o \in Unused :
               /\ order' = Inserted({o})
               /\ req' = [req EXCEPT ![w].pc = "record", ![w].order = o]
          /\ made' = [made EXCEPT ![req[w].ref] = @ + 1]
       \/ s \in Raises(f) /\ Goto(w, "error") /\ UNCHANGED <<order, made>>
       \/ f = "overlong" /\ Answer(w) /\ UNCHANGED <<order, made>>
  /\ UNCHANGED <<log, fleet, sends, unlogged, swept>>

Logged(r, row) == log' = [log EXCEPT ![r] = Append(@, row)]
FailureRow == [normalized |-> FALSE, order |-> NULL]

\* Mutated RecordOrder: answers without committing the log row.
RecordNothing(w) ==
  /\ At(w, "record")
  /\ Answer(w)
  /\ UNCHANGED <<tables, counts>>

\* The commit fails when the ref or source_system exceeds its column (long) or
\* the order is gone, and with it that of the error row.  The error row is
\* written when the refresh in create_order was the first to miss the order.
RecordOrder(w) ==
  LET r == req[w].ref IN
  /\ At(w, "record")
  /\ \E long \in BOOLEAN :
       \/ /\ ~long /\ Live(req[w].order)
          /\ Logged(r, [normalized |-> TRUE, order |-> req[w].order])
          /\ UNCHANGED unlogged
       \/ /\ long \/ ~Live(req[w].order)
          /\ \/ UNCHANGED log
             \/ ~long /\ Logged(r, FailureRow)
          /\ unlogged' = [unlogged EXCEPT ![r] = @ + 1]
  /\ Answer(w)
  /\ UNCHANGED <<order, fleet, sends, made, swept>>

\* Answered "error"; the next delivery finds the row and is skipped.  A ref that
\* exceeds its column, or a payload that JSONB does not take, leaves no row.
RecordError(w) ==
  /\ At(w, "error")
  /\ Logged(req[w].ref, FailureRow) \/ UNCHANGED log
  /\ Answer(w)
  /\ UNCHANGED <<order, fleet, counts>>

\* The process dies under the request: what is committed stays.
Die(w) ==
  /\ ~At(w, "idle")
  /\ unlogged' = IF At(w, "record") THEN [unlogged EXCEPT ![req[w].ref] = @ + 1]
                                    ELSE unlogged
  /\ Answer(w)
  /\ UNCHANGED <<tables, sends, made, swept>>

-----------------------------------------------------------------------------
(* Orders from users and files *)

CreateOrder(o) ==
  /\ o \in Unused
  /\ order' = Inserted({o})
  /\ UNCHANGED <<log, fleet, req, counts>>

\* integration_logs.order_id is ON DELETE SET NULL.  Orders with stops are
\* Dispatch's.
DeleteOrder(o) ==
  /\ Live(o)
  /\ order' = [order EXCEPT ![o].status = "GONE"]
  /\ log' = [r \in Ref |-> [i \in DOMAIN log[r] |->
               [log[r][i] EXCEPT !.order = IF @ = o THEN NULL ELSE @]]]
  /\ UNCHANGED <<fleet, req, counts>>

\* Rows that an importer reports and leaves out.  The rest is flushed by one
\* commit, and one overlong value refuses it all.
OrderRowSkipped == {"incomplete", "badDate"}
DriverRowSkipped == {"incomplete"}
VehicleRowSkipped == {"incomplete", "badNumber"}
DepotRowSkipped == {"incomplete"}

Kept(f, skipped) == Cardinality({i \in DOMAIN f : f[i] \notin skipped})
Storing(f, skipped) ==
  \A i \in DOMAIN f : f[i] = "overlong" => f[i] \in skipped

ImportOrders(f) ==
  /\ Storing(f, OrderRowSkipped)
  /\ \E S \in SUBSET Unused :
       /\ Cardinality(S) = Kept(f, OrderRowSkipped)
       /\ order' = Inserted(S)
  /\ UNCHANGED <<log, fleet, req, counts>>

ImportRows(f, skipped) ==
  /\ Storing(f, skipped)
  /\ fleet + Kept(f, skipped) <= MaxRows
  /\ fleet' = fleet + Kept(f, skipped)
  /\ UNCHANGED <<order, log, req, counts>>

ImportDrivers(f) == ImportRows(f, DriverRowSkipped)
ImportVehicles(f) == ImportRows(f, VehicleRowSkipped)
ImportDepots(f) == ImportRows(f, DepotRowSkipped)

-----------------------------------------------------------------------------
(* integration_logs in retention_sweep_task *)

\* The shipped sweep asks TenantConfig for columns it does not have, logs the
\* exception and deletes nothing.
RetentionSweep(r, n) ==
  /\ SweepColumns /\ n \in 1..Len(log[r])
  /\ log' = [log EXCEPT ![r] = SubSeq(@, n + 1, Len(@))]
  /\ swept' = [swept EXCEPT ![r] = @ + n]
  /\ UNCHANGED <<order, fleet, req, sends, made, unlogged>>

-----------------------------------------------------------------------------
(* POST /orders/{id}/tracking-token; a link shows the order whose token it is *)

\* Mutated AskLink: draws a token although there is one.
AskNewLink(w, o) ==
  /\ At(w, "idle") /\ Live(o)
  /\ req' = [req EXCEPT ![w] = [pc |-> "mint", ref |-> NULL, order |-> o]]
  /\ UNCHANGED <<tables, counts>>

AskLink(w, o) ==
  /\ At(w, "idle") /\ Live(o)
  /\ req' = [req EXCEPT ![w] =
       [pc |-> IF order[o].token = 0 THEN "mint" ELSE "link",
        ref |-> NULL, order |-> o]]
  /\ UNCHANGED <<tables, counts>>

\* The UPDATE of a deleted order matches no row: StaleDataError.
MintToken(w) ==
  /\ At(w, "mint")
  /\ IF Live(req[w].order)
     THEN order' = [order EXCEPT ![req[w].order].token = @ + 1] /\ Goto(w, "link")
     ELSE Answer(w) /\ UNCHANGED order
  /\ UNCHANGED <<log, fleet, counts>>

\* The commit expired the row: the answer holds the token that is there now, or
\* ObjectDeletedError.
GiveLink(w) ==
  /\ At(w, "link")
  /\ Answer(w)
  /\ UNCHANGED <<tables, counts>>

-----------------------------------------------------------------------------
Init ==
  /\ order = [o \in Order |-> [status |-> "NONE", token |-> 0]]
  /\ log = [r \in Ref |-> <<>>]
  /\ fleet = 0
  /\ req = [w \in Worker |-> Idle]
  /\ sends = [r \in Ref |-> 0] /\ made = [r \in Ref |-> 0]
  /\ unlogged = [r \in Ref |-> 0] /\ swept = [r \in Ref |-> 0]

Request(w) ==
  \/ \E r \in Ref : Ingest(w, r)
  \/ FindLog(w)
  \/ CreateIngested(w)
  \/ RecordOrder(w)
  \/ RecordError(w)
  \/ \E o \in Order : AskLink(w, o)
  \/ MintToken(w)
  \/ GiveLink(w)
  \/ Die(w)

Upload(f) ==
  \/ ImportOrders(f)
  \/ ImportDrivers(f)
  \/ ImportVehicles(f)
  \/ ImportDepots(f)

Next ==
  \/ \E w \in Worker : Request(w)
  \/ \E o \in Order : CreateOrder(o) \/ DeleteOrder(o)
  \/ \E f \in File : Upload(f)
  \/ \E r \in Ref, n \in 1..MaxSends : RetentionSweep(r, n)

Spec == Init /\ [][Next]_vars

-----------------------------------------------------------------------------
(* Properties *)

Row == [normalized : BOOLEAN, order : Order \cup {NULL}]

Handler ==
  [pc : {"idle"}, ref : {NULL}, order : {NULL}]
    \cup [pc : {"find", "create", "error"}, ref : Ref, order : {NULL}]
    \cup [pc : {"record"}, ref : Ref, order : Order]
    \cup [pc : {"mint", "link"}, ref : {NULL}, order : Order]

\* Columns and requests hold values of their types.
TypeOK ==
  /\ order \in [Order -> [status : {"NONE", "LIVE", "GONE"}, token : Nat]]
  /\ log \in [Ref -> Seq(Row)]
  /\ fleet \in Nat
  /\ req \in [Worker -> Handler]
  /\ {sends, made, unlogged, swept} \subseteq [Ref -> Nat]

\* Ingest: however often a partner repeats an order, it leaves at most as many log
\* rows as deliveries overlap; one that starts after the first row adds none.
LogsBounded == \A r \in Ref : Len(log[r]) <= Cardinality(Worker)

\* Ingest: orders of one partner order beyond the number of overlapping deliveries
\* are explained by log rows that were lost after the order's own commit
\* (crash, overlong value, deleted order) or swept.
OrdersAccounted ==
  \A r \in Ref : made[r] <= Cardinality(Worker) + unlogged[r] + swept[r]

\* Tracking: an order's link changes at most as often as requests for it overlap;
\* a request that starts when there is a link never replaces it.
LinksBounded == \A o \in Order : order[o].token <= Cardinality(Worker)
=============================================================================
