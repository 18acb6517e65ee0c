---------------------------- MODULE IntakeProofs ----------------------------
(***************************************************************************)
(* Safety of the intake of orders for any partner orders, orders, files,   *)
(* and finite set of workers.                                              *)
(*                                                                         *)
(* The bounds count who may still write: rows of a partner order and       *)
(* deliveries of it that found none (LogBudget), orders and the rows that  *)
(* explain them (MadeBudget), tokens and requests that found none          *)
(* (TokenBudget).                                                          *)
(***************************************************************************)
EXTENDS Intake, FiniteSetTheorems, TLAPS

\* Deliveries of r that found no log row and have not answered.
Recorders(r) ==
  {w \in Worker : req[w].pc \in {"create", "record", "error"} /\ req[w].ref = r}

\* Those of them that have created their order.
Recording(r) == {w \in Worker : req[w].pc = "record" /\ req[w].ref = r}

\* Requests that found order o without a token.
Minting(o) == {w \in Worker : req[w].pc = "mint" /\ req[w].order = o}

LogBudget ==
  \A r \in Ref : Len(log[r]) + Cardinality(Recorders(r)) <= Cardinality(Worker)

MadeBudget ==
  \A r \in Ref :
    made[r] <= Len(log[r]) + Cardinality(Recording(r)) + unlogged[r] + swept[r]

TokenBudget ==
  \A o \in Order : order[o].token + Cardinality(Minting(o)) <= Cardinality(Worker)

IInv == TypeOK /\ LogBudget /\ MadeBudget /\ TokenBudget

-----------------------------------------------------------------------------
(* Counting *)

LEMMA Subsets ==
  ASSUME NEW S, IsFiniteSet(S), NEW T \in SUBSET S
  PROVE /\ IsFiniteSet(T) /\ Cardinality(T) \in Nat /\ Cardinality(S) \in Nat
        /\ Cardinality(T) <= Cardinality(S)
BY FS_Subset, FS_CardinalityType

\* One member fewer.
LEMMA Leaving ==
  ASSUME NEW S, IsFiniteSet(S), NEW x \in S, NEW T \in SUBSET (S \ {x})
  PROVE /\ Cardinality(S) \in Nat /\ Cardinality(T) \in Nat
        /\ Cardinality(T) + 1 <= Cardinality(S)
<1>1. IsFiniteSet(S \ {x}) /\ Cardinality(S \ {x}) = Cardinality(S) - 1
  BY FS_RemoveElement
<1>2. /\ Cardinality(S) \in Nat /\ Cardinality(S \ {x}) \in Nat
  BY <1>1, FS_CardinalityType
<1>3. Cardinality(T) \in Nat /\ Cardinality(T) <= Cardinality(S \ {x})
  BY <1>1, Subsets
<1> QED
  BY <1>1, <1>2, <1>3

\* One member more at most.
LEMMA Joining ==
  ASSUME NEW S, IsFiniteSet(S), NEW x, NEW T \in SUBSET (S \cup {x})
  PROVE /\ Cardinality(S) \in Nat /\ Cardinality(T) \in Nat
        /\ Cardinality(T) <= Cardinality(S) + 1
<1>1. /\ IsFiniteSet(S \cup {x})
      /\ \/ Cardinality(S \cup {x}) = Cardinality(S)
         \/ Cardinality(S \cup {x}) = Cardinality(S) + 1
  BY FS_AddElement, Zenon
<1>2. /\ Cardinality(S) \in Nat /\ Cardinality(S \cup {x}) \in Nat
  BY <1>1, FS_CardinalityType
<1>3. Cardinality(T) \in Nat /\ Cardinality(T) <= Cardinality(S \cup {x})
  BY <1>1, Subsets
<1> QED
  BY <1>1, <1>2, <1>3

LEMMA WorkerSets ==
  ASSUME TypeOK
  PROVE /\ \A r \in Ref : Recorders(r) \in SUBSET Worker
        /\ \A r \in Ref : Recording(r) \in SUBSET Recorders(r)
        /\ \A o \in Order : Minting(o) \in SUBSET Worker
        /\ IsFiniteSet(Worker)
BY IntakeAssumption DEF Recorders, Recording, Minting

-----------------------------------------------------------------------------
(* Requests *)

\* The step gives worker w the request h and leaves the others theirs.
Moves(w, h) ==
  /\ h \in Handler
  /\ req' \in [Worker -> Handler]
  /\ req'[w] = h
  /\ \A v \in Worker : v # w => req'[v] = req[v]

LEMMA SetMoves ==
  ASSUME TypeOK, NEW w \in Worker, NEW h \in Handler, req' = [req EXCEPT ![w] = h]
  PROVE Moves(w, h)
BY DEF TypeOK, Moves

LEMMA IdleHandler == Idle \in Handler /\ Idle.pc = "idle"
BY DEF Idle, Handler

LEMMA AnswerMoves ==
  ASSUME TypeOK, NEW w \in Worker, Answer(w)
  PROVE Moves(w, Idle)
BY SetMoves, IdleHandler DEF Answer

LEMMA RequestShape ==
  ASSUME NEW h \in Handler
  PROVE /\ h = [pc |-> h.pc, ref |-> h.ref, order |-> h.order]
        /\ h.pc \in {"find", "create", "error"} => h.ref \in Ref /\ h.order = NULL
        /\ h.pc = "record" => h.ref \in Ref /\ h.order \in Order
        /\ h.pc \in {"mint", "link"} => h.ref = NULL /\ h.order \in Order
BY DEF Handler

LEMMA CreatedHandler ==
  ASSUME NEW h \in Handler, NEW o
  PROVE [h EXCEPT !.pc = "record", !.order = o] = [pc |-> "record", ref |-> h.ref, order |-> o]
<1>1. h = [pc |-> h.pc, ref |-> h.ref, order |-> h.order]
  BY RequestShape
<1>2. [h EXCEPT !.pc = "record"] = [pc |-> "record", ref |-> h.ref, order |-> h.order]
  BY <1>1
<1>3. [[pc |-> "record", ref |-> h.ref, order |-> h.order] EXCEPT !.order = o]
        = [pc |-> "record", ref |-> h.ref, order |-> o]
  OBVIOUS
<1> QED
  BY <1>2, <1>3

LEMMA GotoMoves ==
  ASSUME TypeOK, NEW w \in Worker, NEW l, Goto(w, l),
         [pc |-> l, ref |-> req[w].ref, order |-> req[w].order] \in Handler
  PROVE Moves(w, [pc |-> l, ref |-> req[w].ref, order |-> req[w].order])
<1> DEFINE h == [pc |-> l, ref |-> req[w].ref, order |-> req[w].order]
<1>1. req[w] \in Handler /\ req \in [Worker -> Handler]
  BY DEF TypeOK
<1>2. req[w] = [pc |-> req[w].pc, ref |-> req[w].ref, order |-> req[w].order]
  BY <1>1, RequestShape
<1>3. [req[w] EXCEPT !.pc = l] = h
  BY <1>2
<1>4. req' = [req EXCEPT ![w] = h]
  BY <1>1, <1>3 DEF Goto
<1> QED
  BY <1>4, SetMoves

-----------------------------------------------------------------------------
(* Types *)

LEMMA InitTyped == Init => TypeOK
<1> SUFFICES ASSUME Init PROVE TypeOK
  OBVIOUS
<1>1. \A r \in Ref : <<>> \in Seq(Row)
  OBVIOUS
<1> QED
  BY <1>1, IdleHandler DEF Init, TypeOK

LEMMA InsertedTyped ==
  ASSUME TypeOK, NEW S
  PROVE Inserted(S) \in [Order -> [status : {"NONE", "LIVE", "GONE"}, token : Nat]]
BY DEF TypeOK, Inserted

LEMMA LoggedTyped ==
  ASSUME TypeOK, NEW r \in Ref, NEW x \in Row, Logged(r, x)
  PROVE /\ log' \in [Ref -> Seq(Row)]
        /\ Len(log'[r]) = Len(log[r]) + 1
        /\ \A q \in Ref : q # r => log'[q] = log[q]
<1>1. log \in [Ref -> Seq(Row)] /\ log[r] \in Seq(Row)
  BY DEF TypeOK
<1>2. Append(log[r], x) \in Seq(Row) /\ Len(Append(log[r], x)) = Len(log[r]) + 1
  BY <1>1
<1>3. log' = [log EXCEPT ![r] = Append(log[r], x)]
  BY DEF Logged
<1> QED
  BY <1>1, <1>2, <1>3

LEMMA CountTyped ==
  ASSUME NEW f \in [Ref -> Nat], NEW r \in Ref, NEW n \in Nat
  PROVE [f EXCEPT ![r] = @ + n] \in [Ref -> Nat]
OBVIOUS

\* Tables and counters of a step that has typed them and moves one worker.
LEMMA TypedByParts ==
  ASSUME order' \in [Order -> [status : {"NONE", "LIVE", "GONE"}, token : Nat]],
         log' \in [Ref -> Seq(Row)], fleet' \in Nat, req' \in [Worker -> Handler],
         sends' \in [Ref -> Nat], made' \in [Ref -> Nat],
         unlogged' \in [Ref -> Nat], swept' \in [Ref -> Nat]
  PROVE TypeOK'
BY DEF TypeOK

LEMMA IngestStep ==
  ASSUME TypeOK, NEW w \in Worker, NEW r \in Ref, Ingest(w, r)
  PROVE /\ TypeOK'
        /\ \E h \in Handler : Moves(w, h) /\ h.pc = "find"
        /\ UNCHANGED <<tables, made, unlogged, swept>>
<1> DEFINE h == [pc |-> "find", ref |-> r, order |-> NULL]
<1>1. h \in Handler /\ h.pc = "find"
  BY DEF Handler
<1>2. Moves(w, h)
  BY <1>1, SetMoves DEF Ingest
<1>3. sends' \in [Ref -> Nat]
  BY CountTyped DEF Ingest, TypeOK
<1> HIDE DEF h
<1>4. TypeOK'
  BY <1>2, <1>3 DEF TypeOK, Ingest, tables, Moves
<1> QED
  BY <1>1, <1>2, <1>4 DEF Ingest

LEMMA FindLogStep ==
  ASSUME TypeOK, NEW w \in Worker, FindLog(w)
  PROVE /\ TypeOK'
        /\ UNCHANGED <<tables, counts>>
        /\ At(w, "find")
        /\ \/ Moves(w, Idle)
           \/ /\ req[w].ref \in Ref /\ log[req[w].ref] = <<>>
              /\ Moves(w, [pc |-> "create", ref |-> req[w].ref, order |-> NULL])
<1>1. req[w] \in Handler
  BY DEF TypeOK
<1>2. /\ req[w].ref \in Ref /\ req[w].order = NULL
      /\ [pc |-> "create", ref |-> req[w].ref, order |-> req[w].order] \in Handler
  BY <1>1, RequestShape DEF FindLog, At, Handler
<1>3. \/ Moves(w, Idle)
      \/ /\ log[req[w].ref] = <<>>
         /\ Moves(w, [pc |-> "create", ref |-> req[w].ref, order |-> NULL])
  BY <1>2, GotoMoves, AnswerMoves DEF FindLog
<1>4. TypeOK'
  BY <1>3 DEF TypeOK, FindLog, tables, counts, Moves
<1> QED
  BY <1>2, <1>3, <1>4 DEF FindLog

LEMMA CreateStep ==
  ASSUME TypeOK, NEW w \in Worker, CreateIngested(w)
  PROVE /\ TypeOK'
        /\ At(w, "create") /\ req[w].ref \in Ref
        /\ UNCHANGED <<log, unlogged, swept>>
        /\ \/ /\ \E o \in Order :
                 Moves(w, [pc |-> "record", ref |-> req[w].ref, order |-> o])
              /\ made' = [made EXCEPT ![req[w].ref] = @ + 1]
              /\ \E S : order' = Inserted(S)
           \/ /\ \/ Moves(w, Idle)
                 \/ Moves(w, [pc |-> "error", ref |-> req[w].ref, order |-> NULL])
              /\ UNCHANGED <<made, order>>
<1>1. req[w] \in Handler /\ req \in [Worker -> Handler] /\ req[w].pc = "create"
  BY DEF TypeOK, CreateIngested, At
<1>2. /\ req[w].ref \in Ref /\ req[w].order = NULL
      /\ req[w] = [pc |-> req[w].pc, ref |-> req[w].ref, order |-> req[w].order]
  BY <1>1, RequestShape
<1> DEFINE e == [pc |-> "error", ref |-> req[w].ref, order |-> NULL]
           c(o) == [pc |-> "record", ref |-> req[w].ref, order |-> o]
<1>3. e \in Handler /\ \A o \in Order : c(o) \in Handler
  BY <1>2 DEF Handler
<1>4. CASE \E o \in Unused :
             /\ order' = Inserted({o})
             /\ req' = [req EXCEPT ![w].pc = "record", ![w].order = o]
             /\ made' = [made EXCEPT ![req[w].ref] = @ + 1]
  <2>1. PICK o \in Unused :
             /\ order' = Inserted({o})
             /\ req' = [req EXCEPT ![w].pc = "record", ![w].order = o]
             /\ made' = [made EXCEPT ![req[w].ref] = @ + 1]
    BY <1>4
  <2>2. o \in Order
    BY DEF Unused
  <2>3. [req[w] EXCEPT !.pc = "record", !.order = o] = c(o)
    BY <1>1, CreatedHandler
  <2>4. req' = [req EXCEPT ![w] = c(o)]
    BY <1>1, <2>1, <2>3
  <2>5. Moves(w, c(o))
    BY <1>3, <2>2, <2>4, SetMoves
  <2>6. made' \in [Ref -> Nat] /\ order' \in [Order -> [status : {"NONE", "LIVE", "GONE"}, token : Nat]]
    BY <1>2, <2>1, CountTyped, InsertedTyped DEF TypeOK
  <2>7. TypeOK'
    BY <2>5, <2>6 DEF TypeOK, CreateIngested, Moves
  <2> QED
    BY <1>1, <1>2, <2>1, <2>2, <2>5, <2>7 DEF CreateIngested
<1>5. CASE (Goto(w, "error") \/ Answer(w)) /\ UNCHANGED <<order, made>>
  <2>1. Moves(w, Idle) \/ Moves(w, e)
    BY <1>2, <1>3, <1>5, AnswerMoves, GotoMoves
  <2>2. TypeOK'
    BY <1>5, <2>1 DEF TypeOK, CreateIngested, Moves
  <2> QED
    BY <1>1, <1>2, <1>5, <2>1, <2>2 DEF CreateIngested
<1> QED
  BY <1>4, <1>5 DEF CreateIngested

LEMMA RecordOrderStep ==
  ASSUME TypeOK, NEW w \in Worker, RecordOrder(w)
  PROVE /\ TypeOK'
        /\ At(w, "record") /\ req[w].ref \in Ref
        /\ Moves(w, Idle)
        /\ UNCHANGED <<order, made, swept>>
        /\ \/ (\E x \in Row : Logged(req[w].ref, x)) /\ UNCHANGED unlogged
           \/ /\ UNCHANGED log \/ \E x \in Row : Logged(req[w].ref, x)
              /\ unlogged' = [unlogged EXCEPT ![req[w].ref] = @ + 1]
<1> DEFINE r == req[w].ref
<1>1. req[w] \in Handler /\ r \in Ref /\ req[w].order \in Order
  BY RequestShape DEF TypeOK, RecordOrder, At
<1>2. /\ FailureRow \in Row
      /\ [normalized |-> TRUE, order |-> req[w].order] \in Row
  BY <1>1 DEF FailureRow, Row
<1>3. \/ (\E x \in Row : Logged(r, x)) /\ UNCHANGED unlogged
      \/ /\ UNCHANGED log \/ \E x \in Row : Logged(r, x)
         /\ unlogged' = [unlogged EXCEPT ![r] = @ + 1]
  BY <1>2 DEF RecordOrder
<1>4. Moves(w, Idle)
  BY AnswerMoves DEF RecordOrder
<1>5. log' \in [Ref -> Seq(Row)]
  BY <1>1, <1>3, LoggedTyped DEF TypeOK
<1>6. unlogged' \in [Ref -> Nat]
  <2>1. unlogged \in [Ref -> Nat]
    BY DEF TypeOK
  <2> HIDE DEF r
  <2>2. [unlogged EXCEPT ![r] = @ + 1] \in [Ref -> Nat]
    BY <1>1, <2>1, CountTyped
  <2> QED
    BY <1>3, <2>1, <2>2
<1>7. TypeOK'
  BY <1>4, <1>5, <1>6 DEF TypeOK, RecordOrder, Moves
<1> QED
  BY <1>1, <1>3, <1>4, <1>7 DEF RecordOrder

LEMMA RecordErrorStep ==
  ASSUME TypeOK, NEW w \in Worker, RecordError(w)
  PROVE /\ TypeOK'
        /\ At(w, "error") /\ req[w].ref \in Ref
        /\ Moves(w, Idle)
        /\ UNCHANGED <<order, made, unlogged, swept>>
        /\ UNCHANGED log \/ \E x \in Row : Logged(req[w].ref, x)
<1>1. req[w].ref \in Ref
  BY RequestShape DEF TypeOK, RecordError, At
<1>2. UNCHANGED log \/ \E x \in Row : Logged(req[w].ref, x)
  BY DEF RecordError, FailureRow, Row
<1>3. log' \in [Ref -> Seq(Row)]
  BY <1>1, <1>2, LoggedTyped DEF TypeOK
<1>4. Moves(w, Idle)
  BY AnswerMoves DEF RecordError
<1>5. TypeOK'
  BY <1>3, <1>4 DEF TypeOK, RecordError, Moves, counts
<1> QED
  BY <1>1, <1>2, <1>4, <1>5 DEF RecordError, counts

LEMMA DieStep ==
  ASSUME TypeOK, NEW w \in Worker, Die(w)
  PROVE /\ TypeOK'
        /\ Moves(w, Idle)
        /\ UNCHANGED <<tables, made, swept>>
        /\ IF At(w, "record")
           THEN req[w].ref \in Ref /\ unlogged' = [unlogged EXCEPT ![req[w].ref] = @ + 1]
           ELSE UNCHANGED unlogged
<1>1. At(w, "record") => req[w].ref \in Ref
  BY RequestShape DEF TypeOK, At
<1>2. unlogged' \in [Ref -> Nat]
  BY <1>1, CountTyped DEF TypeOK, Die
<1>3. Moves(w, Idle)
  BY AnswerMoves DEF Die
<1>4. TypeOK'
  BY <1>2, <1>3 DEF TypeOK, Die, Moves, tables
<1> QED
  BY <1>1, <1>3, <1>4 DEF Die

LEMMA AskLinkStep ==
  ASSUME TypeOK, NEW w \in Worker, NEW o \in Order, AskLink(w, o)
  PROVE /\ TypeOK'
        /\ UNCHANGED <<tables, counts>>
        /\ \/ order[o].token = 0 /\ Moves(w, [pc |-> "mint", ref |-> NULL, order |-> o])
           \/ Moves(w, [pc |-> "link", ref |-> NULL, order |-> o])
<1>1. /\ [pc |-> "mint", ref |-> NULL, order |-> o] \in Handler
      /\ [pc |-> "link", ref |-> NULL, order |-> o] \in Handler
  BY DEF Handler
<1>2. CASE order[o].token = 0
  <2>1. Moves(w, [pc |-> "mint", ref |-> NULL, order |-> o])
    BY <1>1, <1>2, SetMoves DEF AskLink
  <2> QED
    BY <1>2, <2>1 DEF AskLink, TypeOK, Moves, tables, counts
<1>3. CASE order[o].token # 0
  <2>1. Moves(w, [pc |-> "link", ref |-> NULL, order |-> o])
    BY <1>1, <1>3, SetMoves DEF AskLink
  <2> QED
    BY <2>1 DEF AskLink, TypeOK, Moves, tables, counts
<1> QED
  BY <1>2, <1>3

LEMMA MintTokenStep ==
  ASSUME TypeOK, NEW w \in Worker, MintToken(w)
  PROVE /\ TypeOK'
        /\ At(w, "mint") /\ req[w].order \in Order
        /\ UNCHANGED <<log, counts>>
        /\ \/ /\ Moves(w, [pc |-> "link", ref |-> NULL, order |-> req[w].order])
              /\ order' = [order EXCEPT ![req[w].order].token = @ + 1]
           \/ Moves(w, Idle) /\ UNCHANGED order
<1>1. req[w] \in Handler
  BY DEF TypeOK
<1>2. /\ req[w].order \in Order /\ req[w].ref = NULL
      /\ [pc |-> "link", ref |-> req[w].ref, order |-> req[w].order] \in Handler
  BY <1>1, RequestShape DEF MintToken, At, Handler
<1>3. CASE Live(req[w].order)
  <2>1. Moves(w, [pc |-> "link", ref |-> NULL, order |-> req[w].order])
    BY <1>2, <1>3, GotoMoves DEF MintToken
  <2>2. order[req[w].order] \in [status : {"NONE", "LIVE", "GONE"}, token : Nat]
    BY <1>2 DEF TypeOK
  <2>3. [order[req[w].order] EXCEPT !.token = @ + 1]
          \in [status : {"NONE", "LIVE", "GONE"}, token : Nat]
    BY <2>2
  <2>4. order' \in [Order -> [status : {"NONE", "LIVE", "GONE"}, token : Nat]]
    BY <1>2, <1>3, <2>3 DEF MintToken, TypeOK
  <2>5. TypeOK'
    BY <2>1, <2>4 DEF MintToken, TypeOK, Moves, counts
  <2> QED
    BY <1>2, <1>3, <2>1, <2>5 DEF MintToken
<1>4. CASE ~Live(req[w].order)
  <2>1. Moves(w, Idle)
    BY <1>4, AnswerMoves DEF MintToken
  <2>2. TypeOK'
    BY <1>4, <2>1 DEF MintToken, TypeOK, Moves, counts
  <2> QED
    BY <1>2, <1>4, <2>1, <2>2 DEF MintToken
<1> QED
  BY <1>3, <1>4

LEMMA GiveLinkStep ==
  ASSUME TypeOK, NEW w \in Worker, GiveLink(w)
  PROVE TypeOK' /\ Moves(w, Idle) /\ UNCHANGED <<tables, counts>>
BY AnswerMoves DEF GiveLink, TypeOK, Moves, tables, counts

LEMMA KeptTyped ==
  ASSUME NEW f \in File, NEW skipped
  PROVE Kept(f, skipped) \in Nat
<1>1. DOMAIN f = 1..Len(f) /\ Len(f) \in Nat
  BY IntakeAssumption
<1>2. IsFiniteSet(DOMAIN f)
  BY <1>1, FS_Interval
<1> QED
  BY <1>2, Subsets DEF Kept

LEMMA ImportStep ==
  ASSUME TypeOK, NEW f \in File, Upload(f)
  PROVE /\ TypeOK'
        /\ UNCHANGED <<log, req, counts>>
        /\ UNCHANGED order \/ \E S : order' = Inserted(S)
<1>1. CASE ImportOrders(f)
  <2>1. \E S : order' = Inserted(S)
    BY <1>1 DEF ImportOrders
  <2> QED
    BY <1>1, <2>1, InsertedTyped DEF ImportOrders, TypeOK, counts
<1>2. ASSUME NEW skipped, ImportRows(f, skipped)
      PROVE TypeOK' /\ UNCHANGED <<order, log, req, counts>>
  BY <1>2, KeptTyped DEF ImportRows, TypeOK, counts
<1> QED
  BY <1>1, <1>2 DEF Upload, ImportDrivers, ImportVehicles, ImportDepots

LEMMA DeleteOrderStep ==
  ASSUME TypeOK, NEW o \in Order, DeleteOrder(o)
  PROVE /\ TypeOK'
        /\ UNCHANGED <<req, counts>>
        /\ \A r \in Ref : Len(log'[r]) = Len(log[r])
        /\ \A p \in Order : order'[p].token = order[p].token
<1>1. ASSUME NEW r \in Ref
      PROVE log'[r] \in Seq(Row) /\ Len(log'[r]) = Len(log[r])
  <2> DEFINE row(i) == [log[r][i] EXCEPT !.order = IF @ = o THEN NULL ELSE @]
  <2>1. log[r] \in Seq(Row) /\ DOMAIN log[r] = 1..Len(log[r]) /\ Len(log[r]) \in Nat
    BY DEF TypeOK
  <2>2. ASSUME NEW i \in 1..Len(log[r]) PROVE row(i) \in Row
    <3>1. log[r][i] \in Row
      BY <2>1
    <3>2. CASE log[r][i].order = o
      BY <3>1, <3>2 DEF Row
    <3>3. CASE log[r][i].order # o
      BY <3>1, <3>3 DEF Row
    <3> QED
      BY <3>2, <3>3
  <2>3. log'[r] = [i \in 1..Len(log[r]) |-> row(i)]
    BY <2>1 DEF DeleteOrder
  <2> HIDE DEF row
  <2> QED
    BY <2>1, <2>2, <2>3
<1>2. log' \in [Ref -> Seq(Row)]
  <2>1. log' = [r \in Ref |-> log'[r]]
    BY DEF DeleteOrder
  <2> QED
    BY <1>1, <2>1
<1>3. order[o] \in [status : {"NONE", "LIVE", "GONE"}, token : Nat]
  BY DEF TypeOK
<1>4. /\ [order[o] EXCEPT !.status = "GONE"] \in [status : {"NONE", "LIVE", "GONE"}, token : Nat]
      /\ [order[o] EXCEPT !.status = "GONE"].token = order[o].token
  BY <1>3
<1>5. /\ order' \in [Order -> [status : {"NONE", "LIVE", "GONE"}, token : Nat]]
      /\ \A p \in Order : order'[p].token = order[p].token
  BY <1>4 DEF DeleteOrder, TypeOK
<1>6. TypeOK'
  BY <1>2, <1>5 DEF DeleteOrder, TypeOK, counts
<1> QED
  BY <1>1, <1>5, <1>6 DEF DeleteOrder

LEMMA SweepStep ==
  ASSUME TypeOK, NEW r \in Ref, NEW n \in Nat, RetentionSweep(r, n)
  PROVE /\ TypeOK'
        /\ UNCHANGED <<order, req, made, unlogged>>
        /\ Len(log'[r]) = Len(log[r]) - n /\ Len(log[r]) \in Nat
        /\ \A q \in Ref : q # r => log'[q] = log[q]
        /\ swept' = [swept EXCEPT ![r] = @ + n]
<1>1. log[r] \in Seq(Row) /\ log \in [Ref -> Seq(Row)] /\ Len(log[r]) \in Nat
  BY DEF TypeOK
<1>2. n \in 1..Len(log[r])
  BY DEF RetentionSweep
<1> DEFINE s == SubSeq(log[r], n + 1, Len(log[r]))
<1>3. s \in Seq(Row) /\ Len(s) = Len(log[r]) - n
  BY <1>1, <1>2
<1>4. log' = [log EXCEPT ![r] = s]
  BY DEF RetentionSweep
<1> HIDE DEF s
<1>5. swept' \in [Ref -> Nat]
  BY CountTyped DEF TypeOK, RetentionSweep
<1>6. /\ log' \in [Ref -> Seq(Row)] /\ log'[r] = s
      /\ \A q \in Ref : q # r => log'[q] = log[q]
  BY <1>1, <1>3, <1>4
<1>7. TypeOK'
  BY <1>5, <1>6 DEF TypeOK, RetentionSweep
<1> QED
  BY <1>1, <1>3, <1>6, <1>7 DEF RetentionSweep

LEMMA CreateOrderStep ==
  ASSUME TypeOK, NEW o \in Order, CreateOrder(o)
  PROVE TypeOK' /\ UNCHANGED <<log, req, counts>> /\ \E S : order' = Inserted(S)
BY InsertedTyped DEF CreateOrder, TypeOK, counts

LEMMA TypedStep ==
  ASSUME TypeOK, [Next]_vars
  PROVE TypeOK'
<1>1. CASE UNCHANGED vars
  BY <1>1 DEF TypeOK, vars, tables, counts
<1>2. ASSUME NEW w \in Worker, Request(w) PROVE TypeOK'
  BY <1>2, IngestStep, FindLogStep, CreateStep, RecordOrderStep, RecordErrorStep,
     DieStep, AskLinkStep, MintTokenStep, GiveLinkStep DEF Request
<1>3. ASSUME NEW o \in Order, CreateOrder(o) \/ DeleteOrder(o) PROVE TypeOK'
  BY <1>3, CreateOrderStep, DeleteOrderStep
<1>4. ASSUME NEW r \in Ref, NEW n \in 1..MaxSends, RetentionSweep(r, n) PROVE TypeOK'
  <2>1. n \in Nat
    BY IntakeAssumption
  <2> QED
    BY <1>4, <2>1, SweepStep
<1> QED
  BY <1>1, <1>2, <1>3, <1>4, ImportStep DEF Next

\* Rows and requests keep their types.
THEOREM IntakeTyped == Spec => []TypeOK
<1>1. Init => TypeOK
  BY InitTyped
<1>2. TypeOK /\ [Next]_vars => TypeOK'
  BY TypedStep
<1> QED
  BY <1>1, <1>2, PTL DEF Spec
-----------------------------------------------------------------------------
(* Log rows and orders *)

\* A worker that does not become a recorder of some r: no one joins.
LEMMA NoRecorderJoins ==
  ASSUME NEW w \in Worker, NEW h, Moves(w, h), NEW r \in Ref,
         h.pc \in {"create", "record", "error"} /\ h.ref = r => w \in Recorders(r)
  PROVE Recorders(r)' \subseteq Recorders(r)
BY DEF Moves, Recorders

LEMMA RecorderLeaves ==
  ASSUME NEW w \in Worker, Moves(w, Idle), NEW r \in Ref
  PROVE /\ Recorders(r)' \subseteq Recorders(r) \ {w}
        /\ Recording(r)' = Recording(r) \ {w}
BY IdleHandler DEF Moves, Recorders, Recording

\* Recording changes by the moved worker only.
LEMMA RecordingMoves ==
  ASSUME NEW w \in Worker, NEW h, Moves(w, h), NEW r \in Ref
  PROVE Recording(r)' = IF h.pc = "record" /\ h.ref = r
                        THEN Recording(r) \cup {w} ELSE Recording(r) \ {w}
BY DEF Moves, Recording

\* Both budgets of one partner order, as a step keeps them.
Balanced(r) ==
  /\ Len(log[r]) + Cardinality(Recorders(r)) <= Cardinality(Worker)
  /\ made[r] <= Len(log[r]) + Cardinality(Recording(r)) + unlogged[r] + swept[r]

LEMMA Numbers ==
  ASSUME TypeOK, NEW r \in Ref
  PROVE /\ Len(log[r]) \in Nat /\ made[r] \in Nat /\ unlogged[r] \in Nat /\ swept[r] \in Nat
        /\ IsFiniteSet(Recorders(r)) /\ IsFiniteSet(Recording(r))
        /\ Cardinality(Recorders(r)) \in Nat /\ Cardinality(Recording(r)) \in Nat
        /\ Cardinality(Recorders(r)) <= Cardinality(Worker)
        /\ Cardinality(Worker) \in Nat
<1>1. Recorders(r) \in SUBSET Worker /\ Recording(r) \in SUBSET Worker /\ IsFiniteSet(Worker)
  BY WorkerSets
<1> QED
  BY <1>1, Subsets DEF TypeOK

\* A step that leaves rows and counters alone, lets nobody join and nobody who
\* created an order go.
LEMMA QuietBalanced ==
  ASSUME TypeOK, TypeOK', NEW r \in Ref, Balanced(r),
         Recorders(r)' \subseteq Recorders(r), Recording(r) = Recording(r)',
         Len(log'[r]) = Len(log[r]), made'[r] = made[r],
         unlogged'[r] = unlogged[r], swept'[r] = swept[r]
  PROVE Balanced(r)'
<1>1. /\ Len(log[r]) \in Nat
      /\ Cardinality(Recorders(r)') \in Nat /\ Cardinality(Recorders(r)) \in Nat
      /\ Cardinality(Recorders(r)') <= Cardinality(Recorders(r))
      /\ Cardinality(Worker) \in Nat
  BY Numbers, Subsets
<1> QED
  BY <1>1 DEF Balanced

\* A delivery ends: its row is added, or its order counts as unlogged.
LEMMA EndBalanced ==
  ASSUME TypeOK, NEW r \in Ref, Balanced(r), NEW w \in Recorders(r),
         Recorders(r)' \subseteq Recorders(r) \ {w}, Recording(r)' = Recording(r) \ {w},
         NEW d \in {0, 1}, NEW u \in Nat, w \in Recording(r) => d + u >= 1,
         Len(log'[r]) = Len(log[r]) + d, unlogged'[r] = unlogged[r] + u,
         made'[r] = made[r], swept'[r] = swept[r]
  PROVE Balanced(r)'
<1>1. /\ Len(log[r]) \in Nat /\ made[r] \in Nat /\ unlogged[r] \in Nat /\ swept[r] \in Nat
      /\ IsFiniteSet(Recorders(r)) /\ IsFiniteSet(Recording(r))
      /\ Cardinality(Worker) \in Nat /\ Cardinality(Recording(r)) \in Nat
  BY Numbers
<1>2. /\ Cardinality(Recorders(r)) \in Nat /\ Cardinality(Recorders(r)') \in Nat
      /\ Cardinality(Recorders(r)') + 1 <= Cardinality(Recorders(r))
  BY <1>1, Leaving
<1> DEFINE l == Len(log[r])
           c == Cardinality(Recording(r))
           k == Cardinality(Recording(r)')
           p == Cardinality(Recorders(r))
           q == Cardinality(Recorders(r)')
           n == Cardinality(Worker)
           m == made[r]
           x == unlogged[r]
           y == swept[r]
<1>3. d + u + k >= c /\ k \in Nat
  <2>1. d \in Nat /\ c \in Nat
    BY <1>1
  <2>2. CASE w \in Recording(r)
    <3>1. Cardinality(Recording(r) \ {w}) = c - 1 /\ IsFiniteSet(Recording(r) \ {w})
      BY <1>1, <2>2, FS_RemoveElement
    <3>2. k = c - 1 /\ k \in Nat
      BY <3>1, FS_CardinalityType
    <3> HIDE DEF c, k
    <3> QED
      BY <2>1, <2>2, <3>2
  <2>3. CASE w \notin Recording(r)
    <3>1. k = c
      BY <2>3
    <3> HIDE DEF c, k
    <3> QED
      BY <2>1, <3>1
  <2> QED
    BY <2>2, <2>3
<1>4. l + p <= n /\ m <= l + c + x + y
  BY DEF Balanced
<1>5. l \in Nat /\ c \in Nat /\ p \in Nat /\ q \in Nat /\ n \in Nat /\ m \in Nat /\ x \in Nat
      /\ y \in Nat /\ q + 1 <= p
  BY <1>1, <1>2
<1>6. /\ Balanced(r)' <=>
           /\ Len(log'[r]) + q <= n
           /\ made'[r] <= Len(log'[r]) + k + unlogged'[r] + swept'[r]
  BY DEF Balanced
<1> HIDE DEF l, c, k, p, q, n, m, x, y
<1>7. (l + d) + q <= n
  <2>1. d \in Nat /\ d <= 1
    OBVIOUS
  <2>2. d + q <= p
    BY <2>1, <1>5
  <2> QED
    BY <2>1, <2>2, <1>4, <1>5
<1>8. m <= (l + d) + k + (x + u) + y
  <2>1. d \in Nat /\ u \in Nat
    OBVIOUS
  <2>2. m <= l + (d + u + k) + x + y
    BY <2>1, <1>3, <1>4, <1>5
  <2> QED
    BY <2>1, <2>2, <1>3, <1>5
<1> QED
  BY <1>6, <1>7, <1>8 DEF l, m, x, y

\* A delivery that found no row: it may be one of all workers, rows there are none.
LEMMA FindBalanced ==
  ASSUME TypeOK, TypeOK', NEW r \in Ref, Balanced(r), log[r] = <<>>,
         log' = log, made' = made, unlogged' = unlogged, swept' = swept,
         Recording(r)' = Recording(r)
  PROVE Balanced(r)'
<1>1. /\ Len(log'[r]) = 0
      /\ Cardinality(Recorders(r)') \in Nat /\ Cardinality(Worker) \in Nat
      /\ Cardinality(Recorders(r)') <= Cardinality(Worker)
  <2>1. Recorders(r)' \subseteq Worker /\ IsFiniteSet(Worker)
    BY IntakeAssumption DEF Recorders
  <2> QED
    BY <2>1, Subsets
<1> QED
  BY <1>1 DEF Balanced

\* A delivery that creates its order.
LEMMA CreateBalanced ==
  ASSUME TypeOK, TypeOK', NEW r \in Ref, Balanced(r), NEW w \in Worker, w \notin Recording(r),
         Recorders(r)' \subseteq Recorders(r), Recording(r)' = Recording(r) \cup {w},
         log' = log, made' = [made EXCEPT ![r] = @ + 1], unlogged' = unlogged, swept' = swept
  PROVE Balanced(r)'
<1>1. /\ Len(log[r]) \in Nat /\ made[r] \in Nat /\ unlogged[r] \in Nat /\ swept[r] \in Nat
      /\ IsFiniteSet(Recorders(r)) /\ IsFiniteSet(Recording(r))
      /\ Cardinality(Recorders(r)) \in Nat /\ Cardinality(Recording(r)) \in Nat
      /\ Cardinality(Worker) \in Nat
  BY Numbers
<1>2. Cardinality(Recorders(r)') \in Nat /\ Cardinality(Recorders(r)') <= Cardinality(Recorders(r))
  BY <1>1, Subsets
<1>3. Cardinality(Recording(r)') = Cardinality(Recording(r)) + 1
  BY <1>1, FS_AddElement
<1>4. made'[r] = made[r] + 1
  BY DEF TypeOK
<1> DEFINE l == Len(log[r])
           c == Cardinality(Recording(r))
           k == Cardinality(Recording(r)')
           p == Cardinality(Recorders(r))
           q == Cardinality(Recorders(r)')
           z == Cardinality(Worker)
           m == made[r]
           x == unlogged[r]
           y == swept[r]
<1>5. l + p <= z /\ m <= l + c + x + y
  BY DEF Balanced
<1>6. Balanced(r)' <=> l + q <= z /\ m + 1 <= l + k + x + y
  BY <1>4 DEF Balanced
<1>7. l \in Nat /\ p \in Nat /\ z \in Nat /\ m \in Nat /\ c \in Nat /\ x \in Nat /\ y \in Nat
      /\ q \in Nat /\ q <= p /\ k = c + 1
  BY <1>1, <1>2, <1>3
<1> HIDE DEF l, c, k, p, q, z, m, x, y
<1>8. l + q <= z /\ m + 1 <= l + k + x + y
  BY <1>5, <1>7
<1> QED
  BY <1>6, <1>8

LEMMA SweepBalanced ==
  ASSUME TypeOK, TypeOK', NEW r \in Ref, Balanced(r), NEW n \in Nat,
         req' = req, made' = made, unlogged' = unlogged,
         Len(log'[r]) = Len(log[r]) - n, swept'[r] = swept[r] + n
  PROVE Balanced(r)'
<1>1. /\ Len(log[r]) \in Nat /\ made[r] \in Nat /\ unlogged[r] \in Nat /\ swept[r] \in Nat
      /\ Cardinality(Recorders(r)) \in Nat /\ Cardinality(Recording(r)) \in Nat
      /\ Cardinality(Worker) \in Nat
  BY Numbers
<1>2. Recorders(r)' = Recorders(r) /\ Recording(r)' = Recording(r)
  BY DEF Recorders, Recording
<1> DEFINE l == Len(log[r])
           c == Cardinality(Recording(r))
           p == Cardinality(Recorders(r))
           z == Cardinality(Worker)
           m == made[r]
           x == unlogged[r]
           y == swept[r]
<1>3. l + p <= z /\ m <= l + c + x + y
  BY DEF Balanced
<1>4. Balanced(r)' <=> (l - n) + p <= z /\ m <= (l - n) + c + x + (y + n)
  BY <1>2 DEF Balanced
<1>5. l \in Nat /\ p \in Nat /\ z \in Nat /\ m \in Nat /\ c \in Nat /\ x \in Nat /\ y \in Nat
  BY <1>1
<1> HIDE DEF l, c, p, z, m, x, y
<1>6. (l - n) + p <= z /\ m <= (l - n) + c + x + (y + n)
  BY <1>3, <1>5
<1> QED
  BY <1>4, <1>6

\* The moved worker was and is no recorder of r, or remains one.
LEMMA AsideBalanced ==
  ASSUME TypeOK, TypeOK', NEW r \in Ref, Balanced(r), NEW w \in Worker, NEW h, Moves(w, h),
         h.pc \in {"create", "record", "error"} /\ h.ref = r => w \in Recorders(r),
         w \in Recording(r) <=> h.pc = "record" /\ h.ref = r,
         Len(log'[r]) = Len(log[r]), made'[r] = made[r],
         unlogged'[r] = unlogged[r], swept'[r] = swept[r]
  PROVE Balanced(r)'
<1>1. Recorders(r)' \subseteq Recorders(r)
  BY NoRecorderJoins
<1>2. Recording(r)' = Recording(r)
  <2>1. Recording(r)' = IF h.pc = "record" /\ h.ref = r
                        THEN Recording(r) \cup {w} ELSE Recording(r) \ {w}
    BY RecordingMoves
  <2>2. CASE w \in Recording(r)
    <3>1. Recording(r) \cup {w} = Recording(r)
      BY <2>2
    <3> QED
      BY <2>1, <2>2, <3>1
  <2>3. CASE w \notin Recording(r)
    <3>1. Recording(r) \ {w} = Recording(r)
      BY <2>3
    <3> QED
      BY <2>1, <2>3, <3>1
  <2> QED
    BY <2>2, <2>3
<1> QED
  BY <1>1, <1>2, QuietBalanced

LEMMA RequestBalanced ==
  ASSUME TypeOK, NEW w \in Worker, Request(w), NEW r \in Ref, Balanced(r)
  PROVE Balanced(r)'
<1>1. ASSUME NEW q \in Ref, Ingest(w, q) PROVE Balanced(r)'
  <2>1. /\ TypeOK' /\ UNCHANGED <<tables, made, unlogged, swept>>
        /\ w \notin Recording(r) /\ w \notin Recorders(r)
    BY <1>1, IngestStep DEF Ingest, At, Recording, Recorders
  <2>2. PICK h \in Handler : Moves(w, h) /\ h.pc = "find"
    BY <1>1, IngestStep
  <2> QED
    BY <2>1, <2>2, AsideBalanced DEF tables
<1>2. CASE FindLog(w)
  <2>1. /\ TypeOK' /\ UNCHANGED <<tables, counts>>
        /\ w \notin Recording(r) /\ w \notin Recorders(r)
    BY <1>2, FindLogStep DEF At, Recording, Recorders
  <2>2. CASE Moves(w, Idle)
    BY <2>1, <2>2, IdleHandler, AsideBalanced DEF tables, counts
  <2>3. CASE /\ log[req[w].ref] = <<>>
             /\ Moves(w, [pc |-> "create", ref |-> req[w].ref, order |-> NULL])
    <3>1. CASE req[w].ref = r
      <4>1. Recording(r)' = Recording(r)
        BY <2>1, <2>3, RecordingMoves
      <4> QED
        BY <2>1, <2>3, <3>1, <4>1, FindBalanced DEF tables, counts
    <3>2. CASE req[w].ref # r
      BY <2>1, <2>3, <3>2, AsideBalanced DEF tables, counts
    <3> QED
      BY <3>1, <3>2
  <2> QED
    BY <1>2, <2>2, <2>3, FindLogStep
<1>3. CASE CreateIngested(w)
  <2>1. /\ TypeOK' /\ At(w, "create") /\ req[w].ref \in Ref /\ w \notin Recording(r)
        /\ UNCHANGED <<log, unlogged, swept>>
    BY <1>3, CreateStep DEF At, Recording
  <2>2. req[w].ref = r => w \in Recorders(r)
    BY <2>1 DEF At, Recorders
  <2>3. ASSUME NEW o \in Order,
               Moves(w, [pc |-> "record", ref |-> req[w].ref, order |-> o]),
               made' = [made EXCEPT ![req[w].ref] = @ + 1]
        PROVE Balanced(r)'
    <3>1. Recorders(r)' \subseteq Recorders(r)
      BY <2>2, <2>3, NoRecorderJoins
    <3>2. CASE req[w].ref = r
      <4>1. Recording(r)' = Recording(r) \cup {w}
        BY <2>3, <3>2, RecordingMoves
      <4> QED
        BY <2>1, <2>3, <3>1, <3>2, <4>1, CreateBalanced
    <3>3. CASE req[w].ref # r
      <4>1. made'[r] = made[r]
        BY <2>1, <2>3, <3>3 DEF TypeOK
      <4> QED
        BY <2>1, <2>3, <3>3, <4>1, AsideBalanced
    <3> QED
      BY <3>2, <3>3
  <2>4. CASE UNCHANGED made /\ Moves(w, Idle)
    BY <2>1, <2>4, IdleHandler, AsideBalanced
  <2>5. CASE /\ UNCHANGED made
             /\ Moves(w, [pc |-> "error", ref |-> req[w].ref, order |-> NULL])
    BY <2>1, <2>2, <2>5, AsideBalanced
  <2> QED
    BY <1>3, <2>3, <2>4, <2>5, CreateStep
<1>4. CASE RecordOrder(w)
  <2>1. /\ TypeOK' /\ At(w, "record") /\ req[w].ref \in Ref /\ Moves(w, Idle)
        /\ UNCHANGED <<order, made, swept>>
        /\ \/ (\E x \in Row : Logged(req[w].ref, x)) /\ UNCHANGED unlogged
           \/ /\ UNCHANGED log \/ \E x \in Row : Logged(req[w].ref, x)
              /\ unlogged' = [unlogged EXCEPT ![req[w].ref] = @ + 1]
    BY <1>4, RecordOrderStep
  <2>2. CASE req[w].ref = r
    <3>1. /\ w \in Recorders(r) /\ w \in Recording(r)
          /\ Recorders(r)' \subseteq Recorders(r) \ {w}
          /\ Recording(r)' = Recording(r) \ {w}
      BY <2>1, <2>2, RecorderLeaves DEF At, Recorders, Recording
    <3>2. Len(log[r]) \in Nat /\ unlogged[r] \in Nat /\ unlogged \in [Ref -> Nat]
      BY DEF TypeOK
    <3>3. \E d \in {0, 1}, u \in Nat :
            Len(log'[r]) = Len(log[r]) + d /\ unlogged'[r] = unlogged[r] + u /\ d + u >= 1
      <4>1. CASE (\E x \in Row : Logged(r, x)) /\ UNCHANGED unlogged
        <5>1. Len(log'[r]) = Len(log[r]) + 1 /\ unlogged'[r] = unlogged[r] + 0 /\ 1 + 0 >= 1
          BY <3>2, <4>1, LoggedTyped
        <5> QED
          BY <5>1
      <4>2. CASE UNCHANGED log /\ unlogged' = [unlogged EXCEPT ![r] = @ + 1]
        <5>1. Len(log'[r]) = Len(log[r]) + 0 /\ unlogged'[r] = unlogged[r] + 1 /\ 0 + 1 >= 1
          BY <3>2, <4>2
        <5> QED
          BY <5>1
      <4>3. CASE /\ \E x \in Row : Logged(r, x)
                 /\ unlogged' = [unlogged EXCEPT ![r] = @ + 1]
        <5>1. Len(log'[r]) = Len(log[r]) + 1 /\ unlogged'[r] = unlogged[r] + 1 /\ 1 + 1 >= 1
          BY <3>2, <4>3, LoggedTyped
        <5> QED
          BY <5>1
      <4> QED
        BY <2>1, <2>2, <4>1, <4>2, <4>3
    <3> QED
      BY <2>1, <3>1, <3>3, EndBalanced
  <2>3. CASE req[w].ref # r
    <3>1. log'[r] = log[r] /\ unlogged'[r] = unlogged[r]
      BY <2>1, <2>3, LoggedTyped DEF TypeOK
    <3>2. w \notin Recording(r)
      BY <2>3 DEF Recording
    <3> QED
      BY <2>1, <3>1, <3>2, IdleHandler, AsideBalanced
  <2> QED
    BY <2>2, <2>3
<1>5. CASE RecordError(w)
  <2>1. /\ TypeOK' /\ At(w, "error") /\ req[w].ref \in Ref /\ Moves(w, Idle)
        /\ UNCHANGED <<order, made, unlogged, swept>>
        /\ UNCHANGED log \/ \E x \in Row : Logged(req[w].ref, x)
    BY <1>5, RecordErrorStep
  <2>2. w \notin Recording(r)
    BY <2>1 DEF Recording, At
  <2>3. CASE req[w].ref = r
    <3>1. /\ w \in Recorders(r) /\ Recorders(r)' \subseteq Recorders(r) \ {w}
          /\ Recording(r)' = Recording(r) \ {w}
      BY <2>1, <2>3, RecorderLeaves DEF At, Recorders
    <3>2. Len(log[r]) \in Nat /\ unlogged[r] \in Nat
      BY DEF TypeOK
    <3>3. \E d \in {0, 1} : Len(log'[r]) = Len(log[r]) + d
      BY <2>1, <2>3, <3>2, LoggedTyped
    <3>4. unlogged'[r] = unlogged[r] + 0
      BY <2>1, <3>2
    <3> QED
      BY <2>1, <2>2, <3>1, <3>3, <3>4, EndBalanced
  <2>4. CASE req[w].ref # r
    <3>1. log'[r] = log[r]
      BY <2>1, <2>4, LoggedTyped
    <3> QED
      BY <2>1, <2>2, <3>1, IdleHandler, AsideBalanced
  <2> QED
    BY <2>3, <2>4
<1>6. CASE Die(w)
  <2>1. /\ TypeOK' /\ Moves(w, Idle) /\ UNCHANGED <<tables, made, swept>>
        /\ IF At(w, "record")
           THEN req[w].ref \in Ref /\ unlogged' = [unlogged EXCEPT ![req[w].ref] = @ + 1]
           ELSE UNCHANGED unlogged
    BY <1>6, DieStep
  <2>2. Len(log[r]) \in Nat /\ unlogged[r] \in Nat /\ log' = log /\ unlogged \in [Ref -> Nat]
    BY <2>1 DEF TypeOK, tables
  <2>3. CASE w \in Recording(r)
    <3>1. /\ w \in Recorders(r) /\ Recorders(r)' \subseteq Recorders(r) \ {w}
          /\ Recording(r)' = Recording(r) \ {w}
      BY <2>1, <2>3, RecorderLeaves DEF Recorders, Recording
    <3>2. Len(log'[r]) = Len(log[r]) + 0 /\ unlogged'[r] = unlogged[r] + 1 /\ 0 + 1 >= 1
      BY <2>1, <2>2, <2>3 DEF At, Recording
    <3> QED
      BY <2>1, <3>1, <3>2, EndBalanced
  <2>4. CASE w \notin Recording(r)
    <3>1. unlogged'[r] = unlogged[r]
      BY <2>1, <2>2, <2>4 DEF At, Recording
    <3> QED
      BY <2>1, <2>2, <2>4, <3>1, IdleHandler, AsideBalanced
  <2> QED
    BY <2>3, <2>4
<1>7. ASSUME NEW o \in Order, AskLink(w, o) PROVE Balanced(r)'
  <2>1. TypeOK' /\ UNCHANGED <<tables, counts>> /\ w \notin Recording(r)
    BY <1>7, AskLinkStep DEF AskLink, At, Recording
  <2>2. \E l \in {"mint", "link"} : Moves(w, [pc |-> l, ref |-> NULL, order |-> o])
    BY <1>7, AskLinkStep
  <2> QED
    BY <2>1, <2>2, AsideBalanced DEF tables, counts
<1>8. CASE MintToken(w)
  <2>1. TypeOK' /\ UNCHANGED <<log, counts>> /\ w \notin Recording(r)
    BY <1>8, MintTokenStep DEF At, Recording
  <2>2. \/ Moves(w, [pc |-> "link", ref |-> NULL, order |-> req[w].order])
        \/ Moves(w, Idle)
    BY <1>8, MintTokenStep
  <2> QED
    BY <2>1, <2>2, IdleHandler, AsideBalanced DEF counts
<1>9. CASE GiveLink(w)
  <2>1. TypeOK' /\ Moves(w, Idle) /\ UNCHANGED <<tables, counts>> /\ w \notin Recording(r)
    BY <1>9, GiveLinkStep DEF GiveLink, At, Recording
  <2> QED
    BY <2>1, IdleHandler, AsideBalanced DEF tables, counts
<1> QED
  BY <1>1, <1>2, <1>3, <1>4, <1>5, <1>6, <1>7, <1>8, <1>9 DEF Request

\* Steps of users and the sweep move no request.
LEMMA StillBalanced ==
  ASSUME TypeOK, TypeOK', NEW r \in Ref, Balanced(r), UNCHANGED <<req, made, unlogged, swept>>,
         Len(log'[r]) = Len(log[r])
  PROVE Balanced(r)'
<1>1. Recorders(r)' = Recorders(r) /\ Recording(r)' = Recording(r)
  BY DEF Recorders, Recording
<1> QED
  BY <1>1 DEF Balanced

LEMMA BalancedStep ==
  ASSUME TypeOK, [Next]_vars, NEW r \in Ref, Balanced(r)
  PROVE Balanced(r)'
<1>1. TypeOK'
  BY TypedStep
<1>2. CASE UNCHANGED vars
  BY <1>1, <1>2, StillBalanced DEF vars, tables, counts
<1>3. ASSUME NEW w \in Worker, Request(w) PROVE Balanced(r)'
  BY <1>3, RequestBalanced
<1>4. ASSUME NEW o \in Order, CreateOrder(o) \/ DeleteOrder(o) PROVE Balanced(r)'
  BY <1>1, <1>4, CreateOrderStep, DeleteOrderStep, StillBalanced DEF counts
<1>5. ASSUME NEW f \in File, Upload(f) PROVE Balanced(r)'
  BY <1>1, <1>5, ImportStep, StillBalanced DEF counts
<1>6. ASSUME NEW q \in Ref, NEW n \in 1..MaxSends, RetentionSweep(q, n)
      PROVE Balanced(r)'
  <2>1. n \in Nat
    BY IntakeAssumption
  <2>2. /\ UNCHANGED <<order, req, made, unlogged>>
        /\ Len(log'[q]) = Len(log[q]) - n
        /\ \A x \in Ref : x # q => log'[x] = log[x]
        /\ swept' = [swept EXCEPT ![q] = @ + n]
        /\ swept \in [Ref -> Nat]
    BY <1>6, <2>1, SweepStep DEF TypeOK
  <2>3. CASE q = r
    <3>1. swept'[r] = swept[r] + n
      BY <2>2, <2>3
    <3> QED
      BY <1>1, <2>1, <2>2, <2>3, <3>1, SweepBalanced
  <2>4. CASE q # r
    <3>1. swept'[r] = swept[r] /\ log'[r] = log[r]
      BY <2>2, <2>4
    <3>2. Recorders(r)' = Recorders(r) /\ Recording(r)' = Recording(r)
      BY <2>2 DEF Recorders, Recording
    <3> QED
      BY <1>1, <2>2, <3>1, <3>2, QuietBalanced
  <2> QED
    BY <2>3, <2>4
<1> QED
  BY <1>2, <1>3, <1>4, <1>5, <1>6 DEF Next

-----------------------------------------------------------------------------
(* Tokens *)

\* Tokens stay or fall, and nobody but the moved worker could join.
LEMMA QuietTokens ==
  ASSUME TypeOK, TypeOK', TokenBudget,
         \A o \in Order : Minting(o)' \subseteq Minting(o),
         \A o \in Order : order'[o].token <= order[o].token
  PROVE TokenBudget'
<1> SUFFICES ASSUME NEW o \in Order
             PROVE order'[o].token + Cardinality(Minting(o)') <= Cardinality(Worker)
  BY DEF TokenBudget
<1>1. Minting(o) \in SUBSET Worker /\ IsFiniteSet(Worker)
  BY WorkerSets
<1>2. /\ Cardinality(Minting(o)) \in Nat /\ Cardinality(Minting(o)') \in Nat
      /\ Cardinality(Minting(o)') <= Cardinality(Minting(o)) /\ Cardinality(Worker) \in Nat
  BY <1>1, Subsets
<1>3. order[o].token \in Nat /\ order'[o].token \in Nat
  BY DEF TypeOK
<1>4. order[o].token + Cardinality(Minting(o)) <= Cardinality(Worker)
  BY DEF TokenBudget
<1> QED
  BY <1>2, <1>3, <1>4

LEMMA MoveMinting ==
  ASSUME NEW w \in Worker, NEW h, Moves(w, h), h.pc # "mint"
  PROVE \A o \in Order : Minting(o)' \subseteq Minting(o) \ {w}
BY DEF Moves, Minting

LEMMA RequestTokens ==
  ASSUME TypeOK, NEW w \in Worker, Request(w), TokenBudget
  PROVE TokenBudget'
<1>0. \A o \in Order : order[o].token \in Nat
  BY DEF TypeOK
<1>1. ASSUME TypeOK', UNCHANGED order, NEW h, Moves(w, h), h.pc # "mint"
      PROVE TokenBudget'
  BY <1>0, <1>1, MoveMinting, QuietTokens
<1>2. ASSUME NEW q \in Ref, Ingest(w, q) PROVE TokenBudget'
  BY <1>1, <1>2, IngestStep DEF tables
<1>3. CASE FindLog(w)
  BY <1>1, <1>3, IdleHandler, FindLogStep DEF tables
<1>4. CASE CreateIngested(w)
  <2>1. CASE UNCHANGED order
    BY <1>1, <1>4, <2>1, IdleHandler, CreateStep
  <2>2. ASSUME NEW S, order' = Inserted(S) PROVE TokenBudget'
    <3>1. \A o \in Order : order'[o].token <= order[o].token
      BY <1>0, <2>2 DEF Inserted
    <3>2. ASSUME NEW h, Moves(w, h), h.pc # "mint" PROVE TokenBudget'
      BY <1>4, <3>1, <3>2, MoveMinting, CreateStep, QuietTokens
    <3>3. ASSUME NEW o \in Order,
                 Moves(w, [pc |-> "record", ref |-> req[w].ref, order |-> o])
          PROVE TokenBudget'
      BY <3>2, <3>3
    <3>4. CASE Moves(w, [pc |-> "error", ref |-> req[w].ref, order |-> NULL])
      BY <3>2, <3>4
    <3>5. CASE Moves(w, Idle)
      BY <3>2, <3>5, IdleHandler
    <3> QED
      BY <1>4, <3>3, <3>4, <3>5, CreateStep
  <2> QED
    BY <1>4, <2>1, <2>2, CreateStep
<1>5. CASE RecordOrder(w)
  BY <1>1, <1>5, IdleHandler, RecordOrderStep
<1>6. CASE RecordError(w)
  BY <1>1, <1>6, IdleHandler, RecordErrorStep
<1>7. CASE Die(w)
  BY <1>1, <1>7, IdleHandler, DieStep DEF tables
<1>8. ASSUME NEW o \in Order, AskLink(w, o) PROVE TokenBudget'
  <2>1. TypeOK' /\ UNCHANGED order
    BY <1>8, AskLinkStep DEF tables
  <2>2. CASE Moves(w, [pc |-> "link", ref |-> NULL, order |-> o])
    BY <1>1, <2>1, <2>2
  <2>3. CASE order[o].token = 0 /\ Moves(w, [pc |-> "mint", ref |-> NULL, order |-> o])
    <3> SUFFICES ASSUME NEW p \in Order
                 PROVE order'[p].token + Cardinality(Minting(p)') <= Cardinality(Worker)
      BY DEF TokenBudget
    <3>1. Minting(p)' \in SUBSET Worker /\ Minting(p) \in SUBSET Worker /\ IsFiniteSet(Worker)
      BY IntakeAssumption DEF Minting
    <3>2. CASE p = o
      <4>1. order'[p].token = 0
        BY <2>1, <2>3, <3>2
      <4>2. /\ Cardinality(Minting(p)') \in Nat /\ Cardinality(Worker) \in Nat
            /\ Cardinality(Minting(p)') <= Cardinality(Worker)
        BY <3>1, Subsets
      <4> QED
        BY <4>1, <4>2
    <3>3. CASE p # o
      <4>1. Minting(p)' \subseteq Minting(p)
        BY <2>3, <3>3 DEF Moves, Minting
      <4>2. /\ Cardinality(Minting(p)') \in Nat /\ Cardinality(Minting(p)) \in Nat
            /\ Cardinality(Minting(p)') <= Cardinality(Minting(p))
            /\ Cardinality(Worker) \in Nat /\ order[p].token \in Nat
            /\ order'[p].token = order[p].token
        BY <1>0, <2>1, <3>1, <4>1, Subsets
      <4>3. order[p].token + Cardinality(Minting(p)) <= Cardinality(Worker)
        BY DEF TokenBudget
      <4> QED
        BY <4>2, <4>3
    <3> QED
      BY <3>2, <3>3
  <2> QED
    BY <1>8, <2>2, <2>3, AskLinkStep
<1>9. CASE MintToken(w)
  <2>1. /\ TypeOK' /\ At(w, "mint") /\ req[w].order \in Order
        /\ \/ /\ Moves(w, [pc |-> "link", ref |-> NULL, order |-> req[w].order])
              /\ order' = [order EXCEPT ![req[w].order].token = @ + 1]
           \/ Moves(w, Idle) /\ UNCHANGED order
    BY <1>9, MintTokenStep
  <2>2. CASE Moves(w, Idle) /\ UNCHANGED order
    BY <1>1, <2>1, <2>2, IdleHandler
  <2>3. CASE /\ Moves(w, [pc |-> "link", ref |-> NULL, order |-> req[w].order])
             /\ order' = [order EXCEPT ![req[w].order].token = @ + 1]
    <3> SUFFICES ASSUME NEW p \in Order
                 PROVE order'[p].token + Cardinality(Minting(p)') <= Cardinality(Worker)
      BY DEF TokenBudget
    <3>1. Minting(p) \in SUBSET Worker /\ IsFiniteSet(Worker)
      BY WorkerSets
    <3>2. Minting(p)' \subseteq Minting(p) \ {w}
      BY <2>3, MoveMinting
    <3>3. order[p].token + Cardinality(Minting(p)) <= Cardinality(Worker)
      BY DEF TokenBudget
    <3>4. /\ IsFiniteSet(Minting(p)) /\ Cardinality(Minting(p)) \in Nat
          /\ Cardinality(Worker) \in Nat /\ order[p].token \in Nat
      BY <1>0, <3>1, Subsets
    <3>5. CASE p = req[w].order
      <4>1. w \in Minting(p)
        BY <2>1, <3>5 DEF At, Minting
      <4>2. Cardinality(Minting(p)') \in Nat /\ Cardinality(Minting(p)') + 1 <= Cardinality(Minting(p))
        BY <3>2, <3>4, <4>1, Leaving
      <4>3. order'[p].token = order[p].token + 1
        BY <2>3, <3>5 DEF TypeOK
      <4> QED
        BY <3>3, <3>4, <4>2, <4>3
    <3>6. CASE p # req[w].order
      <4>1. Cardinality(Minting(p)') \in Nat /\ Cardinality(Minting(p)') <= Cardinality(Minting(p))
        BY <3>2, <3>4, Subsets
      <4>2. order'[p].token = order[p].token
        BY <2>3, <3>6 DEF TypeOK
      <4> QED
        BY <3>3, <3>4, <4>1, <4>2
    <3> QED
      BY <3>5, <3>6
  <2> QED
    BY <2>1, <2>2, <2>3
<1>10. CASE GiveLink(w)
  BY <1>1, <1>10, IdleHandler, GiveLinkStep DEF tables
<1> QED
  BY <1>2, <1>3, <1>4, <1>5, <1>6, <1>7, <1>8, <1>9, <1>10 DEF Request

LEMMA TokenStep ==
  ASSUME TypeOK, [Next]_vars, TokenBudget
  PROVE TokenBudget'
<1>0. TypeOK' /\ \A o \in Order : order[o].token \in Nat
  BY TypedStep DEF TypeOK
<1>1. ASSUME UNCHANGED req, \A o \in Order : order'[o].token <= order[o].token
      PROVE TokenBudget'
  BY <1>0, <1>1, QuietTokens DEF Minting
<1>2. CASE UNCHANGED vars
  BY <1>0, <1>1, <1>2 DEF vars, tables
<1>3. ASSUME NEW S, order' = Inserted(S), UNCHANGED req PROVE TokenBudget'
  BY <1>0, <1>1, <1>3 DEF Inserted
<1>4. ASSUME NEW o \in Order, CreateOrder(o) PROVE TokenBudget'
  BY <1>3, <1>4, CreateOrderStep
<1>5. ASSUME NEW o \in Order, DeleteOrder(o) PROVE TokenBudget'
  BY <1>0, <1>1, <1>5, DeleteOrderStep
<1>6. ASSUME NEW f \in File, Upload(f) PROVE TokenBudget'
  BY <1>0, <1>1, <1>3, <1>6, ImportStep
<1>7. ASSUME NEW q \in Ref, NEW n \in 1..MaxSends, RetentionSweep(q, n)
      PROVE TokenBudget'
  <2>1. UNCHANGED <<order, req>>
    BY <1>7 DEF RetentionSweep
  <2> QED
    BY <1>0, <1>1, <2>1
<1> QED
  BY <1>2, <1>4, <1>5, <1>6, <1>7, RequestTokens DEF Next

-----------------------------------------------------------------------------
(* The invariant and the theorems *)

LEMMA BudgetsBalance == LogBudget /\ MadeBudget <=> \A r \in Ref : Balanced(r)
BY DEF LogBudget, MadeBudget, Balanced

LEMMA InitInvariant == Init => IInv
<1> SUFFICES ASSUME Init PROVE IInv
  OBVIOUS
<1>1. TypeOK
  BY InitTyped
<1>2. ASSUME NEW r \in Ref PROVE Balanced(r)
  <2>1. Recorders(r) = {} /\ Recording(r) = {}
    BY IdleHandler DEF Init, Recorders, Recording
  <2>2. Cardinality({}) = 0 /\ Len(log[r]) = 0 /\ Cardinality(Worker) \in Nat
    BY IntakeAssumption, FS_EmptySet, FS_CardinalityType DEF Init
  <2> QED
    BY <2>1, <2>2 DEF Init, Balanced
<1>3. TokenBudget
  <2> SUFFICES ASSUME NEW o \in Order
               PROVE order[o].token + Cardinality(Minting(o)) <= Cardinality(Worker)
    BY DEF TokenBudget
  <2>1. Minting(o) = {}
    BY IdleHandler DEF Init, Minting
  <2>2. Cardinality({}) = 0 /\ order[o].token = 0 /\ Cardinality(Worker) \in Nat
    BY IntakeAssumption, FS_EmptySet, FS_CardinalityType DEF Init
  <2> QED
    BY <2>1, <2>2
<1> QED
  BY <1>1, <1>2, <1>3, BudgetsBalance DEF IInv

LEMMA NextInvariant == IInv /\ [Next]_vars => IInv'
<1> SUFFICES ASSUME IInv, [Next]_vars PROVE IInv'
  OBVIOUS
<1>1. TypeOK' /\ TokenBudget'
  BY TypedStep, TokenStep DEF IInv
<1>2. \A r \in Ref : Balanced(r)'
  BY BalancedStep, BudgetsBalance DEF IInv
<1>3. LogBudget' /\ MadeBudget'
  BY <1>2 DEF LogBudget, MadeBudget, Balanced
<1> QED
  BY <1>1, <1>3 DEF IInv

LEMMA InvariantBounds == IInv => LogsBounded /\ OrdersAccounted /\ LinksBounded
<1> SUFFICES ASSUME IInv PROVE LogsBounded /\ OrdersAccounted /\ LinksBounded
  OBVIOUS
<1>1. TypeOK /\ IsFiniteSet(Worker)
  BY IntakeAssumption DEF IInv
<1>2. ASSUME NEW r \in Ref
      PROVE /\ Len(log[r]) <= Cardinality(Worker)
            /\ made[r] <= Cardinality(Worker) + unlogged[r] + swept[r]
  <2> DEFINE l == Len(log[r])
             c == Cardinality(Recording(r))
             p == Cardinality(Recorders(r))
             z == Cardinality(Worker)
             m == made[r]
             x == unlogged[r]
             y == swept[r]
  <2>1. l \in Nat /\ p \in Nat /\ c \in Nat /\ z \in Nat /\ m \in Nat /\ x \in Nat /\ y \in Nat
    BY <1>1, Numbers
  <2>2. c <= p
    BY <1>1, Numbers, WorkerSets, Subsets
  <2>3. l + p <= z /\ m <= l + c + x + y
    BY DEF IInv, LogBudget, MadeBudget
  <2> HIDE DEF l, c, p, z, m, x, y
  <2>4. l <= z /\ m <= z + x + y
    BY <2>1, <2>2, <2>3
  <2> QED
    BY <2>4 DEF l, z, m, x, y
<1>3. ASSUME NEW o \in Order PROVE order[o].token <= Cardinality(Worker)
  <2>1. Minting(o) \in SUBSET Worker
    BY <1>1, WorkerSets
  <2>2. Cardinality(Minting(o)) \in Nat /\ Cardinality(Worker) \in Nat /\ order[o].token \in Nat
    BY <1>1, <2>1, Subsets DEF TypeOK
  <2>3. order[o].token + Cardinality(Minting(o)) <= Cardinality(Worker)
    BY DEF IInv, TokenBudget
  <2> QED
    BY <2>2, <2>3
<1> QED
  BY <1>2, <1>3 DEF LogsBounded, OrdersAccounted, LinksBounded

\* The budgets hold in every state.
THEOREM IntakeInvariant == Spec => []IInv
BY InitInvariant, NextInvariant, PTL DEF Spec

\* A partner order leaves at most one log row for each overlapping delivery.
THEOREM IntakeLogs == Spec => []LogsBounded
BY IntakeInvariant, InvariantBounds, PTL

\* Orders beyond that are explained by rows that were lost or swept.
THEOREM IntakeAccounts == Spec => []OrdersAccounted
BY IntakeInvariant, InvariantBounds, PTL

\* An order's tracking link is drawn at most once for each overlapping request.
THEOREM IntakeLinks == Spec => []LinksBounded
BY IntakeInvariant, InvariantBounds, PTL
=============================================================================
