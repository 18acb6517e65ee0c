-------------------------- MODULE OversightProofs --------------------------
(***************************************************************************)
(* Safety of the monitor and of the analytics ETL, for any stops, orders,  *)
(* drivers, days, processes and calls.                                     *)
(***************************************************************************)
EXTENDS Oversight, FiniteSetTheorems, TLAPS

DriversTyped ==
  /\ stop \in [Stop -> {"PENDING"} \cup Report]
  /\ employed \subseteq Driver /\ located \subseteq Driver

WatchTyped ==
  /\ warning \in [Warning -> [stop : Stop \cup {NULL},
                              status : {"NONE", "PENDING", "ACCEPTED", "DISMISSED"}]]
  /\ scan \in [Scanner -> Scan]
  /\ \A m \in Scanner : scan[m].todo \cap scan[m].late = {}

FactsTyped ==
  /\ analytics \in [Order -> {NULL} \cup Row]
  /\ scores \subseteq Score
  /\ etl \in [Etl -> Call]
  /\ \A j \in Etl : \A p \in etl[j].old : p[1] \in OrdersIn(j)
  /\ runs \in Nat

LEMMA Typed == TypeOK <=> DriversTyped /\ WatchTyped /\ FactsTyped
BY DEF TypeOK, DriversTyped, WatchTyped, FactsTyped

-----------------------------------------------------------------------------
(* The monitor *)

\* The processes whose scan is about to warn of a stop.
Late(s) == {m \in Scanner : s \in scan[m].late}

\* Each open warning of a stop, and each that is about to be added, has a process.
Watched == \A s \in Stop : Cardinality(Open(s)) + Cardinality(Late(s)) <= Cardinality(Scanner)

MonitorInv == WatchTyped /\ Watched

LEMMA ScannerCount == Cardinality(Scanner) \in Nat
BY FS_CardinalityType, OversightAssumption

LEMMA FiniteWatch ==
  ASSUME NEW s
  PROVE IsFiniteSet(Open(s)) /\ IsFiniteSet(Late(s))
<1>1. Open(s) \subseteq Warning /\ Late(s) \subseteq Scanner
  BY DEF Open, Late
<1> QED
  BY <1>1, FS_Subset, OversightAssumption

LEMMA Shrinks ==
  ASSUME NEW S, NEW T, IsFiniteSet(S), IsFiniteSet(T), NEW N \in Nat,
         Cardinality(S) + Cardinality(T) <= N,
         NEW S1 \in SUBSET S, NEW T1 \in SUBSET T
  PROVE Cardinality(S1) + Cardinality(T1) <= N
<1>1. /\ IsFiniteSet(S1) /\ Cardinality(S1) <= Cardinality(S)
      /\ IsFiniteSet(T1) /\ Cardinality(T1) <= Cardinality(T)
  BY FS_Subset
<1>2. /\ Cardinality(S) \in Nat /\ Cardinality(T) \in Nat
      /\ Cardinality(S1) \in Nat /\ Cardinality(T1) \in Nat
  BY <1>1, FS_CardinalityType
<1> QED
  BY <1>1, <1>2

\* The warning that one scan was about to add is there.
LEMMA Passes ==
  ASSUME NEW S, NEW T, IsFiniteSet(S), IsFiniteSet(T), NEW N \in Nat,
         Cardinality(S) + Cardinality(T) <= N,
         NEW x, NEW m \in T, NEW S1 \in SUBSET (S \cup {x}), NEW T1 \in SUBSET (T \ {m})
  PROVE Cardinality(S1) + Cardinality(T1) <= N
<1>1. IsFiniteSet(S \cup {x}) /\ Cardinality(S \cup {x}) <= Cardinality(S) + 1
  <2>1. Cardinality(S \cup {x}) = Cardinality(S) \/ Cardinality(S \cup {x}) = Cardinality(S) + 1
    BY FS_AddElement
  <2>2. Cardinality(S) \in Nat
    BY FS_CardinalityType
  <2> QED
    BY <2>1, <2>2, FS_AddElement
<1>2. IsFiniteSet(T \ {m}) /\ Cardinality(T \ {m}) = Cardinality(T) - 1
  BY FS_RemoveElement
<1>3. /\ Cardinality(S) \in Nat /\ Cardinality(T) \in Nat
      /\ Cardinality(S \cup {x}) \in Nat /\ Cardinality(T \ {m}) \in Nat
  BY <1>1, <1>2, FS_CardinalityType
<1>4. Cardinality(S \cup {x}) + Cardinality(T \ {m}) <= N
  BY <1>1, <1>2, <1>3
<1> QED
  BY <1>1, <1>2, <1>4, Shrinks

\* No stop has an open warning, or a scan about to add one, that it did not have.
LEMMA WatchedLess ==
  ASSUME Watched, \A s \in Stop : Open(s)' \subseteq Open(s) /\ Late(s)' \subseteq Late(s)
  PROVE Watched'
<1> SUFFICES ASSUME NEW s \in Stop
             PROVE Cardinality(Open(s)') + Cardinality(Late(s)') <= Cardinality(Scanner)
  BY DEF Watched
<1> QED
  BY FiniteWatch, ScannerCount, Shrinks DEF Watched

LEMMA StartScanInv ==
  ASSUME MonitorInv, NEW m \in Scanner, NEW d \in Day, StartScan(m, d)
  PROVE MonitorInv'
<1> DEFINE todo == {s \in Stop : /\ DayOf[s] = d /\ stop[s] \in Active
                                 /\ DriverOf[s] \in employed
                                 /\ OrderOf[s] \in Windowed}
           r == [pc |-> "scan", late |-> {}, todo |-> todo]
<1>1. scan' = [scan EXCEPT ![m] = r] /\ warning' = warning
  BY DEF StartScan
<1>2. todo \in SUBSET Stop
  OBVIOUS
<1> HIDE DEF todo
<1>3. r \in Scan /\ r.late = {}
  BY <1>2 DEF Scan
<1> HIDE DEF r
<1>4. WatchTyped'
  BY <1>1, <1>3 DEF MonitorInv, WatchTyped
<1>5. \A s \in Stop : Open(s)' \subseteq Open(s) /\ Late(s)' \subseteq Late(s)
  BY <1>1, <1>3 DEF MonitorInv, WatchTyped, Open, Late
<1> QED
  BY <1>4, <1>5, WatchedLess DEF MonitorInv

LEMMA FreeScanInv ==
  ASSUME MonitorInv, NEW m \in Scanner, StopScan(m)
  PROVE MonitorInv'
<1>1. scan' = [scan EXCEPT ![m] = Free] /\ warning' = warning
  BY DEF StopScan
<1>2. Free \in Scan /\ Free.late = {}
  BY DEF Free, Scan
<1>3. WatchTyped'
  BY <1>1, <1>2 DEF MonitorInv, WatchTyped
<1>4. \A s \in Stop : Open(s)' \subseteq Open(s) /\ Late(s)' \subseteq Late(s)
  BY <1>1, <1>2 DEF MonitorInv, WatchTyped, Open, Late
<1> QED
  BY <1>3, <1>4, WatchedLess DEF MonitorInv

ScanRow(pc, todo, late) == [pc |-> pc, todo |-> todo, late |-> late]

LEMMA CheckedRow ==
  ASSUME NEW r \in Scan, NEW A, NEW B
  PROVE [r EXCEPT !.todo = A, !.late = B] = ScanRow(r.pc, A, B)
<1>1. PICK pc \in {"idle", "scan"}, X \in SUBSET Stop, Y \in SUBSET Stop : r = ScanRow(pc, X, Y)
  BY DEF Scan, ScanRow
<1> DEFINE r1 == [r EXCEPT !.todo = A]
           r2 == [r1 EXCEPT !.late = B]
<1>2. [r EXCEPT !.todo = A, !.late = B] = r2
  OBVIOUS
<1>3. r1 = ScanRow(pc, A, Y)
  BY <1>1 DEF ScanRow
<1> HIDE DEF r1
<1>4. r2 = ScanRow(pc, A, B)
  BY <1>3 DEF ScanRow
<1>5. r.pc = pc
  BY <1>1 DEF ScanRow
<1> HIDE DEF r2
<1> QED
  BY <1>2, <1>4, <1>5

LEMMA CheckStopInv ==
  ASSUME MonitorInv, NEW m \in Scanner, NEW s \in Stop, CheckStop(m, s)
  PROVE MonitorInv'
<1>1. /\ scan[m].pc = "scan" /\ s \in scan[m].todo /\ warning' = warning
      /\ scan[m] \in Scan
  BY DEF CheckStop, MonitorInv, WatchTyped
<1>2. PICK far \in BOOLEAN :
        Checked(m, s, far /\ DriverOf[s] \in located /\ ~Warned(s, {"PENDING"}))
  BY DEF CheckStop
<1> DEFINE isLate == far /\ DriverOf[s] \in located /\ ~Warned(s, {"PENDING"})
           A == scan[m].todo \ {s}
           B == IF isLate THEN scan[m].late \cup {s} ELSE scan[m].late
           r == [scan[m] EXCEPT !.todo = A, !.late = B]
<1>3. scan' = [scan EXCEPT ![m] = r]
  BY <1>2 DEF Checked
<1>4. isLate => Open(s) = {}
  BY DEF Warned, Open
<1>5. /\ A \subseteq Stop /\ B \subseteq Stop /\ A \cap B = {}
      /\ \A t \in B : t \in scan[m].late \/ (t = s /\ isLate)
  BY <1>1 DEF MonitorInv, WatchTyped, Scan
<1> HIDE DEF A, B, isLate
<1>6. r = ScanRow(scan[m].pc, A, B)
  BY <1>1, CheckedRow
<1> HIDE DEF r
<1>7. r \in Scan /\ r.todo = A /\ r.late = B
  BY <1>1, <1>5, <1>6 DEF ScanRow, Scan
<1>8. WatchTyped'
  BY <1>1, <1>3, <1>5, <1>7 DEF MonitorInv, WatchTyped
<1>9. Watched'
  <2> SUFFICES ASSUME NEW t \in Stop
               PROVE Cardinality(Open(t)') + Cardinality(Late(t)') <= Cardinality(Scanner)
    BY DEF Watched
  <2>1. Open(t)' = Open(t) /\ Late(t)' \subseteq Scanner
    BY <1>1 DEF Open, Late
  <2>2. CASE t = s /\ isLate
    <3>1. Cardinality(Open(t)') = 0
      BY <1>4, <2>1, <2>2, FS_EmptySet
    <3>2. IsFiniteSet(Late(t)') /\ Cardinality(Late(t)') <= Cardinality(Scanner)
      BY <2>1, FS_Subset, OversightAssumption
    <3>3. Cardinality(Late(t)') \in Nat
      BY <3>2, FS_CardinalityType
    <3> QED
      BY <3>1, <3>2, <3>3, ScannerCount
  <2>3. CASE ~(t = s /\ isLate)
    <3>1. Late(t)' \subseteq Late(t)
      BY <1>3, <1>5, <1>7, <2>3 DEF Late, MonitorInv, WatchTyped
    <3> QED
      BY <2>1, <3>1, FiniteWatch, ScannerCount, Shrinks DEF MonitorInv, Watched
  <2> QED
    BY <2>2, <2>3
<1> QED
  BY <1>8, <1>9 DEF MonitorInv

\* The new warnings are those of the late stops, one of each.
LEMMA EndScanInv ==
  ASSUME MonitorInv, NEW m \in Scanner, EndScan(m)
  PROVE MonitorInv'
<1> DEFINE late == scan[m].late
<1>1. PICK X \in SUBSET {x \in Warning : warning[x].status = "NONE"} :
        \E f \in [X -> late] :
          /\ Cardinality(X) = Cardinality(late)
          /\ \A s \in late : \E x \in X : f[x] = s
          /\ warning' = [x \in Warning |->
               IF x \in X THEN [stop |-> f[x], status |-> "PENDING"] ELSE warning[x]]
  BY DEF EndScan
<1>2. PICK f \in [X -> late] :
          /\ Cardinality(X) = Cardinality(late)
          /\ \A s \in late : \E x \in X : f[x] = s
          /\ warning' = [x \in Warning |->
               IF x \in X THEN [stop |-> f[x], status |-> "PENDING"] ELSE warning[x]]
  BY <1>1
<1>3. scan' = [scan EXCEPT ![m] = Free] /\ Free \in Scan /\ Free.late = {}
  BY DEF EndScan, Free, Scan
<1>4. late \subseteq Stop
  BY DEF MonitorInv, WatchTyped, Scan
<1>5. f \in Injection(X, late)
  <2>1. IsFiniteSet(X)
    BY FS_Subset, OversightAssumption
  <2>2. f \in Surjection(X, late)
    BY <1>2 DEF Surjection
  <2>3. IsFiniteSet(late)
    BY <2>1, <2>2, FS_Surjection
  <2> QED
    BY <1>2, <2>1, <2>2, <2>3, FS_SurjSameCardinalityImpliesInj
<1>6. \A x, y \in X : f[x] = f[y] => x = y
  BY <1>5 DEF Injection, IsInjective
<1> HIDE DEF late
<1>7. WatchTyped'
  <2>1. ASSUME NEW x \in X
        PROVE [stop |-> f[x], status |-> "PENDING"]
                \in [stop : Stop \cup {NULL},
                    status : {"NONE", "PENDING", "ACCEPTED", "DISMISSED"}]
    BY <1>4
  <2> QED
    BY <1>2, <1>3, <2>1 DEF MonitorInv, WatchTyped
<1>8. Watched'
  <2> SUFFICES ASSUME NEW s \in Stop
               PROVE Cardinality(Open(s)') + Cardinality(Late(s)') <= Cardinality(Scanner)
    BY DEF Watched
  <2>1. \A x \in Warning : x \in X => warning'[x].stop = f[x]
    BY <1>2
  <2>2. \A x \in Warning : x \notin X => warning'[x] = warning[x]
    BY <1>2
  <2>3. Late(s)' \subseteq Late(s) \ {m}
    BY <1>3 DEF Late, MonitorInv, WatchTyped
  <2>4. CASE s \in late
    <3>1. PICK x \in X : f[x] = s
      BY <1>2, <2>4
    <3>2. Open(s)' \subseteq Open(s) \cup {x}
      BY <1>6, <2>1, <2>2, <3>1 DEF Open
    <3>3. m \in Late(s)
      BY <2>4 DEF late, Late
    <3> DEFINE S == Open(s)
               T == Late(s)
               S1 == Open(s)'
               T1 == Late(s)'
               N == Cardinality(Scanner)
    <3>4. /\ IsFiniteSet(S) /\ IsFiniteSet(T) /\ N \in Nat
          /\ Cardinality(S) + Cardinality(T) <= N
          /\ m \in T /\ S1 \in SUBSET (S \cup {x}) /\ T1 \in SUBSET (T \ {m})
      BY <2>3, <3>2, <3>3, FiniteWatch, ScannerCount DEF MonitorInv, Watched
    <3> HIDE DEF S, T, S1, T1, N
    <3>5. Cardinality(S1) + Cardinality(T1) <= N
      BY <3>4, Passes
    <3> QED
      BY <3>5 DEF S1, T1, N
  <2>5. CASE s \notin late
    <3>1. \A x \in X : f[x] # s
      BY <2>5
    <3>2. Open(s)' \subseteq Open(s)
      BY <2>1, <2>2, <3>1 DEF Open
    <3> QED
      BY <2>3, <3>2, FiniteWatch, ScannerCount, Shrinks DEF MonitorInv, Watched
  <2> QED
    BY <2>4, <2>5
<1> QED
  BY <1>7, <1>8 DEF MonitorInv

LEMMA DecideInv ==
  ASSUME MonitorInv, NEW x \in Warning, NEW st \in {"ACCEPTED", "DISMISSED"}, Decide(x, st)
  PROVE MonitorInv'
<1> DEFINE r == [warning[x] EXCEPT !.status = st]
<1>1. warning' = [warning EXCEPT ![x] = r] /\ scan' = scan
  BY DEF Decide
<1>2. /\ r \in [stop : Stop \cup {NULL}, status : {"NONE", "PENDING", "ACCEPTED", "DISMISSED"}]
      /\ r.status # "PENDING"
  BY DEF MonitorInv, WatchTyped
<1> HIDE DEF r
<1>3. WatchTyped'
  BY <1>1, <1>2 DEF MonitorInv, WatchTyped
<1>4. \A s \in Stop : Open(s)' \subseteq Open(s) /\ Late(s)' \subseteq Late(s)
  BY <1>1, <1>2 DEF MonitorInv, WatchTyped, Open, Late
<1> QED
  BY <1>3, <1>4, WatchedLess DEF MonitorInv

LEMMA WatchingSame ==
  ASSUME MonitorInv, UNCHANGED watching
  PROVE MonitorInv'
<1>1. \A s \in Stop : Open(s)' \subseteq Open(s) /\ Late(s)' \subseteq Late(s)
  BY DEF watching, Open, Late
<1>2. WatchTyped'
  BY DEF watching, MonitorInv, WatchTyped
<1> QED
  BY <1>1, <1>2, WatchedLess DEF MonitorInv

LEMMA MonitorStepInv ==
  ASSUME MonitorInv, [Next]_vars
  PROVE MonitorInv'
<1>1. CASE UNCHANGED vars
  BY <1>1, WatchingSame DEF vars
<1>2. ASSUME NEW m \in Scanner, MonitorStep(m)
      PROVE MonitorInv'
  BY <1>2, StartScanInv, CheckStopInv, EndScanInv, FreeScanInv DEF MonitorStep
<1>3. ASSUME NEW j \in Etl, EtlStep(j)
      PROVE MonitorInv'
  BY <1>3, WatchingSame
  DEF EtlStep, StartEtl, DeleteRows, DeleteScores, CommitEtl, StopEtl, Deleting
<1>4. CASE DriverStep
  BY <1>4, WatchingSame DEF DriverStep, ReportStop, Ping, Expire, DeleteDriver
<1> QED
  BY <1>1, <1>2, <1>3, <1>4, DecideInv DEF Next

LEMMA MonitorInit ==
  ASSUME Init
  PROVE MonitorInv
<1>1. WatchTyped
  BY DEF Init, WatchTyped, NoWarning, Free, Scan
<1>2. ASSUME NEW s \in Stop
      PROVE Open(s) = {} /\ Late(s) = {}
  BY DEF Init, Open, Late, NoWarning, Free
<1>3. Watched
  BY <1>2, FS_EmptySet, ScannerCount DEF Watched
<1> QED
  BY <1>1, <1>3 DEF MonitorInv

LEMMA MonitorBounded ==
  ASSUME MonitorInv
  PROVE WarningsBounded
<1> SUFFICES ASSUME NEW s \in Stop
             PROVE Cardinality(Open(s)) <= Cardinality(Scanner)
  BY DEF WarningsBounded
<1>1. Cardinality(Open(s)) \in Nat /\ Cardinality(Late(s)) \in Nat
  BY FiniteWatch, FS_CardinalityType
<1> QED
  BY <1>1, ScannerCount DEF MonitorInv, Watched

-----------------------------------------------------------------------------
(* The analytics ETL *)

Busy == \A j \in Etl : etl[j].pc # "idle" => etl[j].day \in Day /\ etl[j].run <= runs

Past ==
  /\ \A o \in Order : analytics[o] # NULL => analytics[o].run <= runs
  /\ \A x \in scores : x.run <= runs
  /\ \A j \in Etl : \A p \in etl[j].old : p[2] <= runs

\* Nobody has seen anything of a call that has yet to commit.
Fresh ==
  \A j \in Etl : etl[j].pc # "idle" =>
    /\ \A o \in Order : analytics[o] # NULL => analytics[o].run # etl[j].run
    /\ \A x \in scores : x.run # etl[j].run
    /\ \A k \in Etl : \A p \in etl[k].old : p[2] # etl[j].run
    /\ \A k \in Etl : k # j /\ etl[k].pc # "idle" => etl[k].run # etl[j].run

\* A score that a call will leave beside its own, since it came after the call looked,
\* came with rows that refuse the call's commit.
Unseen ==
  \A j \in Etl : etl[j].pc = "commit" =>
    \A y \in scores : y \notin etl[j].oldScores /\ y.driver \in DeliveredBy(j)
                       /\ y.day = etl[j].day =>
      \A o \in OrdersIn(j) : o \in y.orders =>
        analytics[o] # NULL /\ <<o, analytics[o].run>> \notin etl[j].old

AllOnTime == \A x \in scores : x.onTime = x.orders

Kept == \A x \in scores : \A o \in x.orders : analytics[o] # NULL

Matching ==
  \A x \in scores, o \in Order : analytics[o] # NULL /\ analytics[o].run = x.run =>
    /\ analytics[o].day = x.day
    /\ o \in x.orders <=> analytics[o].driver = x.driver

Calls == Busy /\ Past /\ Fresh /\ Unseen
Scored == AllOnTime /\ Kept /\ CountedOnce /\ Matching
FactsInv == FactsTyped /\ Calls /\ Scored

LEMMA RowParts ==
  ASSUME NEW r \in Row
  PROVE r \in Row /\ r # NULL /\ r.driver \in Driver \cup {NULL} /\ r.day \in Day /\ r.run \in Nat
<1>1. r # NULL
  BY RowAssumption
<1>2. r.driver \in Driver \cup {NULL} /\ r.day \in Day /\ r.run \in Nat
  BY Zenon DEF Row
<1> QED
  BY <1>1, <1>2

CallRow(pc, run, day, rows, old, oldScores) ==
  [pc |-> pc, run |-> run, day |-> day, rows |-> rows, old |-> old, oldScores |-> oldScores]

LEMMA CallParts ==
  ASSUME NEW c \in Call
  PROVE /\ c = CallRow(c.pc, c.run, c.day, c.rows, c.old, c.oldScores)
        /\ c.pc \in {"idle", "rows", "scores", "commit"} /\ c.run \in Nat
        /\ c.day \in Day \cup {NULL} /\ c.rows \subseteq ReadStop
        /\ c.old \subseteq Order \X Nat /\ c.oldScores \subseteq Score
BY DEF Call, CallRow

LEMMA CallMade ==
  ASSUME NEW pc \in {"idle", "rows", "scores", "commit"}, NEW run \in Nat,
         NEW day \in Day \cup {NULL}, NEW rows \in SUBSET ReadStop,
         NEW old \in SUBSET (Order \X Nat), NEW oldScores \in SUBSET Score
  PROVE LET c == CallRow(pc, run, day, rows, old, oldScores) IN
        /\ c \in Call
        /\ c.pc = pc /\ c.run = run /\ c.day = day
        /\ c.rows = rows /\ c.old = old /\ c.oldScores = oldScores
BY DEF Call, CallRow

\* What a step of a call has to keep to.
Moves(j, c) ==
  /\ c \in Call
  /\ \A p \in c.old : p[1] \in {r.order : r \in c.rows}
  /\ c.pc # "idle" =>
       /\ c.day \in Day
       /\ c.run <= runs'
       /\ (etl[j].pc # "idle" /\ c.run = etl[j].run) \/ c.run > runs
  /\ \A p \in c.old :
       p \in etl[j].old \/ \E o \in Order : analytics[o] # NULL /\ p = <<o, analytics[o].run>>
  /\ c.pc = "commit" =>
       \A y \in scores : ~(/\ y \notin c.oldScores
                            /\ y.driver \in {r.driver : r \in c.rows} \ {NULL}
                            /\ y.day = c.day)

LEMMA CallStep ==
  ASSUME FactsInv, NEW j \in Etl, NEW c, Moves(j, c),
         etl' = [etl EXCEPT ![j] = c], analytics' = analytics, scores' = scores,
         runs' \in Nat, runs <= runs'
  PROVE FactsInv'
<1> USE DEF FactsInv, Calls
<1>1. /\ etl'[j] = c /\ \A k \in Etl : k # j => etl'[k] = etl[k]
      /\ runs \in Nat /\ c \in Call
      /\ \A k \in Etl : etl[k] \in Call /\ etl[k].run \in Nat
  BY CallParts DEF FactsTyped, Moves
<1>2. FactsTyped'
  <2>1. \A k \in Etl : \A p \in etl'[k].old : p[1] \in OrdersIn(k)'
    BY <1>1 DEF FactsTyped, Moves, OrdersIn
  <2> QED
    BY <1>1, <2>1 DEF FactsTyped
<1>3. Busy'
  BY <1>1 DEF Busy, Moves
<1>4. \A p \in c.old : p[2] <= runs
  BY <1>1 DEF Moves, Past
<1>5. \A o \in Order : analytics[o] # NULL => analytics[o].run \in Nat
  BY RowParts DEF FactsTyped
<1>6. \A x \in scores : x.run \in Nat
  BY DEF FactsTyped, Score
<1>7. \A k \in Etl : \A p \in etl[k].old : p[2] \in Nat
  BY <1>1, CallParts
<1>8. \A p \in c.old : p[2] \in Nat
  BY <1>1, CallParts
<1>9. Past'
  BY <1>1, <1>4, <1>5, <1>6, <1>7, <1>8 DEF Past
<1>10. Fresh'
  <2> SUFFICES ASSUME NEW k \in Etl, etl'[k].pc # "idle"
               PROVE /\ \A o \in Order : analytics[o] # NULL => analytics[o].run # etl'[k].run
                     /\ \A x \in scores : x.run # etl'[k].run
                     /\ \A i \in Etl : \A p \in etl'[i].old : p[2] # etl'[k].run
                     /\ \A i \in Etl : i # k /\ etl'[i].pc # "idle" => etl'[i].run # etl'[k].run
    BY DEF Fresh
  <2>1. CASE k # j
    <3>1. etl'[k] = etl[k] /\ etl[k].run <= runs /\ etl[k].run \in Nat
      BY <1>1, <2>1 DEF Busy
    <3>2. \A p \in c.old : p[2] # etl[k].run
      BY <2>1, <3>1, <1>1 DEF Fresh, Moves
    <3>3. c.pc # "idle" => c.run # etl[k].run
      <4>1. c.run \in Nat
        BY <1>1, CallParts
      <4> QED
        BY <1>1, <2>1, <3>1, <4>1 DEF Fresh, Moves
    <3> QED
      BY <1>1, <2>1, <3>1, <3>2, <3>3 DEF Fresh
  <2>2. CASE k = j /\ etl[j].pc # "idle" /\ c.run = etl[j].run
    <3>1. \A p \in c.old : p[2] # c.run
      BY <2>2 DEF Fresh, Moves
    <3> QED
      BY <1>1, <2>2, <3>1 DEF Fresh
  <2>3. CASE k = j /\ c.run > runs
    <3>1. c.run \in Nat
      BY <1>1, CallParts
    <3>2. \A i \in Etl : i # j /\ etl[i].pc # "idle" => etl[i].run <= runs
      BY DEF Busy
    <3> QED
      BY <1>1, <1>4, <1>5, <1>6, <1>7, <1>8, <2>3, <3>1, <3>2 DEF Past
  <2> QED
    BY <1>1, <2>1, <2>2, <2>3 DEF Moves
<1>11. Unseen'
  <2>1. ASSUME NEW k \in Etl, k # j
        PROVE /\ etl'[k] = etl[k] /\ OrdersIn(k)' = OrdersIn(k)
              /\ DeliveredBy(k)' = DeliveredBy(k)
    BY <1>1, <2>1 DEF OrdersIn, DeliveredBy
  <2>2. DeliveredBy(j)' = {r.driver : r \in c.rows} \ {NULL}
    BY <1>1 DEF DeliveredBy
  <2> QED
    BY <1>1, <2>1, <2>2 DEF Unseen, Moves
<1>12. Scored'
  BY DEF Scored, AllOnTime, Kept, CountedOnce, Matching
<1> QED
  BY <1>2, <1>3, <1>9, <1>10, <1>11, <1>12

LEMMA QuietCall == Quiet = CallRow("idle", 0, NULL, {}, {}, {}) /\ Quiet \in Call
BY DEF Quiet, CallRow, Call

LEMMA QuietStep ==
  ASSUME FactsInv, NEW j \in Etl, etl' = [etl EXCEPT ![j] = Quiet],
         analytics' = analytics, scores' = scores, runs' \in Nat, runs <= runs'
  PROVE FactsInv'
<1>1. Quiet \in Call /\ Quiet.pc = "idle" /\ Quiet.old = {}
  BY QuietCall DEF CallRow
<1> HIDE DEF Quiet
<1>2. Moves(j, Quiet)
  BY <1>1 DEF Moves
<1> QED
  BY <1>2, CallStep

LEMMA StartEtlInv ==
  ASSUME FactsInv, NEW j \in Etl, NEW d \in Day, StartEtl(j, d)
  PROVE FactsInv'
<1> DEFINE delivered == {s \in Stop : DayOf[s] = d /\ stop[s] = "DELIVERED"}
           rows == {[stop |-> s, order |-> OrderOf[s],
                     driver |-> IF DriverOf[s] \in employed THEN DriverOf[s] ELSE NULL]
                    : s \in delivered}
           c == [Quiet EXCEPT !.pc = "rows", !.run = runs + 1, !.day = d, !.rows = rows]
<1>1. /\ etl[j].pc = "idle" /\ runs' = runs + 1 /\ analytics' = analytics /\ scores' = scores
      /\ etl' = [etl EXCEPT ![j] = IF delivered = {} THEN Quiet ELSE c]
  BY DEF StartEtl, EtlAt
<1>2. runs \in Nat
  BY DEF FactsInv, FactsTyped
<1>3. rows \subseteq ReadStop
  BY OversightAssumption DEF ReadStop
<1> HIDE DEF delivered, rows
<1>4. c = CallRow("rows", runs + 1, d, rows, {}, {})
  <2> DEFINE c1 == [Quiet EXCEPT !.pc = "rows"]
             c2 == [c1 EXCEPT !.run = runs + 1]
             c3 == [c2 EXCEPT !.day = d]
             c4 == [c3 EXCEPT !.rows = rows]
  <2>1. c = c4
    OBVIOUS
  <2>2. c1 = CallRow("rows", 0, NULL, {}, {}, {})
    BY DEF Quiet, CallRow
  <2> HIDE DEF c1
  <2>3. c2 = CallRow("rows", runs + 1, NULL, {}, {}, {})
    BY <2>2 DEF CallRow
  <2> HIDE DEF c2
  <2>4. c3 = CallRow("rows", runs + 1, d, {}, {}, {})
    BY <2>3 DEF CallRow
  <2> HIDE DEF c3
  <2>5. c4 = CallRow("rows", runs + 1, d, rows, {}, {})
    BY <2>4 DEF CallRow
  <2> HIDE DEF c4
  <2> QED
    BY <2>1, <2>5
<1> HIDE DEF c
<1>5. /\ c \in Call /\ c.pc = "rows" /\ c.run = runs + 1 /\ c.day = d
      /\ c.rows = rows /\ c.old = {} /\ c.oldScores = {}
  BY <1>2, <1>3, <1>4, CallMade
<1>6. Moves(j, c)
  BY <1>1, <1>2, <1>5 DEF Moves
<1>7. runs' \in Nat /\ runs <= runs'
  BY <1>1, <1>2
<1>8. CASE delivered = {}
  BY <1>1, <1>7, <1>8, QuietStep
<1>9. CASE delivered # {}
  <2>1. etl' = [etl EXCEPT ![j] = c]
    BY <1>1, <1>9
  <2> QED
    BY <1>1, <1>6, <1>7, <2>1, CallStep
<1> QED
  BY <1>8, <1>9

LEMMA DeleteRowsInv ==
  ASSUME FactsInv, NEW j \in Etl, DeleteRows(j)
  PROVE FactsInv'
<1> DEFINE X == {<<o, analytics[o].run>> : o \in Rows \cap OrdersIn(j)}
           c == [etl[j] EXCEPT !.pc = "scores", !.old = X]
           c1 == [etl[j] EXCEPT !.pc = "scores"]
           c2 == [c1 EXCEPT !.old = X]
<1>1. /\ etl[j].pc = "rows" /\ runs' = runs /\ analytics' = analytics /\ scores' = scores
      /\ etl' = [etl EXCEPT ![j] = c]
  BY DEF DeleteRows, EtlAt, Deleting
<1>2. runs \in Nat /\ etl[j] \in Call
  BY DEF FactsInv, FactsTyped
<1>3. X \subseteq Order \X Nat
  BY RowParts DEF Rows, FactsInv, FactsTyped
<1>4. /\ \A p \in X : p[1] \in {r.order : r \in etl[j].rows}
      /\ \A p \in X : \E o \in Order : analytics[o] # NULL /\ p = <<o, analytics[o].run>>
  BY DEF Rows, OrdersIn
<1>5. c = c2
  OBVIOUS
<1> HIDE DEF X
<1>6. etl[j] = CallRow(etl[j].pc, etl[j].run, etl[j].day, etl[j].rows, etl[j].old, etl[j].oldScores)
  BY <1>2, CallParts
<1>7. c1 = CallRow("scores", etl[j].run, etl[j].day, etl[j].rows, etl[j].old, etl[j].oldScores)
  BY <1>6 DEF CallRow
<1> HIDE DEF c1
<1>8. c2 = CallRow("scores", etl[j].run, etl[j].day, etl[j].rows, X, etl[j].oldScores)
  BY <1>7 DEF CallRow
<1> HIDE DEF c, c2
<1>9. /\ c \in Call /\ c.pc = "scores" /\ c.run = etl[j].run /\ c.day = etl[j].day
      /\ c.rows = etl[j].rows /\ c.old = X
  BY <1>2, <1>3, <1>5, <1>8, CallParts, CallMade
<1>10. Moves(j, c)
  BY <1>1, <1>4, <1>9 DEF Moves, FactsInv, Calls, Busy
<1>11. runs' \in Nat /\ runs <= runs'
  BY <1>1, <1>2
<1> QED
  BY <1>1, <1>10, <1>11, CallStep

LEMMA DeleteScoresInv ==
  ASSUME FactsInv, NEW j \in Etl, DeleteScores(j)
  PROVE FactsInv'
<1> DEFINE X == {x \in scores : x.driver \in DeliveredBy(j) /\ x.day = etl[j].day}
           c == [etl[j] EXCEPT !.pc = "commit", !.oldScores = X]
           c1 == [etl[j] EXCEPT !.pc = "commit"]
           c2 == [c1 EXCEPT !.oldScores = X]
<1>1. /\ etl[j].pc = "scores" /\ runs' = runs /\ analytics' = analytics /\ scores' = scores
      /\ etl' = [etl EXCEPT ![j] = c]
  BY DEF DeleteScores, EtlAt, Deleting
<1>2. runs \in Nat /\ etl[j] \in Call /\ scores \subseteq Score
      /\ \A p \in etl[j].old : p[1] \in {r.order : r \in etl[j].rows}
  BY DEF FactsInv, FactsTyped, OrdersIn
<1>3. X \subseteq Score
  BY <1>2
<1>4. \A y \in scores : ~(/\ y \notin X
                           /\ y.driver \in {r.driver : r \in etl[j].rows} \ {NULL}
                           /\ y.day = etl[j].day)
  BY DEF DeliveredBy
<1>5. c = c2
  OBVIOUS
<1> HIDE DEF X
<1>6. etl[j] = CallRow(etl[j].pc, etl[j].run, etl[j].day, etl[j].rows, etl[j].old, etl[j].oldScores)
  BY <1>2, CallParts
<1>7. c1 = CallRow("commit", etl[j].run, etl[j].day, etl[j].rows, etl[j].old, etl[j].oldScores)
  BY <1>6 DEF CallRow
<1> HIDE DEF c1
<1>8. c2 = CallRow("commit", etl[j].run, etl[j].day, etl[j].rows, etl[j].old, X)
  BY <1>7 DEF CallRow
<1> HIDE DEF c, c2
<1>9. /\ c \in Call /\ c.pc = "commit" /\ c.run = etl[j].run /\ c.day = etl[j].day
      /\ c.rows = etl[j].rows /\ c.old = etl[j].old /\ c.oldScores = X
  BY <1>2, <1>3, <1>5, <1>8, CallParts, CallMade
<1>10. Moves(j, c)
  BY <1>1, <1>2, <1>4, <1>9 DEF Moves, FactsInv, Calls, Busy
<1>11. runs' \in Nat /\ runs <= runs'
  BY <1>1, <1>2
<1> QED
  BY <1>1, <1>10, <1>11, CallStep

\* The deletion of a driver leaves the rows, without their driver.
LEMMA DeleteDriverInv ==
  ASSUME FactsInv, NEW d \in Driver, DeleteDriver(d)
  PROVE FactsInv'
<1>1. /\ etl' = etl /\ runs' = runs /\ scores' = {x \in scores : x.driver # d}
      /\ analytics' = [o \in Order |->
           IF analytics[o] # NULL /\ analytics[o].driver = d
           THEN [analytics[o] EXCEPT !.driver = NULL] ELSE analytics[o]]
  BY DEF DeleteDriver
<1>2. ASSUME NEW r \in Row
      PROVE LET q == [r EXCEPT !.driver = NULL] IN
            q \in Row /\ q.driver = NULL /\ q.day = r.day /\ q.run = r.run
  <2>1. [r EXCEPT !.driver = NULL] \in Row
    BY Zenon DEF Row
  <2>2. LET q == [r EXCEPT !.driver = NULL] IN
        q.driver = NULL /\ q.day = r.day /\ q.run = r.run
    BY DEF Row
  <2> QED
    BY <2>1, <2>2
<1>3. analytics \in [Order -> {NULL} \cup Row]
  BY DEF FactsInv, FactsTyped
<1>4. ASSUME NEW o \in Order
      PROVE /\ analytics'[o] \in {NULL} \cup Row
            /\ analytics'[o] = NULL <=> analytics[o] = NULL
            /\ analytics[o] # NULL =>
                 /\ analytics'[o].day = analytics[o].day
                 /\ analytics'[o].run = analytics[o].run
                 /\ analytics'[o].driver = IF analytics[o].driver = d THEN NULL ELSE analytics[o].driver
  <2>1. CASE analytics[o] # NULL /\ analytics[o].driver = d
    <3>1. analytics[o] \in Row /\ analytics'[o] = [analytics[o] EXCEPT !.driver = NULL]
      BY <1>1, <1>3, <2>1
    <3> QED
      BY <1>2, <2>1, <3>1, RowParts
  <2>2. CASE ~(analytics[o] # NULL /\ analytics[o].driver = d)
    <3>1. analytics'[o] = analytics[o]
      BY <1>1, <2>2
    <3> QED
      BY <1>3, <2>2, <3>1
  <2> QED
    BY <2>1, <2>2
<1>5. FactsTyped'
  <2>1. analytics' \in [Order -> {NULL} \cup Row]
    <3>1. analytics' = [o \in Order |-> analytics'[o]]
      BY <1>1
    <3> QED
      BY <1>4, <3>1
  <2>2. \A j \in Etl : \A p \in etl'[j].old : p[1] \in OrdersIn(j)'
    BY <1>1 DEF FactsInv, FactsTyped, OrdersIn
  <2> QED
    BY <1>1, <2>1, <2>2 DEF FactsInv, FactsTyped
<1>6. Calls'
  <2>1. Busy'
    BY <1>1 DEF FactsInv, Calls, Busy
  <2>2. Past'
    BY <1>1, <1>4 DEF FactsInv, Calls, Past
  <2>3. Fresh'
    BY <1>1, <1>4 DEF FactsInv, Calls, Fresh
  <2>4. Unseen'
    <3>1. ASSUME NEW j \in Etl
          PROVE OrdersIn(j)' = OrdersIn(j) /\ DeliveredBy(j)' = DeliveredBy(j) /\ OrdersIn(j) \subseteq Order
      <4>1. etl[j].rows \subseteq ReadStop
        BY CallParts DEF FactsInv, FactsTyped
      <4> QED
        BY <1>1, <4>1 DEF OrdersIn, DeliveredBy, ReadStop
    <3>2. Unseen
      BY DEF FactsInv, Calls
    <3> QED
      BY <1>1, <1>4, <3>1, <3>2 DEF Unseen
  <2> QED
    BY <2>1, <2>2, <2>3, <2>4 DEF Calls
<1>7. Scored'
  <2>1. \A x \in scores' : x \in scores /\ x.driver # d /\ x.driver # NULL /\ x.orders \subseteq Order
    BY <1>1, OversightAssumption DEF FactsInv, FactsTyped, Score
  <2>2. AllOnTime' /\ CountedOnce'
    BY <2>1 DEF FactsInv, Scored, AllOnTime, CountedOnce
  <2>3. Kept'
    BY <1>4, <2>1 DEF FactsInv, Scored, Kept
  <2>4. Matching'
    BY <1>4, <2>1 DEF FactsInv, Scored, Matching
  <2> QED
    BY <2>2, <2>3, <2>4 DEF Scored
<1> QED
  BY <1>5, <1>6, <1>7 DEF FactsInv

LEMMA OnTimeTyped ==
  ASSUME NEW o
  PROVE OnTime(o) \in {TRUE, NULL}
<1>1. CASE o \in Windowed
  BY <1>1, Zenon DEF OnTime
<1>2. CASE o \notin Windowed
  BY <1>2, Zenon DEF OnTime
<1> QED
  BY <1>1, <1>2, Zenon

LEMMA NewRowParts ==
  ASSUME FactsInv, NEW j \in Etl, etl[j].pc = "commit", NEW r \in etl[j].rows
  PROVE /\ NewRow(j, r) \in Row
        /\ NewRow(j, r).driver = r.driver
        /\ NewRow(j, r).day = etl[j].day
        /\ NewRow(j, r).run = etl[j].run
<1>1. etl[j] \in Call /\ etl[j].day \in Day
  BY DEF FactsInv, FactsTyped, Calls, Busy
<1>2. r \in ReadStop /\ etl[j].run \in Nat
  BY <1>1, CallParts
<1>3. r.driver \in Driver \cup {NULL}
  BY <1>2 DEF ReadStop
<1>4. NewRow(j, r) \in Row
  BY <1>1, <1>2, <1>3, OnTimeTyped, Zenon DEF NewRow, Row
<1>5. /\ NewRow(j, r).driver = r.driver
      /\ NewRow(j, r).day = etl[j].day
      /\ NewRow(j, r).run = etl[j].run
  BY DEF NewRow
<1> QED
  BY <1>4, <1>5

LEMMA NewScoreParts ==
  ASSUME FactsInv, NEW j \in Etl, etl[j].pc = "commit", NEW d \in DeliveredBy(j)
  PROVE LET x == NewScore(j, d) IN
        /\ x \in Score
        /\ x.driver = d /\ x.day = etl[j].day /\ x.run = etl[j].run
        /\ x.orders = {r.order : r \in {q \in etl[j].rows : q.driver = d}}
        /\ x.onTime = x.orders
<1>1. etl[j] \in Call /\ etl[j].day \in Day
  BY DEF FactsInv, FactsTyped, Calls, Busy
<1>2. etl[j].rows \subseteq ReadStop /\ etl[j].run \in Nat
  BY <1>1, CallParts
<1>3. d \in Driver
  BY <1>2 DEF DeliveredBy, ReadStop
<1> DEFINE orders == {r.order : r \in {q \in etl[j].rows : q.driver = d}}
           onTime == {o \in orders : OnTime(o) \in {TRUE, NULL}}
<1>4. orders \subseteq Order
  BY <1>2 DEF ReadStop
<1>5. NewScore(j, d) = [driver |-> d, day |-> etl[j].day, run |-> etl[j].run,
                        orders |-> orders, onTime |-> onTime]
  BY DEF NewScore
<1>6. onTime = orders
  BY OnTimeTyped, Zenon
<1>7. orders = {r.order : r \in {q \in etl[j].rows : q.driver = d}}
  OBVIOUS
<1> HIDE DEF orders, onTime
<1>8. NewScore(j, d) = [driver |-> d, day |-> etl[j].day, run |-> etl[j].run,
                        orders |-> orders, onTime |-> orders]
  BY <1>5, <1>6
<1> QED
  BY <1>1, <1>2, <1>3, <1>4, <1>7, <1>8 DEF Score

\* The commit writes one row of each delivered order and leaves the others.
LEMMA Written ==
  ASSUME FactsInv, NEW j \in Etl, etl[j].pc = "commit", RowsFree(j), Write(j)
  PROVE /\ analytics' \in [Order -> {NULL} \cup Row]
        /\ \A o \in Order : o \notin OrdersIn(j) => analytics'[o] = analytics[o]
        /\ \A o \in OrdersIn(j) :
             /\ o \in Order /\ analytics'[o] # NULL
             /\ analytics'[o].day = etl[j].day /\ analytics'[o].run = etl[j].run
        /\ \A r \in etl[j].rows : analytics'[r.order].driver = r.driver
<1>1. analytics' = [o \in Order |->
        IF o \in OrdersIn(j)
        THEN NewRow(j, CHOOSE r \in etl[j].rows : r.order = o) ELSE analytics[o]]
  BY DEF Write
<1>2. analytics \in [Order -> {NULL} \cup Row]
  BY DEF FactsInv, FactsTyped
<1>3. etl[j].rows \subseteq ReadStop
  BY CallParts DEF FactsInv, FactsTyped
<1>4. ASSUME NEW r \in etl[j].rows
      PROVE /\ r.order \in OrdersIn(j) /\ r.order \in Order
            /\ analytics'[r.order] = NewRow(j, r)
  <2>1. r.order \in OrdersIn(j) /\ r.order \in Order
    BY <1>3 DEF OrdersIn, ReadStop
  <2>2. (CHOOSE q \in etl[j].rows : q.order = r.order) = r
    BY DEF RowsFree
  <2> HIDE DEF NewRow
  <2> QED
    BY <1>1, <2>1, <2>2
<1>5. \A o \in OrdersIn(j) : \E r \in etl[j].rows : o = r.order
  BY DEF OrdersIn
<1>6. \A o \in Order : o \notin OrdersIn(j) => analytics'[o] = analytics[o]
  BY <1>1
<1>7. ASSUME NEW o \in OrdersIn(j)
      PROVE /\ o \in Order /\ analytics'[o] # NULL /\ analytics'[o] \in Row
            /\ analytics'[o].day = etl[j].day /\ analytics'[o].run = etl[j].run
  BY <1>4, <1>5, NewRowParts, RowParts
<1>8. analytics' \in [Order -> {NULL} \cup Row]
  <2>1. analytics' = [o \in Order |-> analytics'[o]]
    BY <1>1
  <2> QED
    BY <1>2, <1>6, <1>7, <2>1
<1> QED
  BY <1>4, <1>6, <1>7, <1>8, NewRowParts

LEMMA Quieted ==
  ASSUME FactsInv, NEW j \in Etl, etl' = [etl EXCEPT ![j] = Quiet]
  PROVE /\ etl'[j].pc = "idle" /\ etl'[j].old = {}
        /\ \A k \in Etl : k # j =>
             /\ etl'[k] = etl[k]
             /\ OrdersIn(k)' = OrdersIn(k) /\ DeliveredBy(k)' = DeliveredBy(k)
        /\ etl' \in [Etl -> Call]
        /\ \A k \in Etl : etl'[k].pc # "idle" => k # j
<1>1. Quiet \in Call /\ Quiet.pc = "idle" /\ Quiet.old = {}
  BY QuietCall DEF CallRow
<1> HIDE DEF Quiet
<1>2. etl \in [Etl -> Call]
  BY DEF FactsInv, FactsTyped
<1>3. etl'[j] = Quiet /\ \A k \in Etl : k # j => etl'[k] = etl[k]
  BY <1>2
<1> QED
  BY <1>1, <1>2, <1>3 DEF OrdersIn, DeliveredBy

LEMMA WriteInv ==
  ASSUME FactsInv, NEW j \in Etl, etl[j].pc = "commit", RowsFree(j), Write(j),
         etl' = [etl EXCEPT ![j] = Quiet], runs' = runs
  PROVE FactsInv'
<1> DEFINE New == {NewScore(j, d) : d \in DeliveredBy(j)}
<1>1. scores' = (scores \ etl[j].oldScores) \cup New
  BY DEF Write
<1>2. ASSUME NEW x \in New
      PROVE /\ x \in Score /\ x.driver \in DeliveredBy(j)
            /\ x.day = etl[j].day /\ x.run = etl[j].run
            /\ x.orders = {r.order : r \in {q \in etl[j].rows : q.driver = x.driver}}
            /\ x.orders \subseteq OrdersIn(j)
            /\ x.onTime = x.orders
            /\ \A y \in New : y.driver = x.driver => y = x
  <2>1. PICK d \in DeliveredBy(j) : x = NewScore(j, d)
    OBVIOUS
  <2>2. /\ x \in Score /\ x.driver = d
        /\ x.day = etl[j].day /\ x.run = etl[j].run
        /\ x.orders = {r.order : r \in {q \in etl[j].rows : q.driver = d}}
        /\ x.onTime = x.orders
    BY <2>1, NewScoreParts
  <2>3. x.orders \subseteq OrdersIn(j)
    BY <2>2 DEF OrdersIn
  <2>4. \A y \in New : \E e \in DeliveredBy(j) : y = NewScore(j, e) /\ y.driver = e
    BY NewScoreParts
  <2> QED
    BY <2>1, <2>2, <2>3, <2>4
<1> HIDE DEF New
<1>3. /\ analytics' \in [Order -> {NULL} \cup Row]
      /\ \A o \in Order : o \notin OrdersIn(j) => analytics'[o] = analytics[o]
      /\ \A o \in OrdersIn(j) :
           /\ o \in Order /\ analytics'[o] # NULL
           /\ analytics'[o].day = etl[j].day /\ analytics'[o].run = etl[j].run
      /\ \A r \in etl[j].rows : analytics'[r.order].driver = r.driver
  BY Written
<1>4. /\ etl'[j].pc = "idle" /\ etl'[j].old = {}
      /\ \A k \in Etl : k # j =>
           /\ etl'[k] = etl[k]
           /\ OrdersIn(k)' = OrdersIn(k) /\ DeliveredBy(k)' = DeliveredBy(k)
      /\ etl' \in [Etl -> Call]
      /\ \A k \in Etl : etl'[k].pc # "idle" => k # j
  BY Quieted
<1>5. \A x \in scores' : (x \in scores /\ x \notin etl[j].oldScores) \/ x \in New
  BY <1>1
<1>6. /\ scores \subseteq Score /\ \A x \in Score : x.orders \subseteq Order
      /\ etl[j].run <= runs
  BY DEF FactsInv, FactsTyped, Score, Calls, Busy
<1>7. FactsTyped'
  <2>1. scores' \subseteq Score
    BY <1>2, <1>5, <1>6
  <2>2. \A k \in Etl : \A p \in etl'[k].old : p[1] \in OrdersIn(k)'
    BY <1>4 DEF FactsInv, FactsTyped
  <2> QED
    BY <1>3, <1>4, <2>1, <2>2 DEF FactsInv, FactsTyped
<1>8. Calls'
  <2>1. Busy'
    BY <1>4 DEF FactsInv, Calls, Busy
  <2>2. Past'
    <3>1. \A o \in Order : analytics'[o] # NULL => analytics'[o].run <= runs
      BY <1>3, <1>6 DEF FactsInv, Calls, Past
    <3>2. \A x \in scores' : x.run <= runs
      BY <1>2, <1>5, <1>6 DEF FactsInv, Calls, Past
    <3>3. \A k \in Etl : \A p \in etl'[k].old : p[2] <= runs
      BY <1>4 DEF FactsInv, Calls, Past
    <3> QED
      BY <3>1, <3>2, <3>3 DEF Past
  <2>3. Fresh'
    <3> SUFFICES ASSUME NEW k \in Etl, etl'[k].pc # "idle"
                 PROVE /\ \A o \in Order : analytics'[o] # NULL => analytics'[o].run # etl'[k].run
                       /\ \A x \in scores' : x.run # etl'[k].run
                       /\ \A i \in Etl : \A p \in etl'[i].old : p[2] # etl'[k].run
                       /\ \A i \in Etl : i # k /\ etl'[i].pc # "idle" => etl'[i].run # etl'[k].run
      BY DEF Fresh
    <3>1. k # j /\ etl'[k] = etl[k] /\ etl[k].pc # "idle"
      BY <1>4
    <3>2. etl[j].run # etl[k].run
      BY <3>1 DEF FactsInv, Calls, Fresh
    <3>3. \A o \in Order : analytics'[o] # NULL => analytics'[o].run # etl[k].run
      BY <1>3, <3>1, <3>2 DEF FactsInv, Calls, Fresh
    <3>4. \A x \in scores' : x.run # etl[k].run
      BY <1>2, <1>5, <3>1, <3>2 DEF FactsInv, Calls, Fresh
    <3>5. \A i \in Etl : \A p \in etl'[i].old : p[2] # etl[k].run
      BY <1>4, <3>1 DEF FactsInv, Calls, Fresh
    <3>6. \A i \in Etl : i # k /\ etl'[i].pc # "idle" => etl'[i].run # etl[k].run
      BY <1>4, <3>1 DEF FactsInv, Calls, Fresh
    <3> QED
      BY <3>1, <3>3, <3>4, <3>5, <3>6
  <2>4. Unseen'
    <3> SUFFICES ASSUME NEW k \in Etl, etl'[k].pc = "commit",
                        NEW y \in scores', y \notin etl'[k].oldScores,
                        y.driver \in DeliveredBy(k)', y.day = etl'[k].day,
                        NEW o \in OrdersIn(k)', o \in y.orders
                 PROVE analytics'[o] # NULL /\ <<o, analytics'[o].run>> \notin etl'[k].old
      BY DEF Unseen
    <3>1. k # j /\ etl'[k] = etl[k] /\ OrdersIn(k)' = OrdersIn(k) /\ DeliveredBy(k)' = DeliveredBy(k)
      BY <1>4
    <3>2. \A p \in etl[k].old : p[2] # etl[j].run
      BY DEF FactsInv, Calls, Fresh
    <3>3. CASE o \in OrdersIn(j)
      <4>1. analytics'[o] # NULL /\ analytics'[o].run = etl[j].run
        BY <1>3, <3>3
      <4> QED
        BY <3>1, <3>2, <4>1
    <3>4. CASE o \notin OrdersIn(j)
      <4>1. y \in scores
        BY <1>2, <1>5, <3>4
      <4>2. analytics[o] # NULL /\ <<o, analytics[o].run>> \notin etl[k].old
        BY <3>1, <4>1 DEF FactsInv, Calls, Unseen
      <4>3. o \in Order
        BY <1>6, <4>1
      <4> QED
        BY <1>3, <3>1, <3>4, <4>2, <4>3
    <3> QED
      BY <3>3, <3>4
  <2> QED
    BY <2>1, <2>2, <2>3, <2>4 DEF Calls
<1>9. Scored'
  <2>1. AllOnTime'
    BY <1>2, <1>5 DEF FactsInv, Scored, AllOnTime
  <2>2. Kept'
    <3>1. ASSUME NEW o \in Order, analytics[o] # NULL
          PROVE analytics'[o] # NULL
      BY <1>3, <3>1
    <3> QED
      BY <1>2, <1>3, <1>5, <1>6, <3>1 DEF FactsInv, Scored, Kept
  <2>3. CountedOnce'
    <3>1. ASSUME NEW x \in New, NEW y \in scores, y \notin etl[j].oldScores,
                 x.driver = y.driver, x.day = y.day, NEW o \in x.orders, o \in y.orders
          PROVE FALSE
      <4>1. o \in OrdersIn(j) /\ y.driver \in DeliveredBy(j) /\ y.day = etl[j].day
        BY <1>2, <3>1
      <4>2. analytics[o] # NULL /\ <<o, analytics[o].run>> \notin etl[j].old /\ o \in Order
        BY <1>3, <3>1, <4>1 DEF FactsInv, Calls, Unseen
      <4> QED
        BY <4>1, <4>2 DEF RowsFree, Rows
    <3> SUFFICES ASSUME NEW x \in scores', NEW y \in scores', x # y,
                        x.driver = y.driver, x.day = y.day
                 PROVE x.orders \cap y.orders = {}
      BY DEF CountedOnce
    <3>2. CASE x \in New /\ y \in New
      BY <1>2, <3>2
    <3>3. CASE x \in New /\ y \in scores /\ y \notin etl[j].oldScores
      BY <3>1, <3>3
    <3>4. CASE y \in New /\ x \in scores /\ x \notin etl[j].oldScores
      BY <3>1, <3>4
    <3>5. CASE x \in scores /\ y \in scores
      BY <3>5 DEF FactsInv, Scored, CountedOnce
    <3> QED
      BY <1>5, <3>2, <3>3, <3>4, <3>5
  <2>4. Matching'
    <3> SUFFICES ASSUME NEW x \in scores', NEW o \in Order,
                        analytics'[o] # NULL, analytics'[o].run = x.run
                 PROVE /\ analytics'[o].day = x.day
                       /\ o \in x.orders <=> analytics'[o].driver = x.driver
      BY DEF Matching
    <3>1. CASE x \in New
      <4>1. o \in OrdersIn(j)
        BY <1>2, <1>3, <3>1 DEF FactsInv, Calls, Fresh
      <4>2. analytics'[o].day = x.day
        BY <1>2, <1>3, <3>1, <4>1
      <4>3. PICK r \in etl[j].rows : r.order = o
        BY <4>1 DEF OrdersIn
      <4>4. analytics'[o].driver = r.driver
        BY <1>3, <4>3
      <4>5. \A q \in etl[j].rows : q.order = o => q = r
        BY <4>3 DEF RowsFree
      <4>6. o \in x.orders <=> r.driver = x.driver
        BY <1>2, <3>1, <4>3, <4>5
      <4> QED
        BY <4>2, <4>4, <4>6
    <3>2. CASE x \in scores
      <4>1. o \notin OrdersIn(j)
        BY <1>3, <3>2 DEF FactsInv, Calls, Fresh
      <4> QED
        BY <1>3, <3>2, <4>1 DEF FactsInv, Scored, Matching
    <3> QED
      BY <1>5, <3>1, <3>2
  <2> QED
    BY <2>1, <2>2, <2>3, <2>4 DEF Scored
<1> QED
  BY <1>7, <1>8, <1>9 DEF FactsInv

LEMMA FactsStill ==
  ASSUME FactsInv, UNCHANGED facts
  PROVE FactsInv'
BY DEF facts, FactsInv, FactsTyped, Calls, Scored, Busy, Past, Fresh, Unseen,
       AllOnTime, Kept, CountedOnce, Matching, OrdersIn, DeliveredBy

LEMMA CommitEtlInv ==
  ASSUME FactsInv, NEW j \in Etl, CommitEtl(j)
  PROVE FactsInv'
<1>1. /\ etl[j].pc = "commit" /\ etl' = [etl EXCEPT ![j] = Quiet] /\ runs' = runs
      /\ IF RowsFree(j) /\ DeliveredBy(j) \subseteq employed
         THEN Write(j) ELSE UNCHANGED <<analytics, scores>>
  BY DEF CommitEtl, EtlAt
<1>2. CASE RowsFree(j) /\ DeliveredBy(j) \subseteq employed
  BY <1>1, <1>2, WriteInv
<1>3. CASE ~(RowsFree(j) /\ DeliveredBy(j) \subseteq employed)
  <2>1. analytics' = analytics /\ scores' = scores
    BY <1>1, <1>3
  <2>2. runs' \in Nat /\ runs <= runs'
    BY <1>1 DEF FactsInv, FactsTyped
  <2> QED
    BY <1>1, <2>1, <2>2, QuietStep
<1> QED
  BY <1>2, <1>3

LEMMA StopEtlInv ==
  ASSUME FactsInv, NEW j \in Etl, StopEtl(j)
  PROVE FactsInv'
<1>1. /\ etl' = [etl EXCEPT ![j] = Quiet] /\ runs' = runs
      /\ analytics' = analytics /\ scores' = scores
  BY DEF StopEtl
<1>2. runs' \in Nat /\ runs <= runs'
  BY <1>1 DEF FactsInv, FactsTyped
<1> QED
  BY <1>1, <1>2, QuietStep

LEMMA FactsStep ==
  ASSUME FactsInv, [Next]_vars
  PROVE FactsInv'
<1>1. CASE UNCHANGED vars
  BY <1>1, FactsStill DEF vars
<1>2. CASE DriverStep
  <2>1. ASSUME NEW s \in Stop, NEW st \in Report, ReportStop(s, st)
        PROVE FactsInv'
    BY <2>1, FactsStill DEF ReportStop
  <2>2. ASSUME NEW d \in Driver, Ping(d) \/ Expire(d)
        PROVE FactsInv'
    BY <2>2, FactsStill DEF Ping, Expire
  <2> QED
    BY <1>2, <2>1, <2>2, DeleteDriverInv DEF DriverStep
<1>3. ASSUME NEW m \in Scanner, MonitorStep(m)
      PROVE FactsInv'
  BY <1>3, FactsStill DEF MonitorStep, StartScan, CheckStop, EndScan, StopScan
<1>4. ASSUME NEW x \in Warning, NEW st \in {"ACCEPTED", "DISMISSED"}, Decide(x, st)
      PROVE FactsInv'
  BY <1>4, FactsStill DEF Decide
<1>5. ASSUME NEW j \in Etl, EtlStep(j)
      PROVE FactsInv'
  BY <1>5, StartEtlInv, DeleteRowsInv, DeleteScoresInv, CommitEtlInv, StopEtlInv DEF EtlStep
<1> QED
  BY <1>1, <1>2, <1>3, <1>4, <1>5 DEF Next

LEMMA FactsInit ==
  ASSUME Init
  PROVE FactsInv
<1>1. Quiet \in Call /\ Quiet.pc = "idle" /\ Quiet.old = {}
  BY QuietCall DEF CallRow
<1>2. /\ analytics = [o \in Order |-> NULL] /\ scores = {} /\ runs = 0
      /\ etl = [j \in Etl |-> Quiet]
  BY DEF Init
<1> HIDE DEF Quiet
<1>3. FactsTyped
  BY <1>1, <1>2 DEF FactsTyped
<1>4. Calls
  BY <1>1, <1>2 DEF Calls, Busy, Past, Fresh, Unseen
<1>5. Scored
  BY <1>2 DEF Scored, AllOnTime, Kept, CountedOnce, Matching
<1> QED
  BY <1>3, <1>4, <1>5 DEF FactsInv

LEMMA FactsBacked ==
  ASSUME FactsInv
  PROVE ScoresBacked
<1>1. \A o \in Order : analytics[o] # NULL => analytics[o].day \in Day
  BY RowParts DEF FactsInv, FactsTyped
<1>2. \A x \in scores : x.orders \subseteq Order
  BY DEF FactsInv, FactsTyped, Score
<1>3. \A x \in scores : x.onTime = x.orders
  BY DEF FactsInv, Scored, AllOnTime
<1>4. \A x \in scores : \A o \in x.orders : analytics[o] # NULL
  BY DEF FactsInv, Scored, Kept
<1>5. ASSUME NEW d \in Driver
      PROVE LET own == DriverPerformance(d, Day) IN
            /\ own.orders \subseteq Kpis(Day).orders
            /\ own.orders \cap Kpis(Day).onTime \subseteq own.onTime
  <2> DEFINE mine == {x \in scores : x.driver = d /\ x.day \in Day}
             own == DriverPerformance(d, Day)
  <2>1. own.orders = UNION {x.orders : x \in mine} /\ own.onTime = UNION {x.onTime : x \in mine}
    BY DEF DriverPerformance
  <2>2. Kpis(Day).orders = {o \in Rows : analytics[o].day \in Day}
    BY DEF Kpis
  <2>3. own.orders \subseteq Kpis(Day).orders
    BY <1>1, <1>2, <1>4, <2>1, <2>2 DEF Rows
  <2>4. own.orders \subseteq own.onTime
    BY <1>3, <2>1
  <2> QED
    BY <2>3, <2>4
<1>6. \A x \in scores, o \in Rows : analytics[o].run = x.run =>
        /\ analytics[o].day = x.day
        /\ o \in x.orders <=> analytics[o].driver = x.driver
  BY DEF FactsInv, Scored, Matching, Rows
<1> QED
  BY <1>5, <1>6 DEF ScoresBacked

-----------------------------------------------------------------------------
(* Theorems *)

\* The scheduler's processes and the ETL's calls do not meet in what they write: the
\* inductive invariant is one of each.
IInv == DriversTyped /\ MonitorInv /\ FactsInv

LEMMA DriversStep ==
  ASSUME DriversTyped, [Next]_vars
  PROVE DriversTyped'
<1> USE DEF DriversTyped
<1>1. CASE UNCHANGED vars
  BY <1>1 DEF vars
<1>2. CASE DriverStep
  <2>1. ASSUME NEW s \in Stop, NEW st \in Report, ReportStop(s, st)
        PROVE DriversTyped'
    BY <2>1 DEF ReportStop
  <2>2. ASSUME NEW d \in Driver, Ping(d) \/ Expire(d) \/ DeleteDriver(d)
        PROVE DriversTyped'
    BY <2>2 DEF Ping, Expire, DeleteDriver
  <2> QED
    BY <1>2, <2>1, <2>2 DEF DriverStep
<1>3. ASSUME NEW m \in Scanner, MonitorStep(m)
      PROVE DriversTyped'
  BY <1>3 DEF MonitorStep, StartScan, CheckStop, EndScan, StopScan
<1>4. ASSUME NEW x \in Warning, NEW st \in {"ACCEPTED", "DISMISSED"}, Decide(x, st)
      PROVE DriversTyped'
  BY <1>4 DEF Decide
<1>5. ASSUME NEW j \in Etl, EtlStep(j)
      PROVE DriversTyped'
  BY <1>5 DEF EtlStep, StartEtl, DeleteRows, DeleteScores, CommitEtl, StopEtl, Deleting
<1> QED
  BY <1>1, <1>2, <1>3, <1>4, <1>5 DEF Next

\* The three parts of the invariant hold through every step of drivers, scans,
\* decisions and ETL calls.
THEOREM OversightInvariant == Spec => []IInv
<1>1. Init => IInv
  BY MonitorInit, FactsInit DEF IInv, Init, DriversTyped
<1>2. IInv /\ [Next]_vars => IInv'
  BY DriversStep, MonitorStepInv, FactsStep DEF IInv
<1> QED
  BY <1>1, <1>2, PTL DEF Spec

\* Columns, scans and ETL calls hold values of their types.
THEOREM OversightTyped == Spec => []TypeOK
<1>1. IInv => TypeOK
  BY Typed DEF IInv, MonitorInv, FactsInv
<1> QED
  BY <1>1, OversightInvariant, PTL

\* A stop has at most one open warning for each process that runs the monitor job.
THEOREM OversightBounded == Spec => []WarningsBounded
<1>1. IInv => WarningsBounded
  BY MonitorBounded DEF IInv
<1> QED
  BY <1>1, OversightInvariant, PTL

\* No two scores of a driver count one delivery of a day, however ETL calls overlap.
THEOREM OversightCounts == Spec => []CountedOnce
<1>1. IInv => CountedOnce
  BY DEF IInv, FactsInv, Scored
<1> QED
  BY <1>1, OversightInvariant, PTL

\* A driver's performance and the KPIs are drawn from the same deliveries.
THEOREM OversightBacked == Spec => []ScoresBacked
<1>1. IInv => ScoresBacked
  BY FactsBacked DEF IInv
<1> QED
  BY <1>1, OversightInvariant, PTL
=============================================================================
