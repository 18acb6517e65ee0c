--------------------------- MODULE PlatformProofs ---------------------------
(***************************************************************************)
(* Safety of accounts and of the AI providers, for any requests, accounts, *)
(* addresses, names and rows.                                              *)
(***************************************************************************)
EXTENDS Platform, FiniteSetTheorems, TLAPS

-----------------------------------------------------------------------------
(* Counting what is there and who is about to add to it *)

LEMMA Shrinks ==
  ASSUME NEW S, NEW T, IsFiniteSet(S), IsFiniteSet(T), NEW N \in Nat,
         Cardinality(S) + Cardinality(T) <= N,
         NEW S1 \in SUBSET S, NEW T1 \in SUBSET T
  PROVE Cardinality(S1) + Cardinality(T1) <= N
<1>1. /\ IsFiniteSet(S1) /\ Cardinality(S1) <= Cardinality(S)
      /\ IsFiniteSet(T1) /\ Cardinality(T1) <= Cardinality(T)
  BY FS_Subset
<1>2. /\ Cardinality(S) \in Nat /\ Cardinality(T) \in Nat
      /\ Cardinality(S1) \in Nat /\ Cardinality(T1) \in Nat
  BY <1>1, FS_CardinalityType
<1> QED
  BY <1>1, <1>2

\* One of those about to add does so.
LEMMA Passes ==
  ASSUME NEW S, NEW T, IsFiniteSet(S), IsFiniteSet(T), NEW N \in Nat,
         Cardinality(S) + Cardinality(T) <= N,
         NEW x, NEW w \in T, NEW S1 \in SUBSET (S \cup {x}), NEW T1 \in SUBSET (T \ {w})
  PROVE Cardinality(S1) + Cardinality(T1) <= N
<1>1. /\ IsFiniteSet(S \cup {x}) /\ Cardinality(S \cup {x}) <= Cardinality(S) + 1
  <2>1. IsFiniteSet(S \cup {x})
    BY FS_AddElement
  <2>2. Cardinality(S \cup {x}) = Cardinality(S) \/ Cardinality(S \cup {x}) = Cardinality(S) + 1
    BY FS_AddElement
  <2>3. Cardinality(S) \in Nat
    BY FS_CardinalityType
  <2> QED
    BY <2>1, <2>2, <2>3
<1>2. IsFiniteSet(T \ {w}) /\ Cardinality(T \ {w}) = Cardinality(T) - 1
  BY FS_RemoveElement
<1>3. /\ Cardinality(S) \in Nat /\ Cardinality(T) \in Nat
      /\ Cardinality(S \cup {x}) \in Nat /\ Cardinality(T \ {w}) \in Nat
  BY <1>1, <1>2, FS_CardinalityType
<1>4. Cardinality(S \cup {x}) + Cardinality(T \ {w}) <= N
  BY <1>1, <1>2, <1>3
<1> QED
  BY <1>1, <1>2, <1>4, Shrinks

\* Nothing is there: those about to add are requests under way.
LEMMA NoneYet ==
  ASSUME NEW S, S = {}, NEW T \in SUBSET Worker
  PROVE Cardinality(S) + Cardinality(T) <= Cardinality(Worker)
<1>1. Cardinality(S) = 0
  BY FS_EmptySet
<1>2. IsFiniteSet(T) /\ Cardinality(T) <= Cardinality(Worker)
  BY FS_Subset, PlatformAssumption
<1>3. Cardinality(T) \in Nat /\ Cardinality(Worker) \in Nat
  BY <1>2, FS_CardinalityType, PlatformAssumption
<1> QED
  BY <1>1, <1>2, <1>3

-----------------------------------------------------------------------------
(* Requests *)

Record(pc, account, email, name, isDefault, row, seen, overtaken, change) ==
  [pc |-> pc, account |-> account, email |-> email, name |-> name,
   isDefault |-> isDefault, row |-> row, seen |-> seen, overtaken |-> overtaken,
   change |-> change]

LEMMA Parts ==
  ASSUME NEW r \in Request
  PROVE r = Record(r.pc, r.account, r.email, r.name, r.isDefault, r.row, r.seen,
                   r.overtaken, r.change)
BY DEF Request, Record

LEMMA IdleParts ==
  /\ Idle = Record("idle", NULL, NULL, NULL, FALSE, NULL, {}, FALSE,
                   [admin |-> NULL, active |-> NULL])
  /\ Idle \in Request /\ Idle.pc = "idle"
  /\ Idle.row = NULL /\ Idle.name = NULL
BY DEF Idle, Record, Request, Change

\* A request at another step, with other data for it.
LEMMA StepParts ==
  ASSUME NEW r \in Request, NEW pc
  PROVE [r EXCEPT !.pc = pc] =
          Record(pc, r.account, r.email, r.name, r.isDefault, r.row, r.seen,
                 r.overtaken, r.change)
<1> DEFINE o == Record(r.pc, r.account, r.email, r.name, r.isDefault, r.row, r.seen,
                       r.overtaken, r.change)
<1>1. r = o
  BY Parts
<1>2. [o EXCEPT !.pc = pc] =
        Record(pc, r.account, r.email, r.name, r.isDefault, r.row, r.seen, r.overtaken,
               r.change)
  BY DEF Record
<1> HIDE DEF o
<1> QED
  BY <1>1, <1>2

WithEmail(r, pc, x) == [r EXCEPT !.pc = pc, !.email = x]

LEMMA EmailParts ==
  ASSUME NEW r \in Request, NEW pc, NEW x
  PROVE WithEmail(r, pc, x) =
          Record(pc, r.account, x, r.name, r.isDefault, r.row, r.seen, r.overtaken, r.change)
<1> DEFINE n == Record(pc, r.account, r.email, r.name, r.isDefault, r.row, r.seen,
                       r.overtaken, r.change)
<1>1. [n EXCEPT !.email = x] =
        Record(pc, r.account, x, r.name, r.isDefault, r.row, r.seen, r.overtaken, r.change)
  BY DEF Record
<1>2. [r EXCEPT !.pc = pc, !.email = x] = [[r EXCEPT !.pc = pc] EXCEPT !.email = x]
  OBVIOUS
<1>3. [r EXCEPT !.pc = pc] = n
  BY StepParts
<1> HIDE DEF n
<1> QED
  BY <1>1, <1>2, <1>3 DEF WithEmail

WithAccount(r, pc, x, y) == [r EXCEPT !.pc = pc, !.account = x, !.change = y]

LEMMA AccountParts ==
  ASSUME NEW r \in Request, NEW pc, NEW x, NEW y
  PROVE WithAccount(r, pc, x, y) =
          Record(pc, x, r.email, r.name, r.isDefault, r.row, r.seen, r.overtaken, y)
<1> DEFINE n == Record(pc, r.account, r.email, r.name, r.isDefault, r.row, r.seen,
                       r.overtaken, r.change)
           m == Record(pc, x, r.email, r.name, r.isDefault, r.row, r.seen, r.overtaken,
                       r.change)
<1>1. [n EXCEPT !.account = x] = m
  BY DEF Record
<1>2. [m EXCEPT !.change = y] =
        Record(pc, x, r.email, r.name, r.isDefault, r.row, r.seen, r.overtaken, y)
  BY DEF Record
<1>3. [r EXCEPT !.pc = pc, !.account = x, !.change = y] =
        [[[r EXCEPT !.pc = pc] EXCEPT !.account = x] EXCEPT !.change = y]
  OBVIOUS
<1>4. [r EXCEPT !.pc = pc] = n
  BY StepParts
<1> HIDE DEF n, m
<1> QED
  BY <1>1, <1>2, <1>3, <1>4 DEF WithAccount

LEMMA SeenParts ==
  ASSUME NEW r \in Request, NEW pc, NEW x
  PROVE [r EXCEPT !.pc = pc, !.seen = x] =
          Record(pc, r.account, r.email, r.name, r.isDefault, r.row, x, r.overtaken, r.change)
<1> DEFINE n == Record(pc, r.account, r.email, r.name, r.isDefault, r.row, r.seen,
                       r.overtaken, r.change)
<1>1. [n EXCEPT !.seen = x] =
        Record(pc, r.account, r.email, r.name, r.isDefault, r.row, x, r.overtaken, r.change)
  BY DEF Record
<1>2. [r EXCEPT !.pc = pc, !.seen = x] = [[r EXCEPT !.pc = pc] EXCEPT !.seen = x]
  OBVIOUS
<1>3. [r EXCEPT !.pc = pc] = n
  BY StepParts
<1> HIDE DEF n
<1> QED
  BY <1>1, <1>2, <1>3

WithName(r, pc, x, y) == [r EXCEPT !.pc = pc, !.name = x, !.isDefault = y]

LEMMA NamedParts ==
  ASSUME NEW r \in Request, NEW pc, NEW x, NEW y \in BOOLEAN
  PROVE WithName(r, pc, x, y) =
          Record(pc, r.account, r.email, x, y, r.row, r.seen, r.overtaken, r.change)
<1> DEFINE n == Record(pc, r.account, r.email, r.name, r.isDefault, r.row, r.seen,
                       r.overtaken, r.change)
           m == Record(pc, r.account, r.email, x, r.isDefault, r.row, r.seen,
                       r.overtaken, r.change)
<1>1. [n EXCEPT !.name = x] = m
  BY DEF Record
<1>2. [m EXCEPT !.isDefault = y] =
        Record(pc, r.account, r.email, x, y, r.row, r.seen, r.overtaken, r.change)
  BY DEF Record
<1>3. [r EXCEPT !.pc = pc, !.name = x, !.isDefault = y] =
        [[[r EXCEPT !.pc = pc] EXCEPT !.name = x] EXCEPT !.isDefault = y]
  OBVIOUS
<1>4. [r EXCEPT !.pc = pc] = n
  BY StepParts
<1> HIDE DEF n, m
<1> QED
  BY <1>1, <1>2, <1>3, <1>4 DEF WithName

WithRow(r, pc, x, y) == [r EXCEPT !.pc = pc, !.row = x, !.isDefault = y]

LEMMA RowParts ==
  ASSUME NEW r \in Request, NEW pc, NEW x, NEW y \in BOOLEAN
  PROVE WithRow(r, pc, x, y) =
          Record(pc, r.account, r.email, r.name, y, x, r.seen, r.overtaken, r.change)
<1> DEFINE n == Record(pc, r.account, r.email, r.name, r.isDefault, r.row, r.seen,
                       r.overtaken, r.change)
           m == Record(pc, r.account, r.email, r.name, r.isDefault, x, r.seen,
                       r.overtaken, r.change)
<1>1. [n EXCEPT !.row = x] = m
  BY DEF Record
<1>2. [m EXCEPT !.isDefault = y] =
        Record(pc, r.account, r.email, r.name, y, x, r.seen, r.overtaken, r.change)
  BY DEF Record
<1>3. [r EXCEPT !.pc = pc, !.row = x, !.isDefault = y] =
        [[[r EXCEPT !.pc = pc] EXCEPT !.row = x] EXCEPT !.isDefault = y]
  OBVIOUS
<1>4. [r EXCEPT !.pc = pc] = n
  BY StepParts
<1> HIDE DEF n, m
<1> QED
  BY <1>1, <1>2, <1>3, <1>4 DEF WithRow

LEMMA OvertakenParts ==
  ASSUME NEW r \in Request, NEW b \in BOOLEAN
  PROVE [r EXCEPT !.overtaken = b] =
          Record(r.pc, r.account, r.email, r.name, r.isDefault, r.row, r.seen, b, r.change)
<1> DEFINE o == Record(r.pc, r.account, r.email, r.name, r.isDefault, r.row, r.seen,
                       r.overtaken, r.change)
<1>1. r = o
  BY Parts
<1>2. [o EXCEPT !.overtaken = b] =
        Record(r.pc, r.account, r.email, r.name, r.isDefault, r.row, r.seen, b, r.change)
  BY DEF Record
<1> HIDE DEF o
<1> QED
  BY <1>1, <1>2

\* The step gives worker w the request r; all that the others may notice is that a
\* deactivation of theirs was overtaken.
SameWork(v) ==
  /\ act'[v].pc = act[v].pc /\ act'[v].account = act[v].account
  /\ act'[v].email = act[v].email /\ act'[v].name = act[v].name
  /\ act'[v].isDefault = act[v].isDefault /\ act'[v].row = act[v].row
  /\ act'[v].seen = act[v].seen /\ act'[v].change = act[v].change

Moves(w, r) ==
  /\ act' \in [Worker -> Request]
  /\ act'[w] = r
  /\ \A v \in Worker : v # w => SameWork(v)

Only(w) == \A v \in Worker : v # w => act'[v] = act[v]

LEMMA SetMoves ==
  ASSUME TypeOK, NEW w \in Worker, NEW r \in Request, act' = [act EXCEPT ![w] = r]
  PROVE Moves(w, r) /\ Only(w)
BY DEF TypeOK, Moves, Only, SameWork

LEMMA DoneMoves ==
  ASSUME TypeOK, NEW w \in Worker, Done(w)
  PROVE Moves(w, Idle) /\ Only(w)
BY SetMoves, IdleParts DEF Done

LEMMA OvertakingMoves ==
  ASSUME TypeOK, NEW w \in Worker, act' = Overtaking(w)
  PROVE /\ Moves(w, Idle)
        /\ \A v \in Worker : act'[v].pc = "deactivate" => act'[v].overtaken
<1> DEFINE late(v) == act[v].pc = "deactivate"
           row(v) == [act[v] EXCEPT !.overtaken = late(v)]
<1>1. \A v \in Worker : act'[v] = IF v = w THEN Idle ELSE row(v)
  BY DEF Overtaking
<1>2. ASSUME NEW v \in Worker
      PROVE /\ row(v) \in Request /\ row(v).pc = act[v].pc
            /\ row(v).account = act[v].account /\ row(v).email = act[v].email
            /\ row(v).name = act[v].name /\ row(v).isDefault = act[v].isDefault
            /\ row(v).row = act[v].row /\ row(v).seen = act[v].seen
            /\ row(v).overtaken = late(v) /\ row(v).change = act[v].change
  <2>1. act[v] \in Request
    BY DEF TypeOK
  <2>2. late(v) \in BOOLEAN
    OBVIOUS
  <2> HIDE DEF late
  <2>3. row(v) = Record(act[v].pc, act[v].account, act[v].email, act[v].name,
                        act[v].isDefault, act[v].row, act[v].seen, late(v), act[v].change)
    BY <2>1, <2>2, OvertakenParts
  <2> HIDE DEF row
  <2> QED
    BY <2>1, <2>2, <2>3 DEF Record, Request
<1>3. act' = [v \in Worker |-> act'[v]]
  BY DEF Overtaking
<1> HIDE DEF row
<1>4. \A v \in Worker : act'[v] \in Request
  BY <1>1, <1>2, IdleParts
<1>5. act' \in [Worker -> Request]
  BY <1>3, <1>4
<1>6. \A v \in Worker : v # w => SameWork(v) /\ act'[v].overtaken = late(v)
  <2> HIDE DEF late
  <2> QED
    BY <1>1, <1>2 DEF SameWork
<1>7. \A v \in Worker : act'[v].pc = "deactivate" => act'[v].overtaken
  <2> SUFFICES ASSUME NEW v \in Worker, act'[v].pc = "deactivate" PROVE act'[v].overtaken
    OBVIOUS
  <2>1. v # w
    BY <1>1, IdleParts
  <2> QED
    BY <1>6, <2>1 DEF SameWork
<1> QED
  BY <1>1, <1>5, <1>6, <1>7 DEF Moves

-----------------------------------------------------------------------------
(* The invariant *)

Asking(e) == {w \in Worker : act[w].pc = "addUser" /\ act[w].email = e}

Making(n) ==
  {w \in Worker : /\ act[w].pc = "insert" \/ (act[w].pc = "clear" /\ act[w].row = NULL)
                  /\ act[w].name = n}

\* An address, or a name, is had or about to be had by as many as overlap.
Accounts == \A e \in Email : Cardinality(With(e)) + Cardinality(Asking(e)) <= Cardinality(Worker)
Providers == \A n \in Name : Cardinality(Named(n)) + Cardinality(Making(n)) <= Cardinality(Worker)

\* A default of one's own making is cleared with the next one.
OwnDefault == \A r, s \in Defaults : provider[r].by = provider[s].by => r = s
OwnSeen ==
  \A w \in Worker, r \in Live :
    act[w].pc \in {"insert", "set"} /\ act[w].isDefault /\ provider[r].by = w => r \in act[w].seen

Clearing == \A w \in Worker : act[w].pc \in {"clear", "set"} => act[w].isDefault

\* An administrator other than the account was there when a deactivation was
\* authorised, and is there as long as it is not overtaken.
Backed ==
  \A w \in Worker : act[w].pc = "deactivate" /\ ~act[w].overtaken =>
    \E u \in Admins : u # act[w].account

IInv ==
  /\ TypeOK /\ Accounts /\ Providers /\ OwnDefault /\ OwnSeen /\ Clearing /\ Backed

LEMMA WorkerCount == Cardinality(Worker) \in Nat /\ Cardinality(Worker) >= 1
<1>1. Cardinality(Worker) \in Nat /\ Cardinality(Worker) # 0
  BY FS_CardinalityType, FS_EmptySet, PlatformAssumption
<1> QED
  BY <1>1

LEMMA FiniteAll ==
  /\ \A e : IsFiniteSet(With(e)) /\ IsFiniteSet(Asking(e))
  /\ \A n : IsFiniteSet(Named(n)) /\ IsFiniteSet(Making(n))
<1>1. \A e : With(e) \subseteq Account /\ Asking(e) \subseteq Worker
  BY DEF With, Asking
<1>2. \A n : Named(n) \subseteq Row /\ Making(n) \subseteq Worker
  BY DEF Named, Live, Making
<1> QED
  BY <1>1, <1>2, FS_Subset, PlatformAssumption

LEMMA InitInv == Init => IInv
<1> SUFFICES ASSUME Init PROVE IInv
  OBVIOUS
<1>1. PICK e \in Email :
        user = [a \in Account |->
          IF a = Founder THEN [email |-> e, admin |-> TRUE, active |-> TRUE] ELSE NULL]
  BY DEF Init
<1>2. /\ provider = [r \in Row |-> NULL] /\ act \in [Worker -> Request]
      /\ \A w \in Worker : act[w].pc = "idle"
  BY IdleParts DEF Init
<1>3. Live = {} /\ Defaults = {} /\ \A n : Named(n) = {}
  BY <1>2 DEF Live, Defaults, Named
<1>4. TypeOK
  <2>1. [email |-> e, admin |-> TRUE, active |-> TRUE] \in User
    BY DEF User
  <2>2. user \in [Account -> {NULL} \cup User]
    BY <1>1, <2>1
  <2> QED
    BY <1>2, <1>3, <2>2 DEF TypeOK, At
<1>5. Accounts
  <2> SUFFICES ASSUME NEW x \in Email
               PROVE Cardinality(With(x)) + Cardinality(Asking(x)) <= Cardinality(Worker)
    BY DEF Accounts
  <2>1. With(x) \subseteq {Founder} /\ Asking(x) = {}
    BY <1>1, <1>2 DEF With, Asking
  <2>2. Cardinality({Founder}) = 1 /\ IsFiniteSet({Founder})
    BY FS_Singleton
  <2>3. /\ Cardinality(With(x)) <= 1 /\ Cardinality(With(x)) \in Nat
        /\ Cardinality(Asking(x)) = 0
    BY <2>1, <2>2, FS_Subset, FS_CardinalityType, FS_EmptySet
  <2> QED
    BY <2>3, WorkerCount
<1>6. Providers
  BY <1>3, NoneYet DEF Providers, Making
<1>7. OwnDefault /\ OwnSeen /\ Clearing /\ Backed
  BY <1>2, <1>3 DEF OwnDefault, OwnSeen, Clearing, Backed
<1> QED
  BY <1>4, <1>5, <1>6, <1>7 DEF IInv

\* What each part of the invariant asks of a step in which worker w goes on with r.
LEMMA TypedStep ==
  ASSUME TypeOK, NEW w \in Worker, NEW r, Moves(w, r),
         user' \in [Account -> {NULL} \cup User],
         \A a \in Account : user[a] # NULL => user'[a] # NULL,
         provider' \in [Row -> {NULL, Gone} \cup Config],
         \A s \in Row : provider'[s] \in Config =>
           (provider'[s].isDefault <=> provider'[s].by # NULL),
         r.pc = "addUser" => r.email # NULL,
         r.pc \in {"update", "deactivate"} => r.account # NULL /\ user[r.account] # NULL,
         r.pc = "insert" \/ (r.pc = "clear" /\ r.row = NULL) => r.name # NULL,
         r.pc = "set" => r.row # NULL
  PROVE TypeOK'
<1>1. r \in Request
  BY DEF Moves
<1>2. \A s \in Live' : provider'[s] \in Config
  BY DEF Live
<1>3. \A s \in Live' : provider'[s].isDefault <=> provider'[s].by # NULL
  BY <1>2 DEF Live
<1>4. ASSUME NEW v \in Worker
      PROVE /\ act'[v].pc = "addUser" => act'[v].email # NULL
            /\ act'[v].pc \in {"update", "deactivate"} =>
                 act'[v].account # NULL /\ user'[act'[v].account] # NULL
            /\ act'[v].pc = "insert" \/ (act'[v].pc = "clear" /\ act'[v].row = NULL) =>
                 act'[v].name # NULL
            /\ act'[v].pc = "set" => act'[v].row # NULL
  <2>1. CASE v = w
    BY <1>1, <2>1 DEF Moves, Request
  <2>2. CASE v # w
    <3>1. SameWork(v) /\ act[v] \in Request
      BY <2>2 DEF Moves, TypeOK
    <3> QED
      BY <3>1 DEF SameWork, TypeOK, At, Request
  <2> QED
    BY <2>1, <2>2
<1> QED
  BY <1>3, <1>4 DEF TypeOK, Moves, At

LEMMA AccountsStep ==
  ASSUME Accounts, NEW w \in Worker, NEW r, Moves(w, r),
         \A e : With(e)' \subseteq With(e),
         r.pc = "addUser" => With(r.email) = {}
  PROVE Accounts'
<1> SUFFICES ASSUME NEW e \in Email
             PROVE Cardinality(With(e)') + Cardinality(Asking(e)') <= Cardinality(Worker)
  BY DEF Accounts
<1>1. Asking(e)' \subseteq Worker /\ With(e)' \subseteq With(e)
  BY DEF Asking
<1>2. CASE With(e) = {}
  BY <1>1, <1>2, NoneYet
<1>3. CASE With(e) # {}
  <2>1. Asking(e)' \subseteq Asking(e)
    BY <1>3 DEF Asking, Moves, SameWork
  <2> QED
    BY <1>1, <2>1, FiniteAll, WorkerCount, Shrinks DEF Accounts
<1> QED
  BY <1>2, <1>3

LEMMA ProvidersStep ==
  ASSUME Providers, NEW w \in Worker, NEW r, Moves(w, r),
         \A n : Named(n)' \subseteq Named(n),
         r.pc = "insert" \/ (r.pc = "clear" /\ r.row = NULL) =>
           Named(r.name) = {} \/ w \in Making(r.name)
  PROVE Providers'
<1> SUFFICES ASSUME NEW n \in Name
             PROVE Cardinality(Named(n)') + Cardinality(Making(n)') <= Cardinality(Worker)
  BY DEF Providers
<1>1. Making(n)' \subseteq Worker /\ Named(n)' \subseteq Named(n)
  BY DEF Making
<1>2. CASE Named(n) = {}
  BY <1>1, <1>2, NoneYet
<1>3. CASE Named(n) # {}
  <2>1. Making(n)' \subseteq Making(n)
    BY <1>3 DEF Making, Moves, SameWork
  <2> QED
    BY <1>1, <2>1, FiniteAll, WorkerCount, Shrinks DEF Providers
<1> QED
  BY <1>2, <1>3

\* Nobody becomes a default.
LEMMA DefaultsStep ==
  ASSUME TypeOK, OwnDefault, OwnSeen, Clearing, NEW w \in Worker, NEW r, Moves(w, r),
         \A s \in Row : provider'[s] = provider[s] \/ provider'[s] = Gone
                        \/ (s \in Live /\ provider'[s].by = NULL /\ ~provider'[s].isDefault),
         r.pc \in {"insert", "set"} /\ r.isDefault =>
           \A s \in Live : provider[s].by = w => s \in r.seen,
         r.pc \in {"clear", "set"} => r.isDefault
  PROVE OwnDefault' /\ OwnSeen' /\ Clearing'
<1>1. \A s \in Live' : s \in Live /\ (provider'[s] = provider[s]
                                       \/ (provider'[s].by = NULL /\ ~provider'[s].isDefault))
  BY DEF Live
<1>2. OwnDefault'
  BY <1>1 DEF OwnDefault, Defaults
<1>3. OwnSeen'
  <2> SUFFICES ASSUME NEW v \in Worker, NEW s \in Live', act'[v].pc \in {"insert", "set"},
                      act'[v].isDefault, provider'[s].by = v
               PROVE s \in act'[v].seen
    BY DEF OwnSeen
  <2>1. s \in Live /\ provider'[s] = provider[s]
    BY <1>1, PlatformAssumption
  <2>2. CASE v = w
    BY <2>1, <2>2 DEF Moves
  <2>3. CASE v # w
    BY <2>1, <2>3 DEF Moves, SameWork, OwnSeen
  <2> QED
    BY <2>2, <2>3
<1>4. Clearing'
  BY DEF Clearing, Moves, SameWork
<1> QED
  BY <1>2, <1>3, <1>4

LEMMA BackedStep ==
  ASSUME Backed, NEW w \in Worker, NEW r, Moves(w, r), Only(w), Admins \subseteq Admins',
         r.pc = "deactivate" => \E u \in Admins : u # r.account
  PROVE Backed'
<1> SUFFICES ASSUME NEW v \in Worker, act'[v].pc = "deactivate", ~act'[v].overtaken
             PROVE \E u \in Admins' : u # act'[v].account
  BY DEF Backed
<1>1. CASE v = w
  BY <1>1 DEF Moves
<1>2. CASE v # w
  BY <1>2 DEF Only, Backed
<1> QED
  BY <1>1, <1>2

-----------------------------------------------------------------------------
(* Accounts *)

LEMMA AccountInv ==
  ASSUME IInv, NEW w \in Worker, NEW r, Moves(w, r), provider' = provider,
         r.pc \in {"idle", "addUser", "update", "deactivate"},
         user' \in [Account -> {NULL} \cup User],
         \A a \in Account : user[a] # NULL => user'[a] # NULL,
         r.pc = "addUser" => r.email # NULL,
         r.pc \in {"update", "deactivate"} => r.account # NULL /\ user[r.account] # NULL,
         Accounts', Backed'
  PROVE IInv'
<1>1. Live' = Live /\ \A n : Named(n)' = Named(n)
  BY DEF Live, Named
<1>2. /\ provider' \in [Row -> {NULL, Gone} \cup Config]
      /\ \A s \in Row : provider'[s] \in Config =>
           (provider'[s].isDefault <=> provider'[s].by # NULL)
  <2>1. \A s \in Row : provider[s] \in Config => s \in Live
    BY RowAssumption, PlatformAssumption DEF Live, Gone, Config
  <2> QED
    BY <2>1 DEF IInv, TypeOK
<1>3. TypeOK'
  BY <1>2, TypedStep DEF IInv
<1>4. Providers'
  BY <1>1, ProvidersStep DEF IInv
<1>5. OwnDefault' /\ OwnSeen' /\ Clearing'
  BY DefaultsStep DEF IInv
<1> QED
  BY <1>3, <1>4, <1>5 DEF IInv

\* A request that leaves the accounts alone ends or begins.
LEMMA AccountsLeft ==
  ASSUME IInv, user' = user
  PROVE /\ user' \in [Account -> {NULL} \cup User]
        /\ \A a \in Account : user[a] # NULL => user'[a] # NULL
        /\ \A e : With(e)' \subseteq With(e)
        /\ Admins \subseteq Admins'
BY DEF IInv, TypeOK, With, Admins

LEMMA AskAccountInv ==
  ASSUME IInv, NEW w \in Worker, NEW e \in Email, AskAccount(w, e)
  PROVE IInv'
<1> DEFINE r == [Idle EXCEPT !.pc = "addUser", !.email = e]
<1>1. /\ With(e) = {} /\ act' = [act EXCEPT ![w] = r] /\ user' = user /\ provider' = provider
  BY DEF AskAccount, Begin
<1>2. r = Record("addUser", Idle.account, e, Idle.name, Idle.isDefault, Idle.row, Idle.seen,
                 Idle.overtaken, Idle.change)
  <2>1. WithEmail(Idle, "addUser", e) =
          Record("addUser", Idle.account, e, Idle.name, Idle.isDefault, Idle.row, Idle.seen,
                 Idle.overtaken, Idle.change)
    BY IdleParts, EmailParts
  <2> QED
    BY <2>1 DEF WithEmail
<1> HIDE DEF r
<1>3. r \in Request /\ r.pc = "addUser" /\ r.email = e /\ e # NULL
  BY <1>2, IdleParts, PlatformAssumption DEF Record, Request
<1>4. Moves(w, r) /\ Only(w)
  BY <1>1, <1>3, SetMoves DEF IInv
<1>5. Accounts'
  BY <1>1, <1>3, <1>4, AccountsLeft, AccountsStep DEF IInv
<1>6. Backed'
  BY <1>1, <1>3, <1>4, AccountsLeft, BackedStep DEF IInv
<1> QED
  BY <1>1, <1>3, <1>4, <1>5, <1>6, AccountsLeft, AccountInv

LEMMA AddAccountInv ==
  ASSUME IInv, NEW w \in Worker, AddAccount(w)
  PROVE IInv'
<1>1. act[w].pc = "addUser" /\ Done(w) /\ provider' = provider
  BY DEF AddAccount, At
<1>2. PICK a \in Account, admin \in BOOLEAN :
        /\ user[a] = NULL
        /\ user' = [user EXCEPT ![a] = [email |-> act[w].email, admin |-> admin, active |-> TRUE]]
  BY DEF AddAccount
<1> DEFINE x == [email |-> act[w].email, admin |-> admin, active |-> TRUE]
<1>3. act[w].email \in Email
  BY <1>1 DEF IInv, TypeOK, At, Request
<1>4. x \in User /\ x.email = act[w].email
  BY <1>3 DEF User
<1>5. user' = [user EXCEPT ![a] = x]
  BY <1>2
<1> HIDE DEF x
<1>6. /\ user' \in [Account -> {NULL} \cup User] /\ user'[a] = x
      /\ \A b \in Account : b # a => user'[b] = user[b]
  BY <1>4, <1>5 DEF IInv, TypeOK
<1>7. Moves(w, Idle) /\ Only(w)
  BY <1>1, DoneMoves DEF IInv
<1>8. \A b \in Account : user[b] # NULL => user'[b] = user[b]
  BY <1>2, <1>6
<1>9. Admins \subseteq Admins'
  BY <1>8 DEF Admins
<1>10. Backed'
  BY <1>7, <1>9, IdleParts, BackedStep DEF IInv
<1>11. Accounts'
  <2> SUFFICES ASSUME NEW e \in Email
               PROVE Cardinality(With(e)') + Cardinality(Asking(e)') <= Cardinality(Worker)
    BY DEF Accounts
  <2>1. Asking(e)' \subseteq Asking(e) \ {w}
    BY <1>7, IdleParts DEF Asking, Moves, Only
  <2>2. CASE e = act[w].email
    <3>1. w \in Asking(e) /\ With(e)' \subseteq With(e) \cup {a}
      BY <1>1, <1>6, <2>2 DEF Asking, With
    <3>2. /\ IsFiniteSet(With(e)) /\ IsFiniteSet(Asking(e))
          /\ Cardinality(With(e)) + Cardinality(Asking(e)) <= Cardinality(Worker)
      BY FiniteAll DEF IInv, Accounts
    <3> DEFINE S == With(e)
               T == Asking(e)
               S1 == With(e)'
               T1 == Asking(e)'
               N == Cardinality(Worker)
    <3>3. /\ IsFiniteSet(S) /\ IsFiniteSet(T) /\ Cardinality(S) + Cardinality(T) <= N
          /\ N \in Nat /\ w \in T /\ S1 \in SUBSET (S \cup {a}) /\ T1 \in SUBSET (T \ {w})
      BY <2>1, <3>1, <3>2, WorkerCount
    <3> HIDE DEF S, T, S1, T1, N
    <3>4. Cardinality(S1) + Cardinality(T1) <= N
      BY <3>3, Passes
    <3> QED
      BY <3>4 DEF S1, T1, N
  <2>3. CASE e # act[w].email
    <3>1. With(e)' \subseteq With(e) /\ Asking(e)' \subseteq Asking(e)
      BY <1>4, <1>6, <2>1, <2>3 DEF With
    <3> QED
      BY <3>1, FiniteAll, WorkerCount, Shrinks DEF IInv, Accounts
  <2> QED
    BY <2>2, <2>3
<1>12. \A b \in Account : user[b] # NULL => user'[b] # NULL
  BY <1>8
<1> QED
  BY <1>1, <1>6, <1>7, <1>10, <1>11, <1>12, IdleParts, AccountInv

LEMMA UserParts ==
  ASSUME NEW u \in User, NEW c \in Change
  PROVE Written(u, c) \in User /\ Written(u, c).email = u.email
<1> DEFINE a == IF c.admin = NULL THEN u.admin ELSE c.admin
           b == IF c.active = NULL THEN u.active ELSE c.active
<1>1. a \in BOOLEAN /\ b \in BOOLEAN
  BY DEF User, Change
<1>2. Written(u, c) = [u EXCEPT !.admin = a, !.active = b]
  BY DEF Written
<1> HIDE DEF a, b
<1>3. /\ [u EXCEPT !.admin = a, !.active = b] \in User
      /\ [u EXCEPT !.admin = a, !.active = b].email = u.email
  BY <1>1 DEF User
<1> QED
  BY <1>2, <1>3

LEMMA ChangeParts ==
  ASSUME NEW u \in User, NEW admin \in BOOLEAN, NEW active \in BOOLEAN
  PROVE Differing(u, admin, active) \in Change
BY DEF Differing, Change

\* An account changes in its role and in whether it is active.
LEMMA ChangedInv ==
  ASSUME IInv, NEW w \in Worker, NEW v \in Account, NEW x \in User, user[v] # NULL,
         x.email = user[v].email, user' = [user EXCEPT ![v] = x], act' = Overtaking(w),
         provider' = provider
  PROVE IInv'
<1>1. /\ user' \in [Account -> {NULL} \cup User] /\ user'[v] = x
      /\ \A b \in Account : b # v => user'[b] = user[b]
  BY DEF IInv, TypeOK
<1>2. /\ Moves(w, Idle)
      /\ \A u \in Worker : act'[u].pc = "deactivate" => act'[u].overtaken
  BY OvertakingMoves DEF IInv
<1>3. Backed'
  BY <1>2 DEF Backed
<1>4. \A e : With(e)' \subseteq With(e)
  BY <1>1 DEF With
<1>5. Accounts'
  BY <1>2, <1>4, IdleParts, AccountsStep DEF IInv
<1>6. \A b \in Account : user[b] # NULL => user'[b] # NULL
  BY <1>1, RowAssumption
<1> QED
  BY <1>1, <1>2, <1>3, <1>5, <1>6, IdleParts, AccountInv

\* Worker w has read account v and goes on to what it writes there; a deactivation
\* leaves another administrator.
LEMMA AskWriteInv ==
  ASSUME IInv, NEW w \in Worker, NEW pc \in {"update", "deactivate"}, NEW v \in Account,
         NEW c \in Change, user[v] # NULL,
         act' = [act EXCEPT ![w] = WithAccount(Idle, pc, v, c)],
         pc = "deactivate" => \E u \in Admins : u # v,
         user' = user, provider' = provider
  PROVE IInv'
<1> DEFINE r == WithAccount(Idle, pc, v, c)
<1>1. r = Record(pc, v, Idle.email, Idle.name, Idle.isDefault, Idle.row, Idle.seen,
                 Idle.overtaken, c)
  <2>1. \A l, x, y : WithAccount(Idle, l, x, y) =
                       Record(l, x, Idle.email, Idle.name, Idle.isDefault, Idle.row, Idle.seen,
                              Idle.overtaken, y)
    BY IdleParts, AccountParts
  <2> QED
    BY <2>1, Zenon
<1>2. act' = [act EXCEPT ![w] = r]
  OBVIOUS
<1> HIDE DEF r
<1>3. r \in Request /\ r.pc = pc /\ r.account = v /\ v # NULL
  BY <1>1, IdleParts, PlatformAssumption DEF Record, Request
<1>4. Moves(w, r) /\ Only(w)
  BY <1>2, <1>3, SetMoves DEF IInv
<1>5. Accounts'
  BY <1>3, <1>4, AccountsLeft, AccountsStep DEF IInv
<1>6. Backed'
  BY <1>3, <1>4, AccountsLeft, BackedStep DEF IInv
<1> QED
  BY <1>3, <1>4, <1>5, <1>6, AccountsLeft, AccountInv

LEMMA AskUpdateInv ==
  ASSUME IInv, NEW w \in Worker, NEW v \in Account, NEW admin \in BOOLEAN,
         NEW active \in BOOLEAN, AskUpdate(w, v, admin, active)
  PROVE IInv'
<1> DEFINE c == Differing(user[v], admin, active)
<1>1. user[v] # NULL /\ user[v] \in User
  BY DEF AskUpdate, IInv, TypeOK
<1>2. c \in Change
  BY <1>1, ChangeParts
<1>3. /\ act' = [act EXCEPT ![w] = WithAccount(Idle, "update", v, c)]
      /\ user' = user /\ provider' = provider
  BY DEF AskUpdate, Begin, WithAccount
<1> HIDE DEF c
<1> QED
  BY <1>1, <1>2, <1>3, AskWriteInv

LEMMA AskDeactivateInv ==
  ASSUME IInv, NEW w \in Worker, NEW u \in Account, NEW v \in Account, AskDeactivate(w, u, v)
  PROVE IInv'
<1> DEFINE c == Differing(user[v], user[v].admin, FALSE)
<1>1. u \in Admins /\ u # v /\ user[v] # NULL /\ user[v] \in User
  BY DEF AskDeactivate, IInv, TypeOK
<1>2. c \in Change
  <2>1. user[v].admin \in BOOLEAN /\ FALSE \in BOOLEAN
    BY <1>1 DEF User
  <2> QED
    BY <1>1, <2>1, ChangeParts
<1>3. /\ act' = [act EXCEPT ![w] = WithAccount(Idle, "deactivate", v, c)]
      /\ user' = user /\ provider' = provider
  BY DEF AskDeactivate, Begin, WithAccount
<1> HIDE DEF c
<1> QED
  BY <1>1, <1>2, <1>3, AskWriteInv

LEMMA WriteUserInv ==
  ASSUME IInv, NEW w \in Worker, UpdateUser(w) \/ Deactivate(w)
  PROVE IInv'
<1> DEFINE v == act[w].account
           x == Written(user[v], act[w].change)
<1>1. /\ v \in Account /\ user[v] \in User /\ user[v] # NULL /\ act[w].change \in Change
      /\ act' = Overtaking(w) /\ provider' = provider
  BY DEF UpdateUser, Deactivate, WriteUser, At, IInv, TypeOK, Request
<1>2. x \in User /\ x.email = user[v].email
  BY <1>1, UserParts
<1>3. user' = [user EXCEPT ![v] = x]
  BY DEF UpdateUser, Deactivate, WriteUser
<1> HIDE DEF v, x
<1> QED
  BY <1>1, <1>2, <1>3, ChangedInv

-----------------------------------------------------------------------------
(* AI providers *)

LEMMA LiveRows ==
  ASSUME TypeOK
  PROVE /\ \A s \in Row : s \in Live <=> provider[s] \in Config
        /\ \A s \in Row : provider[s] \in Config =>
             (provider[s].isDefault <=> provider[s].by # NULL)
        /\ NULL \notin Config /\ Gone \notin Config
<1>1. NULL \notin Config /\ Gone \notin Config
  BY RowAssumption, PlatformAssumption DEF Gone, Config
<1>2. \A s \in Row : s \in Live <=> provider[s] \in Config
  BY <1>1 DEF TypeOK, Live
<1> QED
  BY <1>1, <1>2 DEF TypeOK

LEMMA ProviderInv ==
  ASSUME IInv, NEW w \in Worker, NEW r, Moves(w, r), Only(w), user' = user,
         r.pc \in {"idle", "clear", "insert", "set"} \/ r = act[w],
         provider' \in [Row -> {NULL, Gone} \cup Config],
         \A s \in Row : provider'[s] \in Config =>
           (provider'[s].isDefault <=> provider'[s].by # NULL),
         r.pc = "insert" \/ (r.pc = "clear" /\ r.row = NULL) => r.name # NULL,
         r.pc = "set" => r.row # NULL,
         Providers', OwnDefault', OwnSeen', Clearing'
  PROVE IInv'
<1>1. /\ user' \in [Account -> {NULL} \cup User]
      /\ \A a \in Account : user[a] # NULL => user'[a] # NULL
      /\ \A e : With(e)' = With(e)
      /\ Admins' = Admins
  BY DEF IInv, TypeOK, With, Admins
<1>2. r = act[w] =>
        /\ r.pc = "addUser" => r.email # NULL
        /\ r.pc \in {"update", "deactivate"} => r.account # NULL /\ user[r.account] # NULL
  BY DEF IInv, TypeOK, At
<1>3. TypeOK'
  BY <1>1, <1>2, TypedStep DEF IInv
<1>4. Accounts'
  <2>1. CASE r = act[w]
    <3>1. \A e : Asking(e)' = Asking(e)
      BY <2>1 DEF Asking, Moves, Only
    <3> QED
      BY <1>1, <3>1 DEF IInv, Accounts
  <2>2. CASE r.pc # "addUser"
    BY <1>1, <2>2, AccountsStep DEF IInv
  <2> QED
    BY <2>1, <2>2
<1>5. Backed'
  <2>1. CASE r = act[w]
    BY <1>1, <2>1 DEF IInv, Backed, Moves, Only
  <2>2. CASE r.pc # "deactivate"
    BY <1>1, <2>2, BackedStep DEF IInv
  <2> QED
    BY <2>1, <2>2
<1> QED
  BY <1>3, <1>4, <1>5 DEF IInv

\* No provider changes.
LEMMA ProvidersLeft ==
  ASSUME IInv, provider' = provider
  PROVE /\ provider' \in [Row -> {NULL, Gone} \cup Config]
        /\ \A s \in Row : provider'[s] \in Config =>
             (provider'[s].isDefault <=> provider'[s].by # NULL)
        /\ \A n : Named(n)' = Named(n)
        /\ Live' = Live
BY LiveRows DEF IInv, TypeOK, Live, Named

LEMMA AskProviderInv ==
  ASSUME IInv, NEW w \in Worker, NEW n \in Name, NEW d \in BOOLEAN, AskProvider(w, n, d)
  PROVE IInv'
<1> DEFINE l == IF d THEN "clear" ELSE "insert"
           r == [Idle EXCEPT !.pc = l, !.name = n, !.isDefault = d]
<1>1. /\ Named(n) = {} /\ act' = [act EXCEPT ![w] = r] /\ user' = user /\ provider' = provider
  BY DEF AskProvider, Begin
<1>2. l \in {"clear", "insert"} /\ (l = "insert" => ~d) /\ (l = "clear" => d)
  OBVIOUS
<1> HIDE DEF l
<1>3. r = Record(l, Idle.account, Idle.email, n, d, Idle.row, Idle.seen, Idle.overtaken,
                 Idle.change)
  <2>1. WithName(Idle, l, n, d) =
          Record(l, Idle.account, Idle.email, n, d, Idle.row, Idle.seen, Idle.overtaken,
                 Idle.change)
    BY IdleParts, NamedParts
  <2> QED
    BY <2>1 DEF WithName
<1> HIDE DEF r
<1>4. r \in Request /\ r.pc = l /\ r.name = n /\ r.isDefault = d /\ n # NULL
  BY <1>2, <1>3, IdleParts, PlatformAssumption DEF Record, Request
<1>5. Moves(w, r) /\ Only(w)
  BY <1>1, <1>4, SetMoves DEF IInv
<1>6. Providers'
  BY <1>1, <1>4, <1>5, ProvidersLeft, ProvidersStep DEF IInv
<1>7. OwnDefault' /\ OwnSeen' /\ Clearing'
  BY <1>1, <1>2, <1>4, <1>5, DefaultsStep DEF IInv
<1> QED
  BY <1>1, <1>2, <1>4, <1>5, <1>6, <1>7, ProvidersLeft, ProviderInv

LEMMA AskDefaultInv ==
  ASSUME IInv, NEW w \in Worker, NEW s \in Row, AskDefault(w, s)
  PROVE IInv'
<1> DEFINE r == [Idle EXCEPT !.pc = "clear", !.row = s, !.isDefault = TRUE]
<1>1. /\ act' = [act EXCEPT ![w] = r] /\ user' = user /\ provider' = provider
  BY DEF AskDefault, Begin
<1>2. WithRow(Idle, "clear", s, TRUE) =
        Record("clear", Idle.account, Idle.email, Idle.name, TRUE, s, Idle.seen,
               Idle.overtaken, Idle.change)
  BY IdleParts, RowParts
<1>3. r = Record("clear", Idle.account, Idle.email, Idle.name, TRUE, s, Idle.seen,
                 Idle.overtaken, Idle.change)
  BY <1>2 DEF WithRow
<1> HIDE DEF r
<1>4. r \in Request /\ r.pc = "clear" /\ r.row = s /\ r.isDefault /\ s # NULL
  BY <1>3, IdleParts, PlatformAssumption DEF Record, Request
<1>5. Moves(w, r) /\ Only(w)
  BY <1>1, <1>4, SetMoves DEF IInv
<1>6. Providers'
  BY <1>1, <1>4, <1>5, ProvidersLeft, ProvidersStep DEF IInv
<1>7. OwnDefault' /\ OwnSeen' /\ Clearing'
  BY <1>1, <1>4, <1>5, DefaultsStep DEF IInv
<1> QED
  BY <1>1, <1>4, <1>5, <1>6, <1>7, ProvidersLeft, ProviderInv

LEMMA ClearDefaultsInv ==
  ASSUME IInv, NEW w \in Worker, ClearDefaults(w)
  PROVE IInv'
<1> DEFINE l == IF act[w].row = NULL THEN "insert" ELSE "set"
           r == [act[w] EXCEPT !.pc = l, !.seen = Live]
<1>1. /\ act[w].pc = "clear" /\ act[w] \in Request /\ act' = [act EXCEPT ![w] = r]
      /\ user' = user /\ provider' = provider
  BY DEF ClearDefaults, At, IInv, TypeOK
<1>2. l \in {"insert", "set"} /\ (l = "set" <=> act[w].row # NULL)
  OBVIOUS
<1> HIDE DEF l
<1>3. r = Record(l, act[w].account, act[w].email, act[w].name, act[w].isDefault, act[w].row,
                 Live, act[w].overtaken, act[w].change)
  BY <1>1, SeenParts
<1> HIDE DEF r
<1>4. /\ r \in Request /\ r.pc = l /\ r.name = act[w].name /\ r.isDefault = act[w].isDefault
      /\ r.row = act[w].row /\ r.seen = Live
  <2>1. Live \in SUBSET Row
    BY DEF Live
  <2> QED
    BY <1>1, <1>2, <1>3, <2>1 DEF Record, Request
<1>5. Moves(w, r) /\ Only(w)
  BY <1>1, <1>4, SetMoves DEF IInv
<1>6. act[w].isDefault /\ (act[w].row = NULL => act[w].name # NULL)
  BY <1>1 DEF IInv, Clearing, TypeOK, At
<1>7. Providers'
  <2>1. act[w].row = NULL => w \in Making(act[w].name)
    BY <1>1 DEF Making
  <2> QED
    BY <1>1, <1>2, <1>4, <1>5, <2>1, ProvidersLeft, ProvidersStep DEF IInv
<1>8. OwnDefault' /\ OwnSeen' /\ Clearing'
  BY <1>1, <1>4, <1>5, <1>6, DefaultsStep DEF IInv
<1> QED
  BY <1>1, <1>2, <1>4, <1>5, <1>6, <1>7, <1>8, ProvidersLeft, ProviderInv

Flagged(m, d, by) == [m EXCEPT !.isDefault = d, !.by = by]

LEMMA Flags ==
  ASSUME NEW m \in Config, NEW d \in BOOLEAN, NEW by \in Worker \cup {NULL}
  PROVE /\ Flagged(m, d, by) \in Config
        /\ Flagged(m, d, by).name = m.name
        /\ Flagged(m, d, by).isDefault <=> d
        /\ Flagged(m, d, by).by = by
BY DEF Config, Flagged

Unflagged(m) == Flagged(m, FALSE, NULL)
DefaultBy(m, w) == Flagged(m, TRUE, w)

LEMMA UnflaggedParts ==
  ASSUME NEW m \in Config
  PROVE /\ Unflagged(m) \in Config /\ Unflagged(m).name = m.name
        /\ ~Unflagged(m).isDefault /\ Unflagged(m).by = NULL
<1>1. FALSE \in BOOLEAN /\ NULL \in Worker \cup {NULL}
  OBVIOUS
<1> QED
  BY <1>1, Flags DEF Unflagged

LEMMA DefaultByParts ==
  ASSUME NEW m \in Config, NEW w \in Worker
  PROVE /\ DefaultBy(m, w) \in Config /\ DefaultBy(m, w).name = m.name
        /\ DefaultBy(m, w).isDefault /\ DefaultBy(m, w).by = w
<1>1. TRUE \in BOOLEAN /\ w \in Worker \cup {NULL}
  OBVIOUS
<1> QED
  BY <1>1, Flags DEF DefaultBy

\* What the bulk UPDATE makes of the rows.
LEMMA ClearedRows ==
  ASSUME TypeOK, NEW w \in Worker
  PROVE /\ Cleared(w) \in [Row -> {NULL, Gone} \cup Config]
        /\ \A s \in Row \ Live : Cleared(w)[s] = provider[s]
        /\ \A s \in Live :
             /\ Cleared(w)[s] \in Config /\ Cleared(w)[s].name = provider[s].name
             /\ \/ Cleared(w)[s] = provider[s] /\ s \notin act[w].seen
                \/ Cleared(w)[s].by = NULL /\ ~Cleared(w)[s].isDefault
<1>1. ASSUME NEW s \in Live
      PROVE /\ NotDefault(s) \in Config /\ NotDefault(s).name = provider[s].name
            /\ NotDefault(s).by = NULL /\ ~NotDefault(s).isDefault
  <2>1. provider[s] \in Config
    BY <1>1, LiveRows DEF Live
  <2> QED
    <3>1. NotDefault(s) = Unflagged(provider[s])
      BY DEF NotDefault, Flagged, Unflagged
    <3> QED
      BY <2>1, <3>1, UnflaggedParts
<1>2. \A s \in Row : Cleared(w)[s] =
        IF s \in act[w].seen \cap Live THEN NotDefault(s) ELSE provider[s]
  BY DEF Cleared
<1>3. \A s \in Live : s \in Row /\ provider[s] \in Config
  BY LiveRows DEF Live
<1>4. \A s \in Row : Cleared(w)[s] \in {NULL, Gone} \cup Config
  BY <1>1, <1>2 DEF TypeOK
<1>5. Cleared(w) = [s \in Row |-> Cleared(w)[s]]
  BY DEF Cleared
<1>6. Cleared(w) \in [Row -> {NULL, Gone} \cup Config]
  BY <1>4, <1>5
<1> QED
  BY <1>1, <1>2, <1>3, <1>6

\* The row s of request w may become the default when the others have been cleared.
LEMMA DefaultGiven ==
  ASSUME IInv, NEW w \in Worker, Moves(w, Idle), Only(w), NEW s \in Row, NEW x \in Config,
         act[w].pc \in {"insert", "set"},
         provider' = [Cleared(w) EXCEPT ![s] = x],
         x.isDefault => act[w].isDefault /\ x.by = w,
         ~x.isDefault => x.by = NULL
  PROVE /\ provider' \in [Row -> {NULL, Gone} \cup Config]
        /\ \A t \in Row : provider'[t] \in Config =>
             (provider'[t].isDefault <=> provider'[t].by # NULL)
        /\ OwnDefault' /\ OwnSeen' /\ Clearing'
<1>1. /\ provider' \in [Row -> {NULL, Gone} \cup Config] /\ provider'[s] = x
      /\ \A t \in Row : t # s => provider'[t] = Cleared(w)[t]
  BY ClearedRows DEF IInv
<1>2. ASSUME NEW t \in Row, t # s, provider'[t] \in Config
      PROVE /\ t \in Live
            /\ \/ provider'[t] = provider[t] /\ t \notin act[w].seen
               \/ provider'[t].by = NULL /\ ~provider'[t].isDefault
  BY <1>1, <1>2, ClearedRows, LiveRows DEF IInv
<1>3. w # NULL
  BY PlatformAssumption
<1>4. \A t \in Row : provider'[t] \in Config =>
        (provider'[t].isDefault <=> provider'[t].by # NULL)
  <2> SUFFICES ASSUME NEW t \in Row, provider'[t] \in Config
               PROVE provider'[t].isDefault <=> provider'[t].by # NULL
    OBVIOUS
  <2>1. CASE t = s
    BY <1>1, <1>3, <2>1
  <2>2. CASE t # s
    BY <1>2, <2>2, LiveRows DEF IInv
  <2> QED
    BY <2>1, <2>2
<1>5. \A t \in Live' : t \in Row /\ provider'[t] \in Config
  BY <1>1 DEF Live
<1>6. ASSUME NEW t \in Live', t # s, provider'[t].by # NULL
      PROVE t \in Live /\ provider'[t] = provider[t] /\ t \notin act[w].seen
  BY <1>2, <1>5, <1>6
<1>7. ASSUME NEW t \in Live', t # s, provider'[t].by # NULL, provider'[s].by = provider'[t].by
      PROVE FALSE
  <2>1. x.isDefault /\ x.by = w
    BY <1>1, <1>7
  <2>2. t \in act[w].seen
    BY <1>1, <1>6, <1>7, <2>1 DEF IInv, OwnSeen
  <2> QED
    BY <1>6, <1>7, <2>2
<1>8. OwnDefault'
  <2> SUFFICES ASSUME NEW t \in Live', NEW u \in Live', provider'[t].isDefault,
                      provider'[u].isDefault, provider'[t].by = provider'[u].by
               PROVE t = u
    BY DEF OwnDefault, Defaults
  <2>1. provider'[t].by # NULL /\ provider'[u].by # NULL
    BY <1>4, <1>5
  <2>2. CASE t = s \/ u = s
    BY <1>7, <2>1, <2>2
  <2>3. CASE t # s /\ u # s
    <3>1. /\ t \in Live /\ provider'[t] = provider[t]
          /\ u \in Live /\ provider'[u] = provider[u]
      BY <1>6, <2>1, <2>3
    <3> QED
      BY <3>1 DEF IInv, OwnDefault, Defaults
  <2> QED
    BY <2>2, <2>3
<1>9. OwnSeen'
  <2> SUFFICES ASSUME NEW v \in Worker, NEW t \in Live', act'[v].pc \in {"insert", "set"},
                      act'[v].isDefault, provider'[t].by = v
               PROVE t \in act'[v].seen
    BY DEF OwnSeen
  <2>1. v # w /\ v # NULL
    BY IdleParts, PlatformAssumption DEF Moves
  <2>2. t # s
    BY <1>1, <2>1
  <2>3. t \in Live /\ provider'[t] = provider[t] /\ act'[v] = act[v]
    BY <1>6, <2>1, <2>2 DEF Only
  <2> QED
    BY <2>3 DEF IInv, OwnSeen
<1>10. Clearing'
  BY IdleParts DEF IInv, Clearing, Moves, Only
<1> QED
  BY <1>1, <1>4, <1>8, <1>9, <1>10

LEMMA InsertProviderInv ==
  ASSUME IInv, NEW w \in Worker, InsertProvider(w)
  PROVE IInv'
<1>1. act[w].pc = "insert" /\ Done(w) /\ user' = user
  BY DEF InsertProvider, At
<1>2. PICK s \in Row :
        /\ provider[s] = NULL
        /\ provider' = [Cleared(w) EXCEPT ![s] =
             [name |-> act[w].name, isDefault |-> act[w].isDefault,
              by |-> IF act[w].isDefault THEN w ELSE NULL]]
  BY DEF InsertProvider
<1> DEFINE d == act[w].isDefault
           by == IF act[w].isDefault THEN w ELSE NULL
           x == [name |-> act[w].name, isDefault |-> d, by |-> by]
<1>3. act[w].name \in Name /\ d \in BOOLEAN
  BY <1>1 DEF IInv, TypeOK, At, Request
<1>4. by \in Worker \cup {NULL} /\ (d => by = w) /\ (~d => by = NULL)
  OBVIOUS
<1>5. provider' = [Cleared(w) EXCEPT ![s] = x]
  BY <1>2
<1> HIDE DEF d, by
<1>6. x \in Config /\ x.name = act[w].name /\ x.isDefault = d /\ x.by = by
  BY <1>3, <1>4 DEF Config
<1> HIDE DEF x
<1>7. Moves(w, Idle) /\ Only(w)
  BY <1>1, DoneMoves DEF IInv
<1>8. /\ provider' \in [Row -> {NULL, Gone} \cup Config]
      /\ \A t \in Row : provider'[t] \in Config =>
           (provider'[t].isDefault <=> provider'[t].by # NULL)
      /\ OwnDefault' /\ OwnSeen' /\ Clearing'
  <2>1. x.isDefault => act[w].isDefault /\ x.by = w
    BY <1>4, <1>6 DEF d
  <2>2. ~x.isDefault => x.by = NULL
    BY <1>4, <1>6
  <2> QED
    BY <1>1, <1>5, <1>6, <1>7, <2>1, <2>2, DefaultGiven
<1>9. Providers'
  <2> SUFFICES ASSUME NEW n \in Name
               PROVE Cardinality(Named(n)') + Cardinality(Making(n)') <= Cardinality(Worker)
    BY DEF Providers
  <2>1. Making(n)' \subseteq Making(n) \ {w}
    BY <1>7, IdleParts DEF Making, Moves, Only
  <2>2. \A t \in Row : t # s /\ provider'[t] \notin {NULL, Gone} =>
          t \in Live /\ provider'[t].name = provider[t].name
    <3>1. \A t \in Row : t # s => provider'[t] = Cleared(w)[t]
      BY <1>5, ClearedRows DEF IInv
    <3> QED
      BY <3>1, ClearedRows, LiveRows DEF IInv, TypeOK
  <2>3. provider'[s] = x
    BY <1>5, ClearedRows DEF IInv
  <2> DEFINE S == Named(n)
             T == Making(n)
             S1 == Named(n)'
             T1 == Making(n)'
             N == Cardinality(Worker)
  <2>4. IsFiniteSet(S) /\ IsFiniteSet(T) /\ Cardinality(S) + Cardinality(T) <= N /\ N \in Nat
    BY FiniteAll, WorkerCount DEF IInv, Providers
  <2>5. CASE n = act[w].name
    <3>1. w \in T /\ S1 \in SUBSET (S \cup {s}) /\ T1 \in SUBSET (T \ {w})
      BY <1>1, <2>1, <2>2, <2>5 DEF Making, Named, Live
    <3> HIDE DEF S, T, S1, T1, N
    <3>2. Cardinality(S1) + Cardinality(T1) <= N
      BY <2>4, <3>1, Passes
    <3> QED
      BY <3>2 DEF S1, T1, N
  <2>6. CASE n # act[w].name
    <3>1. S1 \in SUBSET S /\ T1 \in SUBSET T
      BY <1>6, <2>1, <2>2, <2>3, <2>6 DEF Named, Live
    <3> HIDE DEF S, T, S1, T1, N
    <3>2. Cardinality(S1) + Cardinality(T1) <= N
      BY <2>4, <3>1, Shrinks
    <3> QED
      BY <3>2 DEF S1, T1, N
  <2> QED
    BY <2>5, <2>6
<1> QED
  BY <1>1, <1>7, <1>8, <1>9, IdleParts, ProviderInv

LEMMA SetDefaultInv ==
  ASSUME IInv, NEW w \in Worker, SetDefault(w)
  PROVE IInv'
<1> DEFINE s == act[w].row
<1>1. act[w].pc = "set" /\ Done(w) /\ user' = user
  BY DEF SetDefault, At
<1>2. Moves(w, Idle) /\ Only(w)
  BY <1>1, DoneMoves DEF IInv
<1>3. CASE s \in Live
  <2> DEFINE x == DefaultBy(Cleared(w)[s], w)
  <2>1. s \in Row /\ Cleared(w)[s] \in Config /\ Cleared(w)[s].name = provider[s].name
    BY <1>3, ClearedRows DEF IInv, Live
  <2>2. x \in Config /\ x.name = provider[s].name /\ x.isDefault /\ x.by = w
    BY <2>1, DefaultByParts
  <2>3. provider' = [Cleared(w) EXCEPT ![s] = x]
    BY <1>3 DEF SetDefault, Flagged, DefaultBy
  <2>4. act[w].isDefault
    BY <1>1 DEF IInv, Clearing
  <2> HIDE DEF x, s
  <2>5. /\ provider' \in [Row -> {NULL, Gone} \cup Config]
        /\ \A t \in Row : provider'[t] \in Config =>
             (provider'[t].isDefault <=> provider'[t].by # NULL)
        /\ OwnDefault' /\ OwnSeen' /\ Clearing'
    BY <1>1, <1>2, <2>1, <2>2, <2>3, <2>4, DefaultGiven
  <2>6. Providers'
    <3>1. \A t \in Row : t # s => provider'[t] = Cleared(w)[t]
      BY <2>3, ClearedRows DEF IInv
    <3>2. provider'[s] = x
      BY <2>1, <2>3, ClearedRows DEF IInv
    <3>3. \A t \in Row : provider'[t] \notin {NULL, Gone} =>
            t \in Live /\ provider'[t].name = provider[t].name
      BY <1>3, <2>2, <3>1, <3>2, ClearedRows, LiveRows DEF IInv, TypeOK
    <3>4. \A n : Named(n)' \subseteq Named(n)
      BY <3>3 DEF Named, Live
    <3> QED
      BY <1>2, <3>4, IdleParts, ProvidersStep DEF IInv
  <2> QED
    BY <1>1, <1>2, <2>5, <2>6, IdleParts, ProviderInv
<1>4. CASE s \notin Live
  <2>1. provider' = provider
    BY <1>4 DEF SetDefault
  <2>2. Providers'
    BY <1>2, <2>1, IdleParts, ProvidersLeft, ProvidersStep DEF IInv
  <2>3. OwnDefault' /\ OwnSeen' /\ Clearing'
    BY <1>2, <2>1, IdleParts, DefaultsStep DEF IInv
  <2> QED
    BY <1>1, <1>2, <2>1, <2>2, <2>3, IdleParts, ProvidersLeft, ProviderInv
<1> QED
  BY <1>3, <1>4

\* A provider loses its flag, or goes.
LEMMA WithdrawnInv ==
  ASSUME IInv, NEW s \in Live, NEW x \in {Gone} \cup Config, user' = user, act' = act,
         provider' = [provider EXCEPT ![s] = x],
         x # Gone => x.name = provider[s].name /\ x.by = NULL /\ ~x.isDefault
  PROVE IInv'
<1>1. PICK w \in Worker : TRUE
  BY PlatformAssumption
<1> DEFINE r == act[w]
<1>2. /\ Moves(w, r) /\ Only(w)
  BY DEF IInv, TypeOK, Moves, Only, SameWork
<1>3. s \in Row /\ provider[s] \in Config
  BY LiveRows DEF IInv, Live
<1>4. /\ provider' \in [Row -> {NULL, Gone} \cup Config] /\ provider'[s] = x
      /\ \A t \in Row : t # s => provider'[t] = provider[t]
  BY <1>3 DEF IInv, TypeOK
<1>5. \A t \in Row : provider'[t] \in Config =>
        (provider'[t].isDefault <=> provider'[t].by # NULL)
  <2> SUFFICES ASSUME NEW t \in Row, provider'[t] \in Config
               PROVE provider'[t].isDefault <=> provider'[t].by # NULL
    OBVIOUS
  <2>1. CASE t = s
    <3>1. x # Gone
      BY <1>4, <2>1, LiveRows DEF IInv
    <3> QED
      BY <1>4, <2>1, <3>1
  <2>2. CASE t # s
    BY <1>4, <2>2, LiveRows DEF IInv
  <2> QED
    BY <2>1, <2>2
<1>6. /\ r.pc = "insert" \/ (r.pc = "clear" /\ r.row = NULL) => r.name # NULL
      /\ r.pc = "set" => r.row # NULL
  BY DEF IInv, TypeOK, At
<1>7. Providers'
  <2>1. \A n : Named(n)' \subseteq Named(n)
    BY <1>3, <1>4 DEF Named, Live
  <2>2. \A n : Making(n)' = Making(n)
    BY DEF Making
  <2>3. ASSUME NEW n \in Name
        PROVE Cardinality(Named(n)') + Cardinality(Making(n)') <= Cardinality(Worker)
    BY <2>1, <2>2, FiniteAll, WorkerCount, Shrinks DEF IInv, Providers
  <2> QED
    BY <2>3 DEF Providers
<1>8. OwnDefault' /\ OwnSeen' /\ Clearing'
  <2>1. \A t \in Row : provider'[t] = provider[t] \/ provider'[t] = Gone
                       \/ (t \in Live /\ provider'[t].by = NULL /\ ~provider'[t].isDefault)
    BY <1>4
  <2>2. r.pc \in {"insert", "set"} /\ r.isDefault =>
          \A t \in Live : provider[t].by = w => t \in r.seen
    BY DEF IInv, OwnSeen
  <2>3. r.pc \in {"clear", "set"} => r.isDefault
    BY DEF IInv, Clearing
  <2> HIDE DEF r
  <2> QED
    BY <1>2, <2>1, <2>2, <2>3, DefaultsStep DEF IInv
<1> QED
  BY <1>2, <1>4, <1>5, <1>6, <1>7, <1>8, ProviderInv

LEMMA UnsetDefaultInv ==
  ASSUME IInv, NEW s \in Row, UnsetDefault(s)
  PROVE IInv'
<1>1. s \in Live /\ user' = user /\ act' = act
  BY DEF UnsetDefault
<1> DEFINE m == provider[s]
           x == Unflagged(m)
<1>2. m \in Config
  BY <1>1, LiveRows DEF IInv, Live
<1>3. provider' = [provider EXCEPT ![s] = x]
  BY DEF UnsetDefault, NotDefault, Flagged, Unflagged
<1>4. x \in Config /\ x.name = m.name /\ ~x.isDefault /\ x.by = NULL
  BY <1>2, UnflaggedParts
<1> HIDE DEF x
<1> QED
  BY <1>1, <1>3, <1>4, WithdrawnInv

LEMMA DeleteProviderInv ==
  ASSUME IInv, NEW s \in Row, DeleteProvider(s)
  PROVE IInv'
BY WithdrawnInv DEF DeleteProvider

LEMMA AbandonInv ==
  ASSUME IInv, NEW w \in Worker, Abandon(w)
  PROVE IInv'
<1>1. user' = user /\ provider' = provider /\ Moves(w, Idle) /\ Only(w)
  BY DoneMoves DEF Abandon, IInv
<1>2. Providers'
  BY <1>1, IdleParts, ProvidersLeft, ProvidersStep DEF IInv
<1>3. OwnDefault' /\ OwnSeen' /\ Clearing'
  BY <1>1, IdleParts, DefaultsStep DEF IInv
<1> QED
  BY <1>1, <1>2, <1>3, IdleParts, ProvidersLeft, ProviderInv

-----------------------------------------------------------------------------
LEMMA StepInv == IInv /\ [Next]_vars => IInv'
<1> SUFFICES ASSUME IInv, [Next]_vars PROVE IInv'
  OBVIOUS
<1>1. ASSUME NEW w \in Worker, AccountStep(w) PROVE IInv'
  <2>1. CASE \E e \in Email : AskAccount(w, e)
    BY <2>1, AskAccountInv
  <2>2. CASE AddAccount(w)
    BY <2>2, AddAccountInv
  <2>3. CASE \E u, v \in Account : AskDeactivate(w, u, v)
    BY <2>3, AskDeactivateInv
  <2>4. CASE UpdateUser(w) \/ Deactivate(w)
    BY <2>4, WriteUserInv
  <2>5. CASE \E v \in Account, admin, active \in BOOLEAN : AskUpdate(w, v, admin, active)
    BY <2>5, AskUpdateInv
  <2> QED
    BY <1>1, <2>1, <2>2, <2>3, <2>4, <2>5 DEF AccountStep
<1>2. ASSUME NEW w \in Worker, ProviderStep(w) PROVE IInv'
  <2>1. CASE \E n \in Name, d \in BOOLEAN : AskProvider(w, n, d)
    BY <2>1, AskProviderInv
  <2>2. CASE \E s \in Row : AskDefault(w, s)
    BY <2>2, AskDefaultInv
  <2>3. CASE ClearDefaults(w)
    BY <2>3, ClearDefaultsInv
  <2>4. CASE InsertProvider(w)
    BY <2>4, InsertProviderInv
  <2>5. CASE SetDefault(w)
    BY <2>5, SetDefaultInv
  <2> QED
    BY <1>2, <2>1, <2>2, <2>3, <2>4, <2>5 DEF ProviderStep
<1>3. ASSUME NEW w \in Worker, Abandon(w) PROVE IInv'
  BY <1>3, AbandonInv
<1>4. ASSUME NEW s \in Row, UnsetDefault(s) \/ DeleteProvider(s) PROVE IInv'
  BY <1>4, UnsetDefaultInv, DeleteProviderInv
<1>5. CASE UNCHANGED vars
  <2>1. user' = user /\ provider' = provider /\ act' = act
    BY <1>5 DEF vars
  <2> QED
    BY <2>1 DEF IInv, TypeOK, Accounts, Providers, OwnDefault, OwnSeen, Clearing, Backed, With,
                Asking, Named, Making, Live, Defaults, Admins, At
<1> QED
  BY <1>1, <1>2, <1>3, <1>4, <1>5 DEF Next

\* The invariant holds in every reachable state.
THEOREM PlatformInvariant == Spec => []IInv
BY InitInv, StepInv, PTL DEF Spec

\* Rows and requests hold values of their types, and a provider that is the default
\* was made so by somebody.
THEOREM PlatformTyped == Spec => []TypeOK
<1>1. IInv => TypeOK
  BY DEF IInv
<1> QED
  BY <1>1, PlatformInvariant, PTL

LEMMA Bounded == IInv => SettingsBounded
<1> SUFFICES ASSUME IInv PROVE SettingsBounded
  OBVIOUS
<1>1. ASSUME NEW S, NEW T, IsFiniteSet(S), IsFiniteSet(T),
             Cardinality(S) + Cardinality(T) <= Cardinality(Worker)
      PROVE Cardinality(S) <= Cardinality(Worker)
  <2>1. Cardinality(S) \in Nat /\ Cardinality(T) \in Nat
    BY <1>1, FS_CardinalityType
  <2> QED
    BY <1>1, <2>1, WorkerCount
<1>2. \A e \in Email : Cardinality(With(e)) <= Cardinality(Worker)
  BY <1>1, FiniteAll DEF IInv, Accounts
<1>3. \A n \in Name : Cardinality(Named(n)) <= Cardinality(Worker)
  BY <1>1, FiniteAll DEF IInv, Providers
<1>4. Cardinality(Defaults) <= Cardinality(Worker)
  <2> DEFINE f == [s \in Defaults |-> provider[s].by]
  <2>1. \A s \in Defaults : provider[s].by \in Worker
    BY LiveRows DEF IInv, TypeOK, Defaults, Live, Config
  <2>2. f \in Injection(Defaults, Worker)
    BY <2>1 DEF Injection, IsInjective, IInv, OwnDefault
  <2> QED
    BY <2>2, FS_Injection, PlatformAssumption
<1> QED
  BY <1>2, <1>3, <1>4 DEF SettingsBounded

\* An address, a name and the platform's default are had at most once for each
\* request that can overlap another.
THEOREM PlatformBounded == Spec => []SettingsBounded
BY Bounded, PlatformInvariant, PTL

\* DELETE of an account takes the last administrator of the tenant only when another
\* change of an account overtakes it.
THEOREM PlatformLastAdmin == Spec => LastAdmin
<1>1. IInv /\ [Next]_vars =>
        [\A w \in Worker :
           Deactivate(w) /\ Admins # {} /\ Admins' = {} => act[w].overtaken]_vars
  <2> SUFFICES ASSUME IInv, NEW w \in Worker, Deactivate(w), Admins' = {}, ~act[w].overtaken
               PROVE FALSE
    OBVIOUS
  <2>1. PICK u \in Admins : u # act[w].account
    BY DEF Deactivate, At, IInv, Backed
  <2>2. user'[u] = user[u]
    BY <2>1 DEF Deactivate, WriteUser, Written, IInv, TypeOK, Admins
  <2> QED
    BY <2>1, <2>2 DEF Admins
<1> QED
  BY <1>1, PlatformInvariant, PTL DEF Spec, LastAdmin
=============================================================================
