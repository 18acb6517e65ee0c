-------------------------- MODULE AssistantProofs --------------------------
(***************************************************************************)
(* Safety of planning with a language model and of the chat, for any       *)
(* workers, providers, plans, conversations and questions.                 *)
(***************************************************************************)
EXTENDS Assistant, SequenceTheorems, FiniteSetTheorems, TLAPS

-----------------------------------------------------------------------------
(* Requests *)

LEMMA Parts ==
  ASSUME NEW r \in Request
  PROVE r = [pc |-> r.pc, llm |-> r.llm, stale |-> r.stale, confidence |-> r.confidence,
             plan |-> r.plan, conv |-> r.conv, q |-> r.q]
BY DEF Request

Record(pc, llm, stale, confidence, p, c, q) ==
  [pc |-> pc, llm |-> llm, stale |-> stale, confidence |-> confidence,
   plan |-> p, conv |-> c, q |-> q]

LEMMA ChangedParts ==
  ASSUME NEW r \in Request, NEW l, NEW x
  PROVE /\ [r EXCEPT !.pc = l, !.llm = x] =
             Record(l, x, r.stale, r.confidence, r.plan, r.conv, r.q)
        /\ [r EXCEPT !.pc = l, !.confidence = x] =
             Record(l, r.llm, r.stale, x, r.plan, r.conv, r.q)
        /\ [r EXCEPT !.pc = l, !.conv = x] =
             Record(l, r.llm, r.stale, r.confidence, r.plan, x, r.q)
<1> DEFINE o == Record(r.pc, r.llm, r.stale, r.confidence, r.plan, r.conv, r.q)
           n == Record(l, r.llm, r.stale, r.confidence, r.plan, r.conv, r.q)
<1>1. r = o
  BY Parts DEF Record
<1>2. [o EXCEPT !.pc = l] = n
  BY DEF Record
<1>3. /\ [n EXCEPT !.llm = x] = Record(l, x, r.stale, r.confidence, r.plan, r.conv, r.q)
      /\ [n EXCEPT !.confidence = x] = Record(l, r.llm, r.stale, x, r.plan, r.conv, r.q)
      /\ [n EXCEPT !.conv = x] = Record(l, r.llm, r.stale, r.confidence, r.plan, x, r.q)
  BY DEF Record
<1>4. /\ [r EXCEPT !.pc = l, !.llm = x] = [[r EXCEPT !.pc = l] EXCEPT !.llm = x]
      /\ [r EXCEPT !.pc = l, !.confidence = x] = [[r EXCEPT !.pc = l] EXCEPT !.confidence = x]
      /\ [r EXCEPT !.pc = l, !.conv = x] = [[r EXCEPT !.pc = l] EXCEPT !.conv = x]
  OBVIOUS
<1>5. [r EXCEPT !.pc = l] = n
  <2> HIDE DEF n, o
  <2> QED
    BY <1>1, <1>2
<1> HIDE DEF n
<1> QED
  BY <1>3, <1>4, <1>5

LEMMA IdleRequest ==
  /\ Idle \in Request /\ Idle.pc = "idle" /\ Idle.plan = NULL /\ Idle.q = NULL
  /\ Idle.conv = NULL
BY DEF Idle, Request

\* The same work at the same step: what others may notice is that it is stale.
SameWork(v) ==
  /\ req'[v].pc = req[v].pc /\ req'[v].llm = req[v].llm /\ req'[v].plan = req[v].plan
  /\ req'[v].conv = req[v].conv /\ req'[v].q = req[v].q

\* The step gives worker w the request r and leaves the others their work ...
Moves(w, r) ==
  /\ req' \in [Worker -> Request]
  /\ req'[w] = r
  /\ \A v \in Worker : v # w => SameWork(v)

\* ... or does nothing to them at all.
Only(w) == \A v \in Worker : v # w => req'[v] = req[v]

Pcs == {"idle", "addConfig", "setConfig", "plain", "analyze", "optimize", "explain",
        "persist", "ask", "reply", "touch", "postgres", "purge"}

LEMMA SetMoves ==
  ASSUME TypeOK, NEW w \in Worker, NEW r \in Request, req' = [req EXCEPT ![w] = r]
  PROVE Moves(w, r) /\ Only(w)
BY DEF TypeOK, Moves, Only, SameWork

LEMMA GotoMoves ==
  ASSUME TypeOK, NEW w \in Worker, NEW l \in Pcs, Goto(w, l)
  PROVE /\ [req[w] EXCEPT !.pc = l] \in Request
        /\ Moves(w, [req[w] EXCEPT !.pc = l]) /\ Only(w)
        /\ req'[w].pc = l /\ req'[w].plan = req[w].plan /\ req'[w].conv = req[w].conv
        /\ req'[w].q = req[w].q /\ req'[w].llm = req[w].llm /\ req'[w].stale = req[w].stale
<1> DEFINE r == [req[w] EXCEPT !.pc = l]
<1>1. req[w] \in Request
  BY DEF TypeOK
<1>2. r = [pc |-> l, llm |-> req[w].llm, stale |-> req[w].stale,
           confidence |-> req[w].confidence, plan |-> req[w].plan, conv |-> req[w].conv,
           q |-> req[w].q]
  BY <1>1, Parts
<1>3. r \in Request
  BY <1>1, <1>2 DEF Request, Pcs
<1>4. req' = [req EXCEPT ![w] = r]
  BY DEF Goto
<1>5. Moves(w, r) /\ Only(w)
  <2> HIDE DEF r
  <2> QED
    BY <1>3, <1>4, SetMoves
<1> QED
  BY <1>2, <1>3, <1>5 DEF Moves

LEMMA AnswerMoves ==
  ASSUME TypeOK, NEW w \in Worker, Answer(w)
  PROVE Moves(w, Idle) /\ Only(w)
BY SetMoves, IdleRequest DEF Answer

-----------------------------------------------------------------------------
(* The confidence of a plan *)

LEMMA AtMostThree ==
  ASSUME NEW a, NEW b, NEW c, NEW S \in SUBSET {a, b, c}
  PROVE IsFiniteSet(S) /\ Cardinality(S) \in 0..3
<1>1. IsFiniteSet({a}) /\ IsFiniteSet({b}) /\ IsFiniteSet({c})
      /\ Cardinality({a}) = 1 /\ Cardinality({b}) = 1 /\ Cardinality({c}) = 1
  BY FS_Singleton
<1> DEFINE D == {a} \cup {b}
           E == D \cup {c}
<1>2. IsFiniteSet(D) /\ Cardinality(D) = 1 + 1 - Cardinality({a} \cap {b})
  BY <1>1, FS_Union
<1>3. Cardinality({a} \cap {b}) \in Nat /\ Cardinality(D) \in Nat
  BY <1>1, <1>2, FS_Intersection, FS_CardinalityType
<1>4. {a, b, c} = E
  OBVIOUS
<1> HIDE DEF D
<1>5. IsFiniteSet(E) /\ Cardinality(E) = Cardinality(D) + 1 - Cardinality(D \cap {c})
  BY <1>1, <1>2, FS_Union
<1>6. Cardinality(D \cap {c}) \in Nat /\ Cardinality(E) \in Nat
  BY <1>1, <1>2, <1>5, FS_Intersection, FS_CardinalityType
<1> HIDE DEF E
<1>7. Cardinality(E) <= 3
  BY <1>2, <1>3, <1>5, <1>6
<1>8. IsFiniteSet({a, b, c}) /\ Cardinality({a, b, c}) <= 3 /\ Cardinality({a, b, c}) \in Nat
  BY <1>4, <1>5, <1>6, <1>7
<1>9. IsFiniteSet(S) /\ Cardinality(S) <= Cardinality({a, b, c}) /\ Cardinality(S) \in Nat
  BY <1>8, FS_Subset, FS_CardinalityType
<1> QED
  BY <1>8, <1>9

\* The warnings exclude each other: a context has three at most.
LEMMA ConfidenceTyped ==
  ASSUME NEW c \in Context
  PROVE Confidence(c) \in 700..1000
<1>1. /\ c.orders \in Nat /\ c.drivers \in Nat /\ c.urgent \in Nat /\ c.windows \in Nat
      /\ c.urgent <= c.orders /\ c.windows <= c.orders
  BY AssistantAssumption
<1> DEFINE urgency == IF c.urgent > 0 /\ c.urgent = c.orders THEN "allUrgent" ELSE "mostUrgent"
           few == IF c.drivers = 0 THEN "noDrivers" ELSE "load"
           other == IF c.orders = 0 THEN "noOrders" ELSE "windows"
<1>2. Warnings(c) \in SUBSET {urgency, few, other}
  <2>1. c.drivers = 0 => ~(c.drivers > 0)
    BY <1>1
  <2>2. c.orders = 0 => ~(c.windows > 8 * c.drivers)
    BY <1>1
  <2>3. ASSUME NEW x \in Warnings(c) PROVE x \in {urgency, few, other}
    <3>1. CASE x \in {"noDrivers", "load"}
      BY <2>1, <2>3, <3>1 DEF Warnings
    <3>2. CASE x \in {"noOrders", "windows"}
      BY <2>2, <2>3, <3>2 DEF Warnings
    <3>3. CASE x \in {"allUrgent", "mostUrgent"}
      BY <2>3, <3>3 DEF Warnings
    <3> QED
      BY <3>1, <3>2, <3>3 DEF Warnings
  <2> QED
    BY <2>3
<1> HIDE DEF urgency, few, other
<1>3. Cardinality(Warnings(c)) \in 0..3
  BY <1>2, AtMostThree
<1> QED
  BY <1>3 DEF Confidence, AtLeast

LEMMA PenaltyTyped ==
  ASSUME NEW total \in Nat, NEW assigned \in 0..total
  PROVE Penalty(total, assigned) \in 0..500
<1>1. CASE total = 0
  BY <1>1 DEF Penalty
<1>2. CASE total # 0
  <2> DEFINE x == 500 * (total - assigned)
             y == x \div total
  <2>1. x \in Nat /\ x <= 500 * total
    OBVIOUS
  <2>2. y \in Int /\ total * y <= x /\ x < total * y + total
    BY <1>2, <2>1
  <2> HIDE DEF x, y
  <2>3. y \in 0..500
    BY <1>2, <2>1, <2>2
  <2> QED
    BY <1>2, <2>3 DEF Penalty, x, y
<1> QED
  BY <1>1, <1>2

-----------------------------------------------------------------------------
(* The invariant *)

Graph == {"analyze", "optimize", "explain", "persist"}
InTurn == {"ask", "reply", "touch", "postgres"}

\* A request has what its next step works on.
Equipped ==
  \A w \in Worker :
    /\ req[w].pc \in {"addConfig", "setConfig"} => req[w].llm # NULL
    /\ req[w].pc \in {"analyze", "optimize"} => req[w].confidence \in 700..1000
    /\ req[w].pc \in InTurn => req[w].q # NULL
    /\ req[w].pc \in {"ask", "reply", "touch", "purge"} => req[w].conv # NULL

\* A request that has made a plan is about to explain it or to log it; nobody else
\* made that plan.
Owned ==
  \A w \in Worker : req[w].plan # NULL =>
    /\ req[w].pc \in {"explain", "persist"}
    /\ plan[req[w].plan] \in MadePlan
    /\ plan[req[w].plan].by = PlannerOf[w]
    /\ plan[req[w].plan].llm = req[w].llm
    /\ plan[req[w].plan].log = {}

Apart ==
  \A v, w \in Worker : req[v].plan # NULL /\ req[v].plan = req[w].plan => v = w

\* As long as the tenant's choice has not changed, the provider that would be
\* named is the one that the request has.
Chosen ==
  \A w \in Worker :
    req[w].pc \in Graph /\ ~req[w].stale => Resolved \in {NULL, req[w].llm}

Planning == Owned /\ Apart /\ Chosen /\ LogsTell /\ ProviderNamed

\* Each question is put once: its request is the only one that stores it, in one
\* conversation.
Turns ==
  /\ \A w \in Worker : req[w].pc \in InTurn => req[w].q \in asked
  /\ \A v, w \in Worker :
       req[v].pc \in InTurn /\ req[w].pc \in InTurn /\ req[v].q = req[w].q => v = w
  /\ \A w \in Worker : req[w].pc \in {"ask", "reply"} => conv[req[w].conv] # "none"

Told(s, role, q) == \E i \in DOMAIN s : s[i] = [role |-> role, q |-> q]

\* What a conversation has of the questions under way, and what it lost of them.
Stored ==
  /\ \A c \in Conversation : conv[c] = "none" => msgs[c] = <<>>
  /\ \A c \in Conversation, i \in Nat : i \in DOMAIN msgs[c] => msgs[c][i].q \in asked
  /\ \A w \in Worker : req[w].pc = "ask" =>
       \A role : ~Told(msgs[req[w].conv], role, req[w].q)
  /\ \A w \in Worker : req[w].pc = "reply" =>
       /\ Told(msgs[req[w].conv], "user", req[w].q) \/ req[w].q \in purged
       /\ ~Told(msgs[req[w].conv], "assistant", req[w].q)

Chat == Turns /\ Stored /\ RepliesFollow

IInv == TypeOK /\ Equipped /\ Planning /\ Chat

LEMMA InitInv == Init => IInv
<1> SUFFICES ASSUME Init PROVE IInv
  OBVIOUS
<1>1. /\ \A w \in Worker : req[w] = Idle
      /\ \A p \in Plan : plan[p] = NULL
      /\ \A c \in Conversation : conv[c] = "none" /\ msgs[c] = <<>>
  BY DEF Init
<1>2. TypeOK
  <2>1. req \in [Worker -> Request]
    BY IdleRequest DEF Init
  <2>2. <<>> \in Seq(Provider) /\ <<>> \in Seq(Message)
    BY EmptySeq
  <2>3. plan \in [Plan -> {NULL} \cup MadePlan] /\ conv \in [Conversation -> {"none", "live", "gone"}]
        /\ msgs \in [Conversation -> Seq(Message)]
    BY <2>2 DEF Init
  <2> QED
    BY <2>1, <2>2, <2>3 DEF TypeOK, Init
<1>3. \A w \in Worker : req[w].pc = "idle" /\ req[w].plan = NULL
  BY <1>1, IdleRequest
<1>4. Equipped /\ Owned /\ Apart /\ Chosen /\ Turns
  BY <1>3 DEF Equipped, Owned, Apart, Chosen, Turns, Graph, InTurn
<1>5. LogsTell /\ ProviderNamed
  BY <1>1 DEF LogsTell, ProviderNamed
<1>6. Stored /\ RepliesFollow
  BY <1>1, <1>3, EmptySeq DEF Stored, RepliesFollow
<1> QED
  BY <1>2, <1>4, <1>5, <1>6 DEF IInv, Planning, Chat

\* Worker w goes on with r: what the others have is what they had.
LEMMA OthersEquipped ==
  ASSUME Equipped, NEW w \in Worker, NEW r, Moves(w, r),
         Only(w) \/ \A v \in Worker : req'[v].confidence = req[v].confidence \/ v = w,
         r.pc \in {"addConfig", "setConfig"} => r.llm # NULL,
         r.pc \in {"analyze", "optimize"} => r.confidence \in 700..1000,
         r.pc \in InTurn => r.q # NULL,
         r.pc \in {"ask", "reply", "touch", "purge"} => r.conv # NULL
  PROVE Equipped'
<1> SUFFICES ASSUME NEW v \in Worker
             PROVE /\ req'[v].pc \in {"addConfig", "setConfig"} => req'[v].llm # NULL
                   /\ req'[v].pc \in {"analyze", "optimize"} => req'[v].confidence \in 700..1000
                   /\ req'[v].pc \in InTurn => req'[v].q # NULL
                   /\ req'[v].pc \in {"ask", "reply", "touch", "purge"} => req'[v].conv # NULL
  BY DEF Equipped
<1>1. CASE v = w
  BY <1>1 DEF Moves
<1>2. CASE v # w
  BY <1>2 DEF Moves, Only, SameWork, Equipped
<1> QED
  BY <1>1, <1>2

\* A step that makes, explains and logs no plan.
LEMMA PlansLeft ==
  ASSUME TypeOK, Planning, NEW w \in Worker, NEW r, Moves(w, r), r.plan = NULL,
         req[w].plan = NULL, plan' = plan
  PROVE Owned' /\ Apart' /\ LogsTell' /\ ProviderNamed'
<1>1. \A v \in Worker : /\ req'[v].plan # NULL => v # w
                        /\ v # w => SameWork(v)
  BY DEF Moves
<1>2. Owned' /\ Apart'
  BY <1>1 DEF Planning, Owned, Apart, SameWork
<1>3. ProviderNamed'
  BY DEF Planning, ProviderNamed
<1>4. \A p \in Plan : plan[p] # NULL /\ Explaining(p) => Explaining(p)' \/ p = NULL
  BY <1>1 DEF Explaining, SameWork
<1>5. LogsTell'
  BY <1>4, AssistantAssumption DEF Planning, LogsTell
<1> QED
  BY <1>2, <1>3, <1>5

LEMMA ChoiceLeft ==
  ASSUME Chosen, NEW w \in Worker, NEW r, Moves(w, r), Only(w), config' = config,
         \/ r.pc \notin Graph
         \/ req[w].pc \in Graph /\ r.llm = req[w].llm /\ r.stale = req[w].stale
  PROVE Chosen'
<1>1. Resolved' = Resolved
  BY DEF Resolved
<1> SUFFICES ASSUME NEW v \in Worker, req'[v].pc \in Graph, ~req'[v].stale
             PROVE Resolved \in {NULL, req'[v].llm}
  BY <1>1 DEF Chosen
<1>2. CASE v = w
  BY <1>2 DEF Moves, Chosen
<1>3. CASE v # w
  BY <1>3 DEF Only, Chosen
<1> QED
  BY <1>2, <1>3

\* A step that has nothing to do with the chat.
LEMMA ChatLeft ==
  ASSUME TypeOK, Chat, NEW w \in Worker, NEW r, Moves(w, r), UNCHANGED chat,
         r.pc \notin InTurn, r.pc # "purge"
  PROVE Chat'
<1>1. UNCHANGED <<asked, conv, msgs, purged>>
  BY DEF chat
<1>2. \A v \in Worker : /\ req'[v].pc \in InTurn \cup {"purge"} => v # w
                        /\ v # w => SameWork(v)
  BY DEF Moves
<1>3. Turns'
  BY <1>1, <1>2 DEF Chat, Turns, SameWork, InTurn
<1>5. Stored'
  BY <1>1, <1>2 DEF Chat, Stored, SameWork, InTurn
<1>6. RepliesFollow'
  BY <1>1 DEF Chat, RepliesFollow
<1> QED
  BY <1>3, <1>5, <1>6 DEF Chat

-----------------------------------------------------------------------------
(* The choice of a provider *)

LEMMA AskConfigInv ==
  ASSUME IInv, NEW w \in Worker, NEW p \in Provider, AskConfig(w, p)
  PROVE IInv'
<1> USE DEF IInv
<1>1. PICK l \in {"addConfig", "setConfig"} :
        req' = [req EXCEPT ![w].pc = l, ![w].llm = p]
  BY DEF AskConfig
<1> DEFINE r == [req[w] EXCEPT !.pc = l, !.llm = p]
<1>2. req[w] \in Request /\ req[w].pc = "idle" /\ req[w].plan = NULL
  BY DEF AskConfig, At, TypeOK, Planning, Owned
<1>3. r = Record(l, p, req[w].stale, req[w].confidence, req[w].plan, req[w].conv, req[w].q)
  BY <1>2, ChangedParts
<1>4. r \in Request /\ r.pc = l /\ r.llm = p /\ r.plan = NULL
  BY <1>2, <1>3 DEF Request, Record
<1>5. Moves(w, r) /\ Only(w)
  <2>1. req' = [req EXCEPT ![w] = r]
    BY <1>1
  <2> HIDE DEF r
  <2> QED
    BY <1>4, <2>1, SetMoves
<1> HIDE DEF r
<1>6. config' = config /\ plan' = plan /\ UNCHANGED chat /\ configs' \in Nat
  BY DEF AskConfig, TypeOK
<1>7. TypeOK'
  BY <1>5, <1>6 DEF TypeOK, Moves, chat
<1>8. Equipped'
  BY <1>4, <1>5, AssistantAssumption, OthersEquipped DEF InTurn
<1>9. Planning'
  BY <1>2, <1>4, <1>5, <1>6, PlansLeft, ChoiceLeft DEF Planning, Graph
<1>10. Chat'
  BY <1>4, <1>5, <1>6, ChatLeft DEF InTurn
<1> QED
  BY <1>7, <1>8, <1>9, <1>10

\* Whoever is planning while the choice changes is stale from then on.
LEMMA ChangedMoves ==
  ASSUME TypeOK, NEW w \in Worker, Changed(w)
  PROVE /\ Moves(w, Idle)
        /\ \A v \in Worker : v # w => req'[v].confidence = req[v].confidence
        /\ \A v \in Worker : req'[v].pc \in Graph => req'[v].stale
<1> DEFINE stale(v) == req[v].pc \notin {"idle", "addConfig", "setConfig"}
           row(v) == [req[v] EXCEPT !.stale = stale(v)]
<1>1. \A v \in Worker : req'[v] = IF v = w THEN Idle ELSE row(v)
  BY DEF Changed
<1>2. ASSUME NEW v \in Worker
      PROVE /\ row(v) \in Request /\ row(v).pc = req[v].pc /\ row(v).llm = req[v].llm
            /\ row(v).plan = req[v].plan /\ row(v).conv = req[v].conv /\ row(v).q = req[v].q
            /\ row(v).confidence = req[v].confidence /\ row(v).stale = stale(v)
  <2>1. req[v] \in Request
    BY DEF TypeOK
  <2>2. row(v) = [pc |-> req[v].pc, llm |-> req[v].llm, stale |-> stale(v),
                  confidence |-> req[v].confidence, plan |-> req[v].plan,
                  conv |-> req[v].conv, q |-> req[v].q]
    BY <2>1, Parts
  <2>3. row(v) \in Request
    <3>1. stale(v) \in BOOLEAN
      OBVIOUS
    <3> HIDE DEF stale, row
    <3> QED
      BY <2>1, <2>2, <3>1 DEF Request
  <2> QED
    BY <2>2, <2>3
<1>3. req' \in [Worker -> Request]
  <2>1. req' = [v \in Worker |-> req'[v]]
    BY DEF Changed
  <2>2. \A v \in Worker : req'[v] \in Request
    <3> HIDE DEF row
    <3> QED
      BY <1>1, <1>2, IdleRequest
  <2> QED
    BY <2>1, <2>2
<1>4. \A v \in Worker : v # w => SameWork(v) /\ req'[v].confidence = req[v].confidence
                                 /\ req'[v].stale = stale(v)
  <2> HIDE DEF row, stale
  <2> QED
    BY <1>1, <1>2 DEF SameWork
<1>5. \A v \in Worker : req'[v].pc \in Graph => req'[v].stale
  <2> SUFFICES ASSUME NEW v \in Worker, req'[v].pc \in Graph PROVE req'[v].stale
    OBVIOUS
  <2>1. v # w
    BY <1>1, IdleRequest DEF Graph
  <2> QED
    BY <1>4, <2>1 DEF SameWork, Graph
<1> QED
  BY <1>1, <1>3, <1>4, <1>5 DEF Moves

LEMMA ChangeInv ==
  ASSUME IInv, NEW w \in Worker, AddConfig(w) \/ SetConfig(w)
  PROVE IInv'
<1> USE DEF IInv
<1>1. Changed(w) /\ configs' = configs /\ plan' = plan /\ UNCHANGED chat
      /\ req[w].pc \in {"addConfig", "setConfig"} /\ req[w].plan = NULL
  BY DEF AddConfig, SetConfig, At, Planning, Owned
<1>2. /\ Moves(w, Idle)
      /\ \A v \in Worker : v # w => req'[v].confidence = req[v].confidence
      /\ \A v \in Worker : req'[v].pc \in Graph => req'[v].stale
  BY <1>1, ChangedMoves
<1>3. req[w].llm \in Provider
  BY <1>1 DEF Equipped, TypeOK, Request
<1>4. config' \in Seq(Provider)
  <2>1. CASE AddConfig(w)
    BY <1>3, <2>1, AppendProperties DEF AddConfig, TypeOK
  <2>2. CASE SetConfig(w)
    <3>1. config \in [1..Len(config) -> Provider] /\ Len(config) \in Nat
      BY LenProperties DEF TypeOK
    <3>2. config' \in [1..Len(config) -> Provider]
      BY <1>3, <2>2, <3>1 DEF SetConfig
    <3> QED
      BY <3>1, <3>2, SeqDef
  <2> QED
    BY <2>1, <2>2
<1>5. TypeOK'
  BY <1>1, <1>2, <1>4 DEF TypeOK, Moves, chat
<1>6. Equipped'
  BY <1>2, IdleRequest, OthersEquipped DEF InTurn
<1>7. Planning'
  <2>1. Chosen'
    BY <1>2 DEF Chosen
  <2> QED
    BY <1>1, <1>2, <2>1, IdleRequest, PlansLeft DEF Planning
<1>8. Chat'
  BY <1>1, <1>2, IdleRequest, ChatLeft DEF InTurn
<1> QED
  BY <1>5, <1>6, <1>7, <1>8

-----------------------------------------------------------------------------
(* Planning *)

\* A request for a plan goes on without making, explaining or logging one.
LEMMA UnmadeInv ==
  ASSUME IInv, NEW w \in Worker, NEW r \in Request, Moves(w, r), Only(w),
         req[w].plan = NULL, r.plan = NULL,
         UNCHANGED <<planning, chat>>, r.pc \in Graph \cup {"idle", "plain"},
         r.pc \in {"analyze", "optimize"} => r.confidence \in 700..1000,
         Chosen'
  PROVE IInv'
<1> USE DEF IInv
<1>1. config' = config /\ configs' = configs /\ plan' = plan /\ UNCHANGED chat
  BY DEF planning
<1>2. TypeOK'
  BY <1>1 DEF TypeOK, Moves, chat
<1>3. Equipped'
  BY OthersEquipped DEF InTurn, Graph
<1>4. Planning'
  BY <1>1, PlansLeft DEF Planning
<1>5. Chat'
  BY <1>1, ChatLeft DEF InTurn, Graph
<1> QED
  BY <1>2, <1>3, <1>4, <1>5

LEMMA AskPlanInv ==
  ASSUME IInv, NEW w \in Worker, AskPlan(w)
  PROVE IInv'
<1> USE DEF IInv
<1>1. PICK p \in Llm :
        req' = [req EXCEPT ![w] = [Idle EXCEPT
          !.pc = IF p \in Usable THEN "analyze" ELSE "plain", !.llm = p]]
  BY DEF AskPlan
<1> DEFINE r == [Idle EXCEPT !.pc = IF p \in Usable THEN "analyze" ELSE "plain", !.llm = p]
<1>2. /\ p \in Provider /\ Resolved \in {NULL, p}
  <2>1. config \in Seq(Provider)
    BY DEF TypeOK
  <2>2. Len(config) \in Nat /\ DOMAIN config = 1..Len(config) /\ config \in [1..Len(config) -> Provider]
    BY <2>1, LenProperties
  <2>3. Rows \subseteq Provider
    BY <2>2 DEF Rows
  <2>4. p \in Provider
    BY <2>3, AssistantAssumption DEF Llm
  <2>5. Len(config) = 1 => Rows = {config[1]}
    BY <2>2 DEF Rows
  <2> QED
    BY <2>4, <2>5 DEF Llm, Resolved
<1> DEFINE l == IF p \in Usable THEN "analyze" ELSE "plain"
<1>9. r = Record(l, p, Idle.stale, Idle.confidence, Idle.plan, Idle.conv, Idle.q)
  <2> HIDE DEF l
  <2>1. [Idle EXCEPT !.pc = l, !.llm = p] =
          Record(l, p, Idle.stale, Idle.confidence, Idle.plan, Idle.conv, Idle.q)
    BY IdleRequest, ChangedParts
  <2> QED
    BY <2>1 DEF l
<1>3. r \in Request /\ r.pc \in {"analyze", "plain"} /\ r.plan = NULL /\ r.llm = p
      /\ r.confidence = 1000
  <2> HIDE DEF r
  <2> QED
    BY <1>2, <1>9 DEF Idle, Request, Record
<1>4. Moves(w, r) /\ Only(w)
  <2> HIDE DEF r
  <2> QED
    BY <1>1, <1>3, SetMoves DEF r
<1> HIDE DEF r
<1>5. Resolved' = Resolved
  BY DEF AskPlan, planning, Resolved
<1>6. Chosen'
  <2> SUFFICES ASSUME NEW v \in Worker, req'[v].pc \in Graph, ~req'[v].stale
               PROVE Resolved \in {NULL, req'[v].llm}
    BY <1>5 DEF Chosen
  <2>1. CASE v = w
    BY <1>2, <1>3, <1>4, <2>1 DEF Moves
  <2>2. CASE v # w
    BY <1>4, <2>2 DEF Only, Planning, Chosen
  <2> QED
    BY <2>1, <2>2
<1> QED
  BY <1>3, <1>4, <1>6, UnmadeInv DEF AskPlan, At, Graph, Planning, Owned

LEMMA AnalyzeInv ==
  ASSUME IInv, NEW w \in Worker, Analyze(w)
  PROVE IInv'
<1> USE DEF IInv
<1>1. PICK c \in Context :
        req' = [req EXCEPT ![w].pc = "optimize", ![w].confidence = Confidence(c)]
  BY DEF Analyze
<1> DEFINE x == Confidence(c)
           r == [req[w] EXCEPT !.pc = "optimize", !.confidence = x]
<1>2. req[w] \in Request /\ req[w].pc = "analyze" /\ req[w].plan = NULL
  BY DEF Analyze, At, TypeOK, Planning, Owned
<1>3. x \in 700..1000
  BY <1>2, ConfidenceTyped DEF Equipped
<1>4. req' = [req EXCEPT ![w] = r]
  BY <1>1
<1> HIDE DEF x
<1>5. r = Record("optimize", req[w].llm, req[w].stale, x, req[w].plan, req[w].conv, req[w].q)
  BY <1>2, ChangedParts
<1>6. r \in Request /\ r.pc = "optimize" /\ r.plan = NULL /\ r.llm = req[w].llm
      /\ r.stale = req[w].stale /\ r.confidence \in 700..1000
  <2>1. x \in 200..1000
    BY <1>3
  <2> QED
    BY <1>2, <1>3, <1>5, <2>1 DEF Request, Record
<1> HIDE DEF r
<1>7. Moves(w, r) /\ Only(w)
  BY <1>4, <1>6, SetMoves
<1>8. Chosen'
  BY <1>2, <1>6, <1>7, ChoiceLeft DEF Analyze, planning, Planning, Graph
<1> QED
  BY <1>2, <1>6, <1>7, <1>8, UnmadeInv DEF Analyze, Graph

LEMMA ForecastInv ==
  ASSUME IInv, NEW w \in Worker, Forecast(w)
  PROVE IInv'
<1> DEFINE r == [req[w] EXCEPT !.pc = "optimize"]
<1>1. Goto(w, "optimize") /\ UNCHANGED <<planning, chat>>
      /\ req[w] \in Request /\ req[w].pc = "analyze" /\ req[w].plan = NULL
      /\ req[w].confidence \in 700..1000
  BY DEF Forecast, At, IInv, TypeOK, Planning, Owned, Equipped
<1>2. /\ r \in Request /\ Moves(w, r) /\ Only(w)
      /\ req'[w].pc = "optimize" /\ req'[w].plan = req[w].plan /\ req'[w].llm = req[w].llm
      /\ req'[w].stale = req[w].stale
  BY <1>1, GotoMoves DEF IInv, Pcs
<1>3. r = req'[w] /\ r.confidence = req[w].confidence
  <2>1. r.confidence = req[w].confidence
    BY <1>1 DEF Request
  <2> HIDE DEF r
  <2> QED
    BY <1>2, <2>1 DEF Moves
<1> HIDE DEF r
<1>4. r.pc = "optimize" /\ r.plan = NULL /\ r.llm = req[w].llm
      /\ r.stale = req[w].stale /\ r.confidence \in 700..1000
  BY <1>1, <1>2, <1>3
<1>5. Chosen'
  BY <1>1, <1>2, <1>4, ChoiceLeft DEF IInv, Planning, planning, Graph
<1> QED
  BY <1>1, <1>2, <1>4, <1>5, UnmadeInv DEF Graph

\* A request that has no plan ends, whatever it was at.
LEMMA GiveUpInv ==
  ASSUME IInv, NEW w \in Worker, Answer(w), req[w].plan = NULL, UNCHANGED <<planning, chat>>
  PROVE IInv'
<1>1. Moves(w, Idle) /\ Only(w)
  BY AnswerMoves DEF IInv
<1>2. Chosen'
  BY <1>1, IdleRequest, ChoiceLeft DEF IInv, Planning, planning, Graph
<1> QED
  BY <1>1, <1>2, IdleRequest, UnmadeInv

\* A plan that is made was nobody's.
LEMMA NewPlan ==
  ASSUME TypeOK, Planning, NEW p \in Unmade, NEW by \in {"ortools", "langgraph", "multi_agent"},
         NEW llm \in Provider \cup {NULL}, Made(p, by, llm)
  PROVE /\ p \in Plan /\ p # NULL /\ plan[p] = NULL /\ \A v \in Worker : req[v].plan # p
        /\ plan' \in [Plan -> {NULL} \cup MadePlan] /\ plan'[p] \in MadePlan
        /\ plan'[p].by = by /\ plan'[p].llm = llm /\ plan'[p].log = {}
        /\ \A q \in Plan : q # p => plan'[q] = plan[q]
<1> DEFINE x == [by |-> by, llm |-> llm, log |-> {}, named |-> NULL, stale |-> FALSE, died |-> FALSE]
<1>1. x \in MadePlan /\ x.by = by /\ x.llm = llm /\ x.log = {}
  BY DEF MadePlan
<1>2. p \in Plan /\ plan[p] = NULL /\ p # NULL
  BY AssistantAssumption DEF Unmade
<1>3. \A v \in Worker : req[v].plan # p
  BY <1>2, RowAssumption DEF Planning, Owned
<1>4. plan' = [plan EXCEPT ![p] = x]
  BY DEF Made
<1> HIDE DEF x
<1>5. plan' \in [Plan -> {NULL} \cup MadePlan] /\ plan'[p] = x
      /\ \A q \in Plan : q # p => plan'[q] = plan[q]
  BY <1>1, <1>2, <1>4 DEF TypeOK
<1> QED
  BY <1>1, <1>2, <1>3, <1>5

LEMMA PlainPlanInv ==
  ASSUME IInv, NEW w \in Worker, PlainPlan(w)
  PROVE IInv'
<1> USE DEF IInv
<1>1. req[w].plan = NULL /\ Answer(w) /\ UNCHANGED <<config, configs, chat>>
  BY DEF PlainPlan, At, Planning, Owned
<1>2. ASSUME NEW p \in Unmade, Made(p, "ortools", NULL)
      PROVE IInv'
  <2>1. Moves(w, Idle) /\ Only(w)
    BY <1>1, AnswerMoves
  <2>2. /\ p \in Plan /\ p # NULL /\ plan[p] = NULL /\ \A v \in Worker : req[v].plan # p
        /\ plan' \in [Plan -> {NULL} \cup MadePlan]
        /\ plan'[p].by = "ortools" /\ plan'[p].log = {}
        /\ \A q \in Plan : q # p => plan'[q] = plan[q]
    BY <1>2, NewPlan
  <2>3. TypeOK'
    BY <1>1, <2>1, <2>2 DEF TypeOK, Moves, chat
  <2>4. Equipped'
    BY <2>1, IdleRequest, OthersEquipped DEF InTurn
  <2>5. \A v \in Worker : req'[v].plan # NULL => v # w /\ req'[v] = req[v]
                          /\ req[v].plan \in Plan /\ plan'[req[v].plan] = plan[req[v].plan]
    BY <2>1, <2>2, IdleRequest DEF Moves, Only, TypeOK, Request
  <2>6. Owned' /\ Apart'
    BY <2>5 DEF Planning, Owned, Apart
  <2>7. Chosen'
    BY <1>1, <2>1, IdleRequest, ChoiceLeft DEF Planning, Graph
  <2>8. \A q \in Plan : Explaining(q) => Explaining(q)'
    <3> SUFFICES ASSUME NEW q \in Plan, NEW v \in Worker, req[v].plan = q,
                        req[v].pc \in {"explain", "persist"}
                 PROVE Explaining(q)'
      BY DEF Explaining
    <3>1. v # w
      BY <1>1, AssistantAssumption
    <3> QED
      BY <2>1, <3>1 DEF Only, Explaining
  <2>9. LogsTell' /\ ProviderNamed'
    BY <2>2, <2>8 DEF Planning, LogsTell, ProviderNamed
  <2>10. Chat'
    BY <1>1, <2>1, IdleRequest, ChatLeft DEF InTurn
  <2> QED
    BY <2>3, <2>4, <2>6, <2>7, <2>9, <2>10 DEF Planning
<1>3. CASE UNCHANGED plan
  BY <1>1, <1>3, GiveUpInv DEF planning
<1> QED
  BY <1>2, <1>3 DEF PlainPlan

LEMMA MadeParts ==
  ASSUME NEW r \in Request, NEW l, NEW x, NEW y
  PROVE [r EXCEPT !.pc = l, !.plan = x, !.confidence = y] =
          Record(l, r.llm, r.stale, y, x, r.conv, r.q)
<1> DEFINE o == Record(r.pc, r.llm, r.stale, r.confidence, r.plan, r.conv, r.q)
           n == Record(l, r.llm, r.stale, r.confidence, r.plan, r.conv, r.q)
           m == Record(l, r.llm, r.stale, r.confidence, x, r.conv, r.q)
<1>1. r = o
  BY Parts DEF Record
<1>2. [o EXCEPT !.pc = l] = n
  BY DEF Record
<1>3. [n EXCEPT !.plan = x] = m
  BY DEF Record
<1>4. [m EXCEPT !.confidence = y] = Record(l, r.llm, r.stale, y, x, r.conv, r.q)
  BY DEF Record
<1>5. [r EXCEPT !.pc = l, !.plan = x, !.confidence = y] =
        [[[r EXCEPT !.pc = l] EXCEPT !.plan = x] EXCEPT !.confidence = y]
  OBVIOUS
<1>6. [r EXCEPT !.pc = l] = n
  <2> HIDE DEF n, o
  <2> QED
    BY <1>1, <1>2
<1> HIDE DEF n, m
<1> QED
  BY <1>3, <1>4, <1>5, <1>6

\* call_optimizer: its plan belongs to the request until it is logged.
LEMMA OptimizedInv ==
  ASSUME IInv, NEW w \in Worker, At(w, "optimize"), NEW p \in Unmade,
         Made(p, PlannerOf[w], req[w].llm), UNCHANGED <<config, configs, chat>>,
         NEW r \in Request, Moves(w, r), Only(w), r.pc = "explain", r.plan = p,
         r.llm = req[w].llm, r.stale = req[w].stale
  PROVE IInv'
<1> USE DEF IInv
<1>1. /\ req[w] \in Request /\ req[w].pc = "optimize" /\ req[w].plan = NULL
      /\ req[w].llm \in Provider \cup {NULL}
  BY DEF At, TypeOK, Planning, Owned, Equipped, Request
<1>2. PlannerOf[w] \in {"langgraph", "multi_agent"}
  BY AssistantAssumption
<1>3. /\ p \in Plan /\ p # NULL /\ plan[p] = NULL /\ \A v \in Worker : req[v].plan # p
      /\ plan' \in [Plan -> {NULL} \cup MadePlan] /\ plan'[p] \in MadePlan
      /\ plan'[p].by = PlannerOf[w] /\ plan'[p].llm = req[w].llm /\ plan'[p].log = {}
      /\ \A q \in Plan : q # p => plan'[q] = plan[q]
  BY <1>1, <1>2, NewPlan
<1>4. TypeOK'
  BY <1>3 DEF TypeOK, Moves, chat
<1>5. Equipped'
  BY OthersEquipped DEF InTurn
<1>6. \A v \in Worker : v # w /\ req'[v].plan # NULL => req'[v] = req[v] /\ req[v].plan # p
                          /\ req[v].plan \in Plan /\ plan'[req[v].plan] = plan[req[v].plan]
  BY <1>3 DEF Only, TypeOK, Request
<1>7. Owned' /\ Apart'
  <2>1. req'[w] = r
    BY DEF Moves
  <2>2. Owned'
    <3> SUFFICES ASSUME NEW v \in Worker, req'[v].plan # NULL
                 PROVE /\ req'[v].pc \in {"explain", "persist"}
                       /\ plan'[req'[v].plan] \in MadePlan
                       /\ plan'[req'[v].plan].by = PlannerOf[v]
                       /\ plan'[req'[v].plan].llm = req'[v].llm
                       /\ plan'[req'[v].plan].log = {}
      BY DEF Owned
    <3>1. CASE v = w
      BY <1>3, <2>1, <3>1
    <3>2. CASE v # w
      BY <1>6, <3>2 DEF Planning, Owned
    <3> QED
      BY <3>1, <3>2
  <2>3. Apart'
    BY <1>6, <2>1 DEF Planning, Apart
  <2> QED
    BY <2>2, <2>3
<1>8. Chosen'
  BY <1>1, ChoiceLeft DEF Planning, Graph
<1>9. \A q \in Plan : Explaining(q) => Explaining(q)'
  <2> SUFFICES ASSUME NEW q \in Plan, NEW v \in Worker, req[v].plan = q,
                      req[v].pc \in {"explain", "persist"}
               PROVE Explaining(q)'
    BY DEF Explaining
  <2>1. v # w
    BY <1>1
  <2> QED
    BY <2>1 DEF Only, Explaining
<1>10. Explaining(p)'
  BY DEF Explaining, Moves
<1>11. LogsTell' /\ ProviderNamed'
  BY <1>3, <1>9, <1>10 DEF Planning, LogsTell, ProviderNamed
<1>12. Chat'
  BY ChatLeft DEF InTurn
<1> QED
  BY <1>4, <1>5, <1>7, <1>8, <1>11, <1>12 DEF Planning

\* Without a plan there is nothing to own: the next step is all that changes.
LEMMA WithoutPlanInv ==
  ASSUME IInv, NEW w \in Worker, NEW l \in {"explain", "persist"}, Goto(w, l),
         req[w].pc \in Graph, req[w].plan = NULL, UNCHANGED <<planning, chat>>
  PROVE IInv'
<1> DEFINE r == [req[w] EXCEPT !.pc = l]
<1>1. /\ r \in Request /\ Moves(w, r) /\ Only(w)
      /\ req'[w].pc = l /\ req'[w].plan = req[w].plan /\ req'[w].llm = req[w].llm
      /\ req'[w].stale = req[w].stale
  BY GotoMoves DEF IInv, Pcs
<1>2. r = req'[w]
  BY <1>1 DEF Moves
<1> HIDE DEF r
<1>3. r.pc = l /\ r.plan = NULL /\ r.llm = req[w].llm /\ r.stale = req[w].stale
  BY <1>1, <1>2
<1>4. Chosen'
  BY <1>1, <1>3, ChoiceLeft DEF IInv, Planning, planning
<1> QED
  BY <1>1, <1>3, <1>4, UnmadeInv DEF Graph

LEMMA OptimizeInv ==
  ASSUME IInv, NEW w \in Worker, Optimize(w)
  PROVE IInv'
<1>1. UNCHANGED <<config, configs, chat>> /\ At(w, "optimize") /\ req[w].plan = NULL
  BY DEF Optimize, At, IInv, Planning, Owned
<1>2. req[w] \in Request /\ req[w].confidence \in 700..1000
  BY <1>1 DEF At, IInv, TypeOK, Equipped
<1>3. CASE \E p \in Unmade, total \in 0..MaxOrders : \E assigned \in 0..total :
             /\ Made(p, PlannerOf[w], req[w].llm)
             /\ req' = [req EXCEPT ![w].pc = "explain", ![w].plan = p,
                  ![w].confidence = IF PlannerOf[w] = "langgraph"
                                    THEN Refined(@, total, assigned) ELSE @]
  <2>0. PICK p \in Unmade, total \in 0..MaxOrders : \E assigned \in 0..total :
          /\ Made(p, PlannerOf[w], req[w].llm)
          /\ req' = [req EXCEPT ![w].pc = "explain", ![w].plan = p,
               ![w].confidence = IF PlannerOf[w] = "langgraph"
                                 THEN Refined(@, total, assigned) ELSE @]
    BY <1>3
  <2>1. PICK assigned \in 0..total :
          /\ Made(p, PlannerOf[w], req[w].llm)
          /\ req' = [req EXCEPT ![w].pc = "explain", ![w].plan = p,
               ![w].confidence = IF PlannerOf[w] = "langgraph"
                                 THEN Refined(@, total, assigned) ELSE @]
    BY <2>0
  <2> DEFINE y == IF PlannerOf[w] = "langgraph"
                  THEN Refined(req[w].confidence, total, assigned) ELSE req[w].confidence
             r == [req[w] EXCEPT !.pc = "explain", !.plan = p, !.confidence = y]
  <2>2. y \in 200..1000
    <3>1. total \in Nat /\ assigned \in 0..total
      BY AssistantAssumption
    <3> DEFINE c == req[w].confidence
    <3> HIDE DEF c
    <3>2. c \in 700..1000
      BY <1>2 DEF c
    <3> DEFINE z == Penalty(total, assigned)
    <3>3. z \in 0..500
      BY <3>1, PenaltyTyped
    <3> HIDE DEF z
    <3>4. AtLeast(100, c - z) \in 200..1000 /\ c \in 200..1000
      BY <3>2, <3>3 DEF AtLeast
    <3>5. Refined(c, total, assigned) = AtLeast(100, c - z)
      BY DEF Refined, z
    <3>6. y = (IF PlannerOf[w] = "langgraph" THEN Refined(c, total, assigned) ELSE c)
      BY DEF c
    <3>7. Refined(c, total, assigned) \in 200..1000
      BY <3>4, <3>5
    <3> HIDE DEF y
    <3> QED
      BY <3>4, <3>6, <3>7
  <2>3. req' = [req EXCEPT ![w] = r]
    BY <2>1
  <2> HIDE DEF y
  <2>4. r = Record("explain", req[w].llm, req[w].stale, y, p, req[w].conv, req[w].q)
    BY <1>2, MadeParts
  <2> HIDE DEF r
  <2>5. /\ r \in Request /\ r.pc = "explain" /\ r.plan = p /\ r.llm = req[w].llm
        /\ r.stale = req[w].stale
    BY <1>2, <2>2, <2>4 DEF Request, Record, Unmade
  <2>6. Moves(w, r) /\ Only(w)
    BY <2>3, <2>5, SetMoves DEF IInv
  <2> QED
    BY <1>1, <2>1, <2>5, <2>6, OptimizedInv
<1>4. CASE Goto(w, "explain") /\ UNCHANGED plan
  BY <1>1, <1>4, WithoutPlanInv DEF planning, At, Graph
<1>5. CASE Answer(w) /\ UNCHANGED plan
  BY <1>1, <1>5, GiveUpInv DEF planning
<1> QED
  BY <1>3, <1>4, <1>5 DEF Optimize

LEMMA ExplainInv ==
  ASSUME IInv, NEW w \in Worker, Explain(w)
  PROVE IInv'
<1> USE DEF IInv
<1>1. At(w, "explain") /\ Goto(w, "persist") /\ UNCHANGED <<planning, chat>>
  BY DEF Explain
<1>2. CASE req[w].plan = NULL
  BY <1>1, <1>2, WithoutPlanInv DEF At, Graph
<1>3. CASE req[w].plan # NULL
  <2> DEFINE r == [req[w] EXCEPT !.pc = "persist"]
  <2>1. /\ r \in Request /\ Moves(w, r) /\ Only(w)
        /\ req'[w].pc = "persist" /\ req'[w].plan = req[w].plan /\ req'[w].llm = req[w].llm
        /\ req'[w].stale = req[w].stale
    BY <1>1, GotoMoves DEF Pcs
  <2>2. r = req'[w]
    BY <2>1 DEF Moves
  <2> HIDE DEF r
  <2>3. plan' = plan /\ config' = config /\ configs' = configs /\ UNCHANGED chat
    BY <1>1 DEF planning
  <2>4. TypeOK'
    BY <2>1, <2>3 DEF TypeOK, Moves, chat
  <2>5. Equipped'
    BY <2>1, <2>2, OthersEquipped DEF InTurn
  <2>6. \A v \in Worker : req'[v].plan = req[v].plan /\ req'[v].llm = req[v].llm
                          /\ (req[v].pc \in {"explain", "persist"} =>
                                req'[v].pc \in {"explain", "persist"})
    BY <2>1 DEF Only
  <2>7. Owned' /\ Apart'
    BY <2>3, <2>6 DEF Planning, Owned, Apart
  <2>8. Chosen'
    BY <1>1, <2>1, <2>2, <2>3, ChoiceLeft DEF Planning, Graph, At
  <2>9. \A p \in Plan : Explaining(p) => Explaining(p)'
    BY <2>6 DEF Explaining
  <2>10. LogsTell' /\ ProviderNamed'
    BY <2>3, <2>9 DEF Planning, LogsTell, ProviderNamed
  <2>11. Chat'
    BY <2>1, <2>2, <2>3, ChatLeft DEF InTurn
  <2> QED
    BY <2>4, <2>5, <2>7, <2>8, <2>10, <2>11 DEF Planning
<1> QED
  BY <1>2, <1>3

\* The row of a plan.
Row(by, llm, log, named, stale, died) ==
  [by |-> by, llm |-> llm, log |-> log, named |-> named, stale |-> stale, died |-> died]

LEMMA RowParts ==
  ASSUME NEW m \in MadePlan
  PROVE m = Row(m.by, m.llm, m.log, m.named, m.stale, m.died)
BY DEF MadePlan, Row

LEMMA LoggedRow ==
  ASSUME NEW m \in MadePlan, NEW log \in SUBSET LogStep, NEW named \in Provider \cup {NULL},
         NEW stale \in BOOLEAN
  PROVE /\ [m EXCEPT !.log = log, !.named = named, !.stale = stale] \in MadePlan
        /\ [m EXCEPT !.log = log, !.named = named, !.stale = stale] =
             Row(m.by, m.llm, log, named, stale, m.died)
<1> DEFINE o == Row(m.by, m.llm, m.log, m.named, m.stale, m.died)
           a == Row(m.by, m.llm, log, m.named, m.stale, m.died)
           b == Row(m.by, m.llm, log, named, m.stale, m.died)
           c == Row(m.by, m.llm, log, named, stale, m.died)
<1>1. m = o
  BY RowParts
<1>2. [o EXCEPT !.log = log] = a
  BY DEF Row
<1>3. [a EXCEPT !.named = named] = b
  BY DEF Row
<1>4. [b EXCEPT !.stale = stale] = c
  BY DEF Row
<1>5. c \in MadePlan
  BY DEF Row, MadePlan
<1>6. [m EXCEPT !.log = log, !.named = named, !.stale = stale] =
        [[[m EXCEPT !.log = log] EXCEPT !.named = named] EXCEPT !.stale = stale]
  OBVIOUS
<1>7. [m EXCEPT !.log = log] = a
  <2> HIDE DEF a, o
  <2> QED
    BY <1>1, <1>2
<1> HIDE DEF a, b, c
<1> QED
  BY <1>3, <1>4, <1>5, <1>6, <1>7 DEF c

LEMMA DiedRow ==
  ASSUME NEW m \in MadePlan, NEW died \in BOOLEAN
  PROVE /\ [m EXCEPT !.died = died] \in MadePlan
        /\ [m EXCEPT !.died = died] = Row(m.by, m.llm, m.log, m.named, m.stale, died)
<1> DEFINE o == Row(m.by, m.llm, m.log, m.named, m.stale, m.died)
           c == Row(m.by, m.llm, m.log, m.named, m.stale, died)
<1>1. m = o
  BY RowParts
<1>2. [o EXCEPT !.died = died] = c
  BY DEF Row
<1>3. c \in MadePlan
  BY DEF Row, MadePlan
<1> HIDE DEF o, c
<1> QED
  BY <1>1, <1>2, <1>3 DEF c

\* The request that owns a plan ends: it has logged it, or died under it.
LEMMA ClosedInv ==
  ASSUME IInv, NEW w \in Worker, Answer(w), req[w].plan # NULL,
         UNCHANGED <<config, configs, chat>>,
         NEW m \in MadePlan, plan' = [plan EXCEPT ![req[w].plan] = m],
         \/ m.log = Steps(m.by)
         \/ m.log = {} /\ m.died,
         m.log # {} => m.named \in {NULL, m.llm} \/ m.stale
  PROVE IInv'
<1> USE DEF IInv
<1> DEFINE p == req[w].plan
<1>1. p \in Plan /\ p # NULL
  BY DEF TypeOK, Request
<1>2. Moves(w, Idle) /\ Only(w)
  BY AnswerMoves
<1>3. /\ plan' \in [Plan -> {NULL} \cup MadePlan] /\ plan'[p] = m
      /\ \A q \in Plan : q # p => plan'[q] = plan[q]
  <2>1. plan' = [plan EXCEPT ![p] = m]
    OBVIOUS
  <2> HIDE DEF p
  <2> QED
    BY <1>1, <2>1 DEF TypeOK
<1>4. TypeOK'
  BY <1>2, <1>3 DEF TypeOK, Moves, chat
<1>5. Equipped'
  BY <1>2, IdleRequest, OthersEquipped DEF InTurn
<1>6. \A v \in Worker : req'[v].plan # NULL =>
        /\ v # w /\ req'[v] = req[v] /\ req[v].plan # p
        /\ req[v].plan \in Plan /\ plan'[req[v].plan] = plan[req[v].plan]
  BY <1>1, <1>2, <1>3, IdleRequest DEF Moves, Only, TypeOK, Request, Planning, Apart
<1>7. Owned' /\ Apart'
  BY <1>6 DEF Planning, Owned, Apart
<1>8. Chosen'
  BY <1>2, IdleRequest, ChoiceLeft DEF Planning, Graph
<1>9. \A q \in Plan : q # p /\ Explaining(q) => Explaining(q)'
  BY <1>2 DEF Only, Explaining
<1> HIDE DEF p
<1>10. LogsTell'
  BY <1>1, <1>3, <1>9 DEF Planning, LogsTell
<1>11. ProviderNamed'
  BY <1>1, <1>3 DEF Planning, ProviderNamed
<1>12. Chat'
  BY <1>2, IdleRequest, ChatLeft DEF InTurn
<1> QED
  BY <1>4, <1>5, <1>7, <1>8, <1>10, <1>11, <1>12 DEF Planning

LEMMA PersistInv ==
  ASSUME IInv, NEW w \in Worker, Persist(w)
  PROVE IInv'
<1> USE DEF IInv
<1>1. /\ Answer(w) /\ UNCHANGED <<config, configs, chat>> /\ req[w].pc = "persist"
      /\ req[w] \in Request
  BY DEF Persist, At, TypeOK
<1>2. CASE req[w].plan = NULL
  BY <1>1, <1>2, GiveUpInv DEF Persist, planning
<1>3. CASE req[w].plan # NULL
  <2> DEFINE p == req[w].plan
             m == [plan[p] EXCEPT !.log = Steps(PlannerOf[w]), !.named = Resolved,
                                  !.stale = req[w].stale]
  <2>1. /\ plan[p] \in MadePlan /\ plan[p].by = PlannerOf[w] /\ plan[p].llm = req[w].llm
        /\ (~req[w].stale => Resolved \in {NULL, req[w].llm})
    BY <1>1, <1>3 DEF Planning, Owned, Chosen, Graph
  <2>2. Steps(PlannerOf[w]) \in SUBSET LogStep
    BY DEF Steps, LogStep
  <2>3. Resolved \in Provider \cup {NULL}
    <3>1. Len(config) = 1 => config[1] \in Provider
      <4>1. config \in Seq(Provider)
        BY DEF TypeOK
      <4> QED
        BY <4>1, ElementOfSeq
    <3> QED
      BY <3>1 DEF Resolved
  <2>4. req[w].stale \in BOOLEAN
    BY <1>1 DEF Request
  <2>5. plan' = [plan EXCEPT ![p] = m]
    BY <1>3 DEF Persist
  <2>6. /\ m \in MadePlan
        /\ m = Row(plan[p].by, plan[p].llm, Steps(PlannerOf[w]), Resolved, req[w].stale,
                   plan[p].died)
    <3> DEFINE k == plan[p]
    <3>1. k \in MadePlan
      BY <2>1
    <3> HIDE DEF k
    <3>2. /\ [k EXCEPT !.log = Steps(PlannerOf[w]), !.named = Resolved,
                        !.stale = req[w].stale] \in MadePlan
          /\ [k EXCEPT !.log = Steps(PlannerOf[w]), !.named = Resolved,
                        !.stale = req[w].stale] =
               Row(k.by, k.llm, Steps(PlannerOf[w]), Resolved, req[w].stale, k.died)
      BY <2>2, <2>3, <2>4, <3>1, LoggedRow
    <3> QED
      BY <3>2 DEF k
  <2> HIDE DEF m
  <2>7. /\ m.by = PlannerOf[w] /\ m.llm = req[w].llm /\ m.log = Steps(PlannerOf[w])
        /\ m.named = Resolved /\ m.stale = req[w].stale
    BY <2>1, <2>6 DEF Row
  <2> QED
    BY <1>1, <1>3, <2>1, <2>5, <2>6, <2>7, ClosedInv
<1> QED
  BY <1>2, <1>3

LEMMA DieInv ==
  ASSUME IInv, NEW w \in Worker, Die(w)
  PROVE IInv'
<1> USE DEF IInv
<1>1. Answer(w) /\ UNCHANGED <<config, configs, chat>>
  BY DEF Die
<1>2. CASE req[w].plan = NULL
  BY <1>1, <1>2, GiveUpInv DEF Die, planning
<1>3. CASE req[w].plan # NULL
  <2> DEFINE p == req[w].plan
             m == [plan[p] EXCEPT !.died = TRUE]
  <2>1. plan[p] \in MadePlan /\ plan[p].log = {}
    BY <1>3 DEF Planning, Owned
  <2>2. plan' = [plan EXCEPT ![p] = m]
    BY <1>3 DEF Die
  <2>3. m \in MadePlan /\ m = Row(plan[p].by, plan[p].llm, plan[p].log, plan[p].named,
                                  plan[p].stale, TRUE)
    BY <2>1, DiedRow
  <2> HIDE DEF m
  <2>4. m.log = {} /\ m.died = TRUE
    BY <2>1, <2>3 DEF Row
  <2> QED
    BY <1>1, <1>3, <2>2, <2>3, <2>4, ClosedInv
<1> QED
  BY <1>2, <1>3

-----------------------------------------------------------------------------
(* The chat *)

\* A step of the chat, of a request that has nothing to do with a plan.
LEMMA PlanningLeft ==
  ASSUME IInv, NEW w \in Worker, NEW r, Moves(w, r), Only(w), r.plan = NULL,
         r.pc \notin Graph, req[w].plan = NULL, UNCHANGED planning
  PROVE Planning'
<1>1. plan' = plan /\ config' = config
  BY DEF planning
<1> QED
  BY <1>1, PlansLeft, ChoiceLeft DEF IInv, Planning

LEMMA TurnsKept ==
  ASSUME IInv, NEW w \in Worker, NEW r, Moves(w, r), asked \subseteq asked',
         \A c \in Conversation : conv[c] # "none" => conv'[c] # "none",
         r.pc \in InTurn => r.q \in asked',
         r.pc \in InTurn => r.q \notin asked \/ (req[w].pc \in InTurn /\ r.q = req[w].q),
         r.pc \in {"ask", "reply"} => conv'[r.conv] # "none"
  PROVE Turns'
<1> USE DEF IInv
<1>1. \A v \in Worker : v # w => SameWork(v)
  BY DEF Moves
<1>2. req'[w] = r
  BY DEF Moves
<1>3. \A v \in Worker : req[v].pc \in {"ask", "reply", "purge"} => req[v].conv \in Conversation
  BY DEF Equipped, TypeOK, Request
<1>4. /\ \A v \in Worker : req[v].pc \in InTurn => req[v].q \in asked
      /\ \A v, u \in Worker :
           req[v].pc \in InTurn /\ req[u].pc \in InTurn /\ req[v].q = req[u].q => v = u
      /\ \A v \in Worker : req[v].pc \in {"ask", "reply"} => conv[req[v].conv] # "none"
  BY DEF Chat, Turns
<1>5. ASSUME NEW v \in Worker
      PROVE /\ req'[v].pc \in InTurn => req'[v].q \in asked'
            /\ req'[v].pc \in {"ask", "reply"} => conv'[req'[v].conv] # "none"
  <2>1. CASE v = w
    BY <1>2, <2>1
  <2>2. CASE v # w
    BY <1>1, <1>3, <1>4, <2>2 DEF SameWork
  <2> QED
    BY <2>1, <2>2
<1>6. ASSUME NEW v \in Worker, NEW u \in Worker, req'[v].pc \in InTurn, req'[u].pc \in InTurn,
             req'[v].q = req'[u].q
      PROVE v = u
  BY <1>1, <1>2, <1>4, <1>6 DEF SameWork
<1> QED
  BY <1>5, <1>6 DEF Turns

\* A question that was not put yet is nowhere.
LEMMA ToldAsked ==
  ASSUME IInv, NEW c \in Conversation, NEW role, NEW q, Told(msgs[c], role, q)
  PROVE q \in asked
<1>1. PICK i \in DOMAIN msgs[c] : msgs[c][i] = [role |-> role, q |-> q]
  BY DEF Told
<1>2. msgs[c] \in Seq(Message)
  BY DEF IInv, TypeOK
<1>3. i \in Nat
  BY <1>1, <1>2, LenProperties
<1> QED
  BY <1>1, <1>3 DEF IInv, Chat, Stored

\* Nothing is said and nothing is purged.
LEMMA Quiet ==
  ASSUME IInv, asked \subseteq asked', msgs' = msgs, purged' = purged,
         \A c \in Conversation : conv'[c] = "none" => conv[c] = "none",
         \A v \in Worker :
           /\ req'[v].pc = "ask" => SameWork(v) \/ req'[v].q \notin asked
           /\ req'[v].pc = "ask" => req'[v].conv \in Conversation
           /\ req'[v].pc = "reply" => SameWork(v)
  PROVE Stored' /\ RepliesFollow'
<1> USE DEF IInv
<1>1. ASSUME NEW v \in Worker, req'[v].pc = "ask", NEW role
      PROVE ~Told(msgs[req'[v].conv], role, req'[v].q)
  <2>1. CASE SameWork(v)
    BY <1>1, <2>1 DEF SameWork, Chat, Stored
  <2>2. CASE req'[v].q \notin asked
    BY <1>1, <2>2, ToldAsked
  <2> QED
    BY <1>1, <2>1, <2>2
<1>2. ASSUME NEW v \in Worker, req'[v].pc = "reply"
      PROVE /\ Told(msgs[req'[v].conv], "user", req'[v].q) \/ req'[v].q \in purged
            /\ ~Told(msgs[req'[v].conv], "assistant", req'[v].q)
  BY <1>2 DEF SameWork, Chat, Stored
<1>3. Stored'
  BY <1>1, <1>2 DEF Chat, Stored
<1>4. RepliesFollow'
  BY DEF Chat, RepliesFollow
<1> QED
  BY <1>3, <1>4

LEMMA Dialogue ==
  ASSUME IInv, NEW w \in Worker, NEW r, Moves(w, r), Only(w), r.plan = NULL,
         r.pc \notin Graph \cup {"addConfig", "setConfig"}, req[w].plan = NULL,
         UNCHANGED planning,
         r.pc \in InTurn => r.q # NULL,
         r.pc \in {"ask", "reply", "touch", "purge"} => r.conv # NULL,
         asked' \subseteq Question /\ purged' \cup kept' \subseteq asked',
         conv' \in [Conversation -> {"none", "live", "gone"}],
         msgs' \in [Conversation -> Seq(Message)], Chat'
  PROVE IInv'
<1>1. TypeOK'
  BY DEF IInv, TypeOK, Moves, planning
<1>2. Equipped'
  BY OthersEquipped DEF IInv, Graph
<1>3. Planning'
  BY PlanningLeft
<1> QED
  BY <1>1, <1>2, <1>3 DEF IInv

LEMMA NewConversationInv ==
  ASSUME IInv, NEW c \in Conversation, NewConversation(c)
  PROVE IInv'
<1> USE DEF IInv
<1>1. /\ req' = req /\ asked' = asked /\ msgs' = msgs /\ purged' = purged /\ kept' = kept
      /\ UNCHANGED planning
      /\ conv[c] = "none" /\ conv' = [conv EXCEPT ![c] = "live"]
  BY DEF NewConversation
<1>2. plan' = plan /\ config' = config /\ configs' = configs
  BY <1>1 DEF planning
<1>3. conv' \in [Conversation -> {"none", "live", "gone"}] /\ conv'[c] = "live"
      /\ \A d \in Conversation : d # c => conv'[d] = conv[d]
  BY <1>1 DEF TypeOK
<1>4. TypeOK'
  BY <1>1, <1>2, <1>3 DEF TypeOK
<1>5. Equipped'
  BY <1>1 DEF Equipped
<1>6. Planning'
  BY <1>1, <1>2 DEF Planning, Owned, Apart, Chosen, LogsTell, ProviderNamed, Resolved, Explaining
<1>7. \A v \in Worker : req[v].pc \in {"ask", "reply", "purge"} => req[v].conv \in Conversation
  BY DEF Equipped, TypeOK, Request
<1>8. Turns'
  BY <1>1, <1>3, <1>7 DEF Chat, Turns
<1>9. Stored' /\ RepliesFollow'
  BY <1>1, <1>3, <1>7, Quiet DEF SameWork
<1> QED
  BY <1>4, <1>5, <1>6, <1>8, <1>9 DEF Chat

LEMMA AskedParts ==
  ASSUME NEW r \in Request, NEW l, NEW x, NEW y
  PROVE [r EXCEPT !.pc = l, !.conv = x, !.q = y] =
          Record(l, r.llm, r.stale, r.confidence, r.plan, x, y)
<1> DEFINE m == Record(l, r.llm, r.stale, r.confidence, r.plan, x, r.q)
<1>1. [r EXCEPT !.pc = l, !.conv = x] = m
  BY ChangedParts
<1>2. [m EXCEPT !.q = y] = Record(l, r.llm, r.stale, r.confidence, r.plan, x, y)
  BY DEF Record
<1>3. [r EXCEPT !.pc = l, !.conv = x, !.q = y] = [[r EXCEPT !.pc = l, !.conv = x] EXCEPT !.q = y]
  OBVIOUS
<1> HIDE DEF m
<1> QED
  BY <1>1, <1>2, <1>3

LEMMA SendMessageInv ==
  ASSUME IInv, NEW w \in Worker, NEW c \in Conversation \cup {NULL}, NEW q \in Question,
         SendMessage(w, c, q)
  PROVE IInv'
<1> USE DEF IInv
<1>1. PICK pc \in {"ask", "postgres", "idle"} :
        /\ pc = "ask" => c # NULL /\ conv[c] = "live"
        /\ pc = "idle" => c # NULL /\ conv[c] # "live"
        /\ req' = [req EXCEPT ![w] = IF pc = "idle" THEN Idle ELSE
                     [Idle EXCEPT !.pc = pc, !.conv = c, !.q = q]]
  BY DEF SendMessage
<1>2. /\ UNCHANGED <<planning, conv, msgs, purged, kept>> /\ asked' = asked \cup {q} /\ q \notin asked
      /\ req[w].plan = NULL
  BY DEF SendMessage, At, Planning, Owned
<1> DEFINE r == IF pc = "idle" THEN Idle ELSE [Idle EXCEPT !.pc = pc, !.conv = c, !.q = q]
<1>3. r \in Request /\ r.pc = pc /\ r.plan = NULL /\ (pc # "idle" => r.conv = c /\ r.q = q)
  <2>1. CASE pc = "idle"
    BY <2>1, IdleRequest
  <2>2. CASE pc # "idle"
    <3> DEFINE x == [Idle EXCEPT !.pc = pc, !.conv = c, !.q = q]
    <3>0. \A l, d, m : [Idle EXCEPT !.pc = l, !.conv = d, !.q = m] =
                        Record(l, Idle.llm, Idle.stale, Idle.confidence, Idle.plan, d, m)
      BY IdleRequest, AskedParts
    <3>1. x = Record(pc, Idle.llm, Idle.stale, Idle.confidence, Idle.plan, c, q)
      BY <3>0
    <3> HIDE DEF x
    <3>2. x \in Request /\ x.pc = pc /\ x.plan = NULL /\ x.conv = c /\ x.q = q
      BY <3>1, IdleRequest DEF Record, Request
    <3> QED
      BY <2>2, <3>2 DEF x
  <2> QED
    BY <2>1, <2>2
<1>4. Moves(w, r) /\ Only(w)
  <2>1. req' = [req EXCEPT ![w] = r]
    BY <1>1
  <2> HIDE DEF r
  <2> QED
    BY <1>3, <2>1, SetMoves
<1> HIDE DEF r
<1>5. \A v \in Worker : v # w => req'[v] = req[v] /\ SameWork(v)
  BY <1>4 DEF Only, Moves
<1>6. req'[w] = r
  BY <1>4 DEF Moves
<1>7. Turns'
  BY <1>1, <1>2, <1>3, <1>4, TurnsKept DEF InTurn
<1>8. \A v \in Worker : req[v].pc \in {"ask", "reply", "purge"} => req[v].conv \in Conversation
  BY DEF Equipped, TypeOK, Request
<1>9. Stored' /\ RepliesFollow'
  <2>1. \A v \in Worker :
           /\ req'[v].pc = "ask" => SameWork(v) \/ req'[v].q \notin asked
           /\ req'[v].pc = "ask" => req'[v].conv \in Conversation
           /\ req'[v].pc = "reply" => SameWork(v)
    BY <1>1, <1>2, <1>3, <1>5, <1>6, <1>8
  <2> QED
    BY <1>2, <2>1, Quiet
<1>10. q # NULL
  BY AssistantAssumption
<1>11. /\ asked' \subseteq Question /\ purged' \cup kept' \subseteq asked'
       /\ conv' \in [Conversation -> {"none", "live", "gone"}]
       /\ msgs' \in [Conversation -> Seq(Message)]
  BY <1>2 DEF TypeOK
<1>12. Chat'
  BY <1>7, <1>9 DEF Chat
<1>13. r.pc \notin Graph \cup {"addConfig", "setConfig"}
  BY <1>3 DEF Graph
<1> QED
  BY <1>1, <1>2, <1>3, <1>4, <1>10, <1>11, <1>12, <1>13, Dialogue DEF InTurn

\* A request of the chat goes on, or ends, with nothing said.
LEMMA SilentInv ==
  ASSUME IInv, NEW w \in Worker, NEW r, Moves(w, r), Only(w), r.plan = NULL,
         req[w].pc \in InTurn, r.pc \in {"postgres", "idle"}, r.q \in {req[w].q, NULL},
         r.pc = "postgres" => r.q = req[w].q,
         UNCHANGED <<planning, asked, conv, msgs, purged>>, kept' \subseteq asked
  PROVE IInv'
<1> USE DEF IInv
<1>1. req[w].plan = NULL /\ req[w].q # NULL /\ req[w].q \in asked
  BY DEF Planning, Owned, InTurn, Equipped, Chat, Turns
<1>2. Turns'
  BY <1>1, TurnsKept DEF InTurn
<1>3. \A v \in Worker : req'[v].pc \in {"ask", "reply"} => req'[v] = req[v]
  BY DEF Only, Moves
<1>4. \A v \in Worker : req[v].pc \in {"ask", "reply", "purge"} => req[v].conv \in Conversation
  BY DEF Equipped, TypeOK, Request
<1>5. Stored' /\ RepliesFollow'
  BY <1>3, <1>4, Quiet DEF SameWork
<1>6. Chat'
  BY <1>2, <1>5 DEF Chat
<1>7. /\ asked' \subseteq Question /\ purged' \cup kept' \subseteq asked'
      /\ conv' \in [Conversation -> {"none", "live", "gone"}]
      /\ msgs' \in [Conversation -> Seq(Message)]
  BY DEF TypeOK
<1> QED
  BY <1>1, <1>6, <1>7, Dialogue DEF InTurn, Graph

LEMMA FailOverInv ==
  ASSUME IInv, NEW w \in Worker, req[w].pc \in InTurn, Goto(w, "postgres"),
         UNCHANGED <<planning, asked, conv, msgs, purged, kept>>
  PROVE IInv'
<1> USE DEF IInv
<1> DEFINE r == [req[w] EXCEPT !.pc = "postgres"]
<1>1. /\ r \in Request /\ Moves(w, r) /\ Only(w)
      /\ req'[w].pc = "postgres" /\ req'[w].plan = req[w].plan /\ req'[w].q = req[w].q
  BY GotoMoves DEF Pcs
<1>2. r = req'[w]
  BY <1>1 DEF Moves
<1> HIDE DEF r
<1>3. req[w].plan = NULL
  BY DEF Planning, Owned, InTurn
<1> QED
  BY <1>1, <1>2, <1>3, SilentInv DEF TypeOK

LEMMA TouchInv ==
  ASSUME IInv, NEW w \in Worker, Touch(w)
  PROVE IInv'
<1>1. req[w].pc \in InTurn /\ UNCHANGED <<planning, asked, conv, msgs, purged, kept>>
  BY DEF Touch, At, InTurn, chat
<1>2. CASE Answer(w)
  BY <1>1, <1>2, AnswerMoves, IdleRequest, SilentInv DEF IInv, TypeOK
<1>3. CASE Goto(w, "postgres")
  BY <1>1, <1>3, FailOverInv
<1> QED
  BY <1>2, <1>3 DEF Touch

LEMMA PostgresChatInv ==
  ASSUME IInv, NEW w \in Worker, PostgresChat(w)
  PROVE IInv'
<1>1. /\ req[w].pc \in InTurn /\ UNCHANGED <<planning, asked, conv, msgs, purged>>
      /\ Answer(w)
      /\ kept' \in {kept, kept \cup {req[w].q}}
  BY DEF PostgresChat, At, InTurn
<1>2. req[w].q \in asked
  BY <1>1 DEF IInv, Chat, Turns
<1>3. kept' \subseteq asked
  BY <1>1, <1>2 DEF IInv, TypeOK
<1> QED
  BY <1>1, <1>3, AnswerMoves, IdleRequest, SilentInv DEF IInv

LEMMA DropConversationInv ==
  ASSUME IInv, NEW w \in Worker, NEW c \in Conversation, DropConversation(w, c)
  PROVE IInv'
<1> USE DEF IInv
<1>1. /\ req[w].pc = "idle" /\ req[w].plan = NULL /\ req[w] \in Request
      /\ conv[c] # "none" /\ conv' \in {conv, [conv EXCEPT ![c] = "gone"]}
      /\ UNCHANGED <<planning, asked, msgs, purged, kept>>
  BY DEF DropConversation, At, Planning, Owned, TypeOK
<1> DEFINE r == [req[w] EXCEPT !.pc = "purge", !.conv = c]
<1>2. req' = [req EXCEPT ![w] = r]
  BY DEF DropConversation
<1>3. r = Record("purge", req[w].llm, req[w].stale, req[w].confidence, req[w].plan, c, req[w].q)
  BY <1>1, ChangedParts
<1> HIDE DEF r
<1>4. r \in Request /\ r.pc = "purge" /\ r.plan = NULL /\ r.conv = c /\ c # NULL
  BY <1>1, <1>3, AssistantAssumption DEF Record, Request
<1>5. Moves(w, r) /\ Only(w)
  BY <1>2, <1>4, SetMoves
<1>6. /\ conv' \in [Conversation -> {"none", "live", "gone"}]
      /\ \A d \in Conversation : conv'[d] = conv[d] \/ (conv[d] # "none" /\ conv'[d] = "gone")
  BY <1>1 DEF TypeOK
<1>7. Turns'
  BY <1>1, <1>4, <1>5, <1>6, TurnsKept DEF InTurn
<1>8. \A v \in Worker : req'[v].pc \in {"ask", "reply"} => req'[v] = req[v]
  BY <1>4, <1>5 DEF Only, Moves
<1>9. \A v \in Worker : req[v].pc \in {"ask", "reply", "purge"} => req[v].conv \in Conversation
  BY DEF Equipped, TypeOK, Request
<1>10. Stored' /\ RepliesFollow'
  <2>1. \A v \in Worker :
           /\ req'[v].pc = "ask" => SameWork(v) \/ req'[v].q \notin asked
           /\ req'[v].pc = "ask" => req'[v].conv \in Conversation
           /\ req'[v].pc = "reply" => SameWork(v)
    BY <1>8, <1>9 DEF SameWork
  <2> QED
    BY <1>1, <1>6, <2>1, Quiet
<1>11. Chat'
  BY <1>7, <1>10 DEF Chat
<1>12. /\ asked' \subseteq Question /\ purged' \cup kept' \subseteq asked'
       /\ msgs' \in [Conversation -> Seq(Message)]
  BY <1>1 DEF TypeOK
<1> QED
  BY <1>1, <1>4, <1>5, <1>6, <1>11, <1>12, Dialogue DEF InTurn, Graph

\* What is left of a conversation when its first n messages are purged.
Rest(s, n) == SubSeq(s, n + 1, Len(s))

LEMMA RestShifts ==
  ASSUME NEW s \in Seq(Message), NEW n \in 0..Len(s)
  PROVE /\ Rest(s, n) \in Seq(Message) /\ Len(s) \in Nat /\ DOMAIN s = 1..Len(s)
        /\ DOMAIN Rest(s, n) = 1..(Len(s) - n)
        /\ \A i \in 1..(Len(s) - n) : Rest(s, n)[i] = s[n + i] /\ n + i \in 1..Len(s)
<1>1. PICK k : k = Len(s)
  OBVIOUS
<1>2. k \in Nat /\ DOMAIN s = 1..k /\ n \in Nat /\ n <= k
  BY <1>1, LenProperties
<1>3. \A i \in 1..k : s[i] \in Message
  BY <1>1, ElementOfSeq
<1>4. PICK t : t = Rest(s, n)
  OBVIOUS
<1>5. /\ t \in Seq(Message) /\ Len(t) = IF n + 1 <= k THEN k - (n + 1) + 1 ELSE 0
      /\ \A i \in 1..(k - (n + 1) + 1) : t[i] = s[n + 1 + i - 1]
  <2>1. n + 1 \in Int /\ k \in Int /\ \A i \in (n + 1)..k : s[i] \in Message
    BY <1>2, <1>3
  <2>2. t = SubSeq(s, n + 1, k)
    BY <1>1, <1>4 DEF Rest
  <2> QED
    BY <2>1, <2>2, SubSeqProperties
<1>6. DOMAIN t = 1..Len(t)
  BY <1>5, LenProperties
<1>7. PICK l : l = Len(t)
  OBVIOUS
<1>8. l = k - n
  BY <1>2, <1>5, <1>7
<1>9. ASSUME NEW i \in 1..(k - n) PROVE t[i] = s[n + i] /\ n + i \in 1..k
  <2>1. n + 1 + i - 1 = n + i /\ i \in 1..(k - (n + 1) + 1) /\ n + i \in 1..k
    BY <1>2
  <2> QED
    BY <1>5, <2>1
<1> QED
  BY <1>1, <1>2, <1>4, <1>5, <1>6, <1>7, <1>8, <1>9

\* No message twice, and no reply before its question unless that is in lost.
Follows(s, lost) ==
  \A i \in DOMAIN s :
    /\ \A j \in DOMAIN s : s[i] = s[j] => i = j
    /\ s[i].role = "assistant" =>
         \/ \E j \in 1..(i - 1) : s[j] = [role |-> "user", q |-> s[i].q]
         \/ s[i].q \in lost

\* The rest of a conversation still follows, its purged questions put aside.
LEMMA RestFollows ==
  ASSUME NEW s \in Seq(Message), NEW n \in 0..Len(s), NEW lost, NEW more,
         lost \subseteq more, Follows(s, lost),
         \A i \in 1..n : \A q : s[i] = [role |-> "user", q |-> q] => q \in more
  PROVE Follows(Rest(s, n), more)
<1> DEFINE t == Rest(s, n)
           m == Len(s)
<1>1. /\ m \in Nat /\ n \in Nat /\ n <= m /\ DOMAIN s = 1..m /\ DOMAIN t = 1..(m - n)
      /\ \A i \in 1..(m - n) : t[i] = s[n + i] /\ n + i \in 1..m
  BY RestShifts
<1> HIDE DEF t, m
<1>2. ASSUME NEW i \in 1..(m - n), NEW j \in 1..(m - n), t[i] = t[j]
      PROVE i = j
  <2>1. s[n + i] = s[n + j] /\ n + i \in DOMAIN s /\ n + j \in DOMAIN s
    BY <1>1, <1>2
  <2>2. n + i = n + j
    BY <2>1 DEF Follows
  <2> QED
    BY <1>1, <2>2
<1>3. ASSUME NEW i \in 1..(m - n), t[i].role = "assistant"
      PROVE \/ \E j \in 1..(i - 1) : t[j] = [role |-> "user", q |-> t[i].q]
            \/ t[i].q \in more
  <2>1. n + i \in DOMAIN s /\ t[i] = s[n + i]
    BY <1>1
  <2>2. CASE t[i].q \in lost
    BY <2>2
  <2>3. CASE \E k \in 1..(n + i - 1) : s[k] = [role |-> "user", q |-> t[i].q]
    <3>1. PICK k \in 1..(n + i - 1) : s[k] = [role |-> "user", q |-> t[i].q]
      BY <2>3
    <3>2. CASE k \in 1..n
      BY <3>1, <3>2
    <3>3. CASE k > n
      <4>1. k - n \in 1..(i - 1) /\ k - n \in 1..(m - n) /\ n + (k - n) = k
        BY <1>1, <3>3
      <4>2. t[k - n] = s[k]
        BY <1>1, <4>1
      <4> QED
        BY <3>1, <4>1, <4>2
    <3> QED
      BY <1>1, <3>2, <3>3
  <2> QED
    BY <1>3, <2>1, <2>2, <2>3 DEF Follows
<1>4. Follows(t, more)
  BY <1>1, <1>2, <1>3 DEF Follows
<1> QED
  BY <1>4 DEF t

LEMMA PurgeMessagesInv ==
  ASSUME IInv, NEW w \in Worker, PurgeMessages(w)
  PROVE IInv'
<1> USE DEF IInv
<1>1. /\ req[w].pc = "purge" /\ req[w].plan = NULL /\ Answer(w)
      /\ UNCHANGED <<planning, asked, conv, kept>>
  BY DEF PurgeMessages, At, Planning, Owned
<1> DEFINE c == req[w].conv
<1>2. c \in Conversation
  BY <1>1 DEF Equipped, TypeOK, Request
<1>3. PICK n \in 0..Len(msgs[c]) :
        /\ msgs' = [msgs EXCEPT ![c] = Rest(msgs[c], n)]
        /\ purged' = purged \cup {q \in asked :
                       \E i \in 1..n : msgs[c][i] = [role |-> "user", q |-> q]}
  BY Zenon DEF PurgeMessages, Rest
<1> HIDE DEF c
<1>4. PICK s \in Seq(Message) : s = msgs[c]
  BY <1>2 DEF TypeOK
<1>5. PICK t \in Seq(Message) : t = Rest(s, n)
  <2>1. n \in 0..Len(s)
    BY <1>3, <1>4
  <2> QED
    BY <2>1, RestShifts
<1>6. /\ Len(s) \in Nat /\ n \in Nat /\ n <= Len(s)
      /\ DOMAIN s = 1..Len(s) /\ DOMAIN t = 1..(Len(s) - n)
      /\ \A i \in 1..(Len(s) - n) : t[i] = s[n + i] /\ n + i \in 1..Len(s)
  <2>1. n \in 0..Len(s)
    BY <1>3, <1>4
  <2>2. /\ Len(s) \in Nat /\ DOMAIN s = 1..Len(s) /\ DOMAIN t = 1..(Len(s) - n)
        /\ \A i \in 1..(Len(s) - n) : t[i] = s[n + i] /\ n + i \in 1..Len(s)
    BY <1>5, <2>1, RestShifts
  <2> QED
    BY <2>1, <2>2
<1>7. /\ msgs' \in [Conversation -> Seq(Message)] /\ msgs'[c] = t
      /\ \A d \in Conversation : d # c => msgs'[d] = msgs[d]
  BY <1>2, <1>3, <1>4, <1>5 DEF TypeOK
<1>8. \A i \in DOMAIN s : s[i].q \in asked
  BY <1>2, <1>4, <1>6 DEF Chat, Stored
<1>9. /\ purged \subseteq purged' /\ purged' \subseteq asked
      /\ \A i \in 1..n : \A q : s[i] = [role |-> "user", q |-> q] => q \in purged'
  <2>1. ASSUME NEW i \in 1..n, NEW q, s[i] = [role |-> "user", q |-> q] PROVE q \in asked
    <3>1. i \in DOMAIN s
      BY <1>6
    <3>2. s[i].q \in asked
      BY <1>8, <3>1
    <3>3. s[i].q = q
      BY <2>1
    <3> QED
      BY <3>2, <3>3
  <2> QED
    BY <1>3, <1>4, <2>1 DEF TypeOK
<1>10. Moves(w, Idle) /\ Only(w)
  BY <1>1, AnswerMoves
<1>11. Turns'
  BY <1>1, <1>10, IdleRequest, TurnsKept DEF InTurn
<1>12. \A v \in Worker : req'[v].pc \in {"ask", "reply"} =>
         req'[v] = req[v] /\ req[v].conv \in Conversation
  BY <1>10, IdleRequest DEF Only, Moves, Equipped, TypeOK, Request
<1>13. ASSUME NEW role, NEW q
       PROVE /\ Told(t, role, q) => Told(s, role, q)
             /\ Told(s, "user", q) => Told(t, "user", q) \/ q \in purged'
  <2>1. ASSUME Told(t, role, q) PROVE Told(s, role, q)
    <3>1. PICK i \in 1..(Len(s) - n) : t[i] = [role |-> role, q |-> q]
      BY <1>6, <2>1 DEF Told
    <3> QED
      BY <1>6, <3>1 DEF Told
  <2>2. ASSUME Told(s, "user", q) PROVE Told(t, "user", q) \/ q \in purged'
    <3>1. PICK i \in 1..Len(s) : s[i] = [role |-> "user", q |-> q]
      BY <1>6, <2>2 DEF Told
    <3>2. CASE i \in 1..n
      BY <1>9, <3>1, <3>2
    <3>3. CASE i > n
      <4>1. i - n \in 1..(Len(s) - n) /\ n + (i - n) = i
        BY <1>6, <3>3
      <4>2. t[i - n] = [role |-> "user", q |-> q]
        BY <1>6, <3>1, <4>1
      <4> QED
        BY <1>6, <4>1, <4>2 DEF Told
    <3> QED
      BY <1>6, <3>2, <3>3
  <2> QED
    BY <2>1, <2>2
<1>14. Stored'
  <2>1. ASSUME NEW d \in Conversation, conv'[d] = "none" PROVE msgs'[d] = <<>>
    <3>1. msgs[d] = <<>>
      BY <1>1, <2>1 DEF Chat, Stored
    <3>2. CASE d = c
      <4>1. s = <<>> /\ Len(s) = 0
        BY <1>4, <3>1, <3>2, EmptySeq
      <4>2. DOMAIN t = 1..0 /\ Len(t) \in Nat /\ DOMAIN t = 1..Len(t)
        BY <1>6, <4>1, LenProperties
      <4>3. Len(t) = 0
        BY <4>2
      <4> QED
        BY <1>7, <3>2, <4>3, EmptySeq
    <3> QED
      BY <1>7, <3>1, <3>2
  <2>2. ASSUME NEW d \in Conversation, NEW i \in Nat, i \in DOMAIN msgs'[d]
        PROVE msgs'[d][i].q \in asked'
    <3>1. CASE d = c
      BY <1>1, <1>6, <1>7, <1>8, <2>2, <3>1
    <3>2. CASE d # c
      BY <1>1, <1>7, <2>2, <3>2 DEF Chat, Stored
    <3> QED
      BY <3>1, <3>2
  <2>3. ASSUME NEW v \in Worker, req'[v].pc = "ask", NEW x
        PROVE ~Told(msgs'[req'[v].conv], x, req'[v].q)
    <3>1. ~Told(msgs[req[v].conv], x, req[v].q)
      BY <1>12, <2>3 DEF Chat, Stored
    <3> QED
      BY <1>4, <1>7, <1>12, <1>13, <2>3, <3>1
  <2>4. ASSUME NEW v \in Worker, req'[v].pc = "reply"
        PROVE /\ Told(msgs'[req'[v].conv], "user", req'[v].q) \/ req'[v].q \in purged'
              /\ ~Told(msgs'[req'[v].conv], "assistant", req'[v].q)
    <3>1. /\ Told(msgs[req[v].conv], "user", req[v].q) \/ req[v].q \in purged
          /\ ~Told(msgs[req[v].conv], "assistant", req[v].q)
      BY <1>12, <2>4 DEF Chat, Stored
    <3> QED
      BY <1>4, <1>7, <1>9, <1>12, <1>13, <2>4, <3>1
  <2> QED
    BY <2>1, <2>2, <2>3, <2>4 DEF Stored
<1>15. RepliesFollow'
  <2> SUFFICES ASSUME NEW d \in Conversation PROVE Follows(msgs'[d], purged')
    BY DEF RepliesFollow, Follows
  <2>1. Follows(msgs[d], purged)
    BY DEF Chat, RepliesFollow, Follows
  <2>2. CASE d = c
    <3>1. PICK lost, more : lost = purged /\ more = purged'
      OBVIOUS
    <3>2. Follows(Rest(s, n), more)
      BY <1>3, <1>4, <1>9, <2>1, <2>2, <3>1, RestFollows
    <3> QED
      BY <1>5, <1>7, <2>2, <3>1, <3>2
  <2>3. CASE d # c
    BY <1>7, <1>9, <2>1, <2>3 DEF Follows
  <2> QED
    BY <2>2, <2>3
<1>16. Chat'
  BY <1>11, <1>14, <1>15 DEF Chat
<1>17. /\ asked' \subseteq Question /\ purged' \cup kept' \subseteq asked'
       /\ conv' \in [Conversation -> {"none", "live", "gone"}]
  BY <1>1, <1>9 DEF TypeOK
<1> QED
  BY <1>1, <1>7, <1>10, <1>16, <1>17, IdleRequest, Dialogue DEF InTurn, Graph

LEMMA Appended ==
  ASSUME NEW s \in Seq(Message), NEW m \in Message
  PROVE /\ Append(s, m) \in Seq(Message)
        /\ Len(s) \in Nat /\ DOMAIN s = 1..Len(s)
        /\ DOMAIN Append(s, m) = 1..(Len(s) + 1)
        /\ \A i \in 1..Len(s) : Append(s, m)[i] = s[i]
        /\ Append(s, m)[Len(s) + 1] = m
<1>1. /\ Append(s, m) \in Seq(Message) /\ Len(Append(s, m)) = Len(s) + 1
      /\ \A i \in 1..Len(s) : Append(s, m)[i] = s[i]
      /\ Append(s, m)[Len(s) + 1] = m
  BY AppendProperties
<1>2. Len(s) \in Nat /\ DOMAIN s = 1..Len(s)
  BY LenProperties
<1>3. DOMAIN Append(s, m) = 1..Len(Append(s, m))
  BY <1>1, LenProperties
<1> QED
  BY <1>1, <1>2, <1>3

\* What a conversation says when a message that it does not have is added, a reply
\* only to a question that it has.
LEMMA Said ==
  ASSUME NEW s \in Seq(Message), NEW m \in Message, NEW t, t = Append(s, m),
         \A i \in DOMAIN s : s[i] # m,
         NEW lost, m.role = "assistant" => Told(s, "user", m.q) \/ m.q \in lost,
         Follows(s, lost)
  PROVE Follows(t, lost)
<1> DEFINE n == Len(s)
<1>1. /\ n \in Nat /\ DOMAIN s = 1..n /\ DOMAIN t = 1..(n + 1)
      /\ \A i \in 1..n : t[i] = s[i]
      /\ t[n + 1] = m
  BY Appended
<1> HIDE DEF n
<1>2. ASSUME NEW i \in 1..(n + 1), NEW j \in 1..(n + 1), t[i] = t[j]
      PROVE i = j
  <2>1. (i \in 1..n \/ i = n + 1) /\ (j \in 1..n \/ j = n + 1)
    BY <1>1
  <2>2. CASE i \in 1..n /\ j \in 1..n
    BY <1>1, <1>2, <2>2 DEF Follows
  <2>3. CASE i = n + 1 /\ j \in 1..n
    BY <1>1, <1>2, <2>3
  <2>4. CASE i \in 1..n /\ j = n + 1
    BY <1>1, <1>2, <2>4
  <2> QED
    BY <2>1, <2>2, <2>3, <2>4
<1>3. ASSUME NEW i \in 1..(n + 1), t[i].role = "assistant", t[i].q \notin lost
      PROVE \E j \in 1..(i - 1) : t[j] = [role |-> "user", q |-> t[i].q]
  <2>1. CASE i \in 1..n
    <3>1. PICK j \in 1..(i - 1) : s[j] = [role |-> "user", q |-> s[i].q]
      BY <1>1, <1>3, <2>1 DEF Follows
    <3>2. j \in 1..n
      BY <1>1, <2>1
    <3> QED
      BY <1>1, <2>1, <3>1, <3>2
  <2>2. CASE i = n + 1
    <3>1. PICK j \in 1..n : s[j] = [role |-> "user", q |-> m.q]
      BY <1>1, <1>3, <2>2 DEF Told
    <3>2. j \in 1..(i - 1)
      BY <1>1, <2>2
    <3> QED
      BY <1>1, <2>2, <3>1, <3>2
  <2> QED
    BY <1>1, <2>1, <2>2
<1> QED
  BY <1>1, <1>2, <1>3 DEF Follows

\* The request adds its question, or the reply to it, to its conversation.
LEMMA SaidInv ==
  ASSUME IInv, NEW w \in Worker, NEW role, NEW l,
         \/ req[w].pc = "ask" /\ role = "user" /\ l = "reply"
         \/ req[w].pc = "reply" /\ role = "assistant" /\ l = "touch",
         msgs' = [msgs EXCEPT ![req[w].conv] = Append(@, [role |-> role, q |-> req[w].q])],
         Goto(w, l), UNCHANGED <<planning, asked, conv, purged, kept>>
  PROVE IInv'
<1> USE DEF IInv
<1> DEFINE c == req[w].conv
           q == req[w].q
           m == [role |-> role, q |-> q]
           s == msgs[c]
           t == Append(s, m)
           r == [req[w] EXCEPT !.pc = l]
<1>1. /\ c \in Conversation /\ q \in Question /\ q \in asked /\ conv[c] # "none"
      /\ req[w].plan = NULL /\ s \in Seq(Message)
  <2>1. /\ c \in Conversation /\ q \in Question
    BY DEF Equipped, TypeOK, Request, InTurn
  <2>2. q \in asked /\ conv[c] # "none"
    BY DEF Chat, Turns, InTurn
  <2>3. req[w].plan = NULL
    BY DEF Planning, Owned
  <2>4. s \in Seq(Message)
    BY <2>1 DEF TypeOK
  <2> QED
    BY <2>1, <2>2, <2>3, <2>4
<1>2. m \in Message /\ m.role = role /\ m.q = q
  BY <1>1 DEF Message
<1>3. /\ r \in Request /\ Moves(w, r) /\ Only(w)
      /\ req'[w].pc = l /\ req'[w].plan = req[w].plan /\ req'[w].q = q
      /\ req'[w].conv = c
  BY GotoMoves DEF Pcs
<1>4. r = req'[w]
  BY <1>3 DEF Moves
<1>5. msgs' = [msgs EXCEPT ![c] = t]
  OBVIOUS
<1> HIDE DEF r, t, c
<1>6. /\ t \in Seq(Message) /\ DOMAIN t = 1..(Len(s) + 1) /\ DOMAIN s = 1..Len(s)
      /\ Len(s) \in Nat /\ \A i \in 1..Len(s) : t[i] = s[i]
      /\ t[Len(s) + 1] = m
  BY <1>1, <1>2, Appended DEF t
<1>7. /\ msgs' \in [Conversation -> Seq(Message)] /\ msgs'[c] = t
      /\ \A d \in Conversation : d # c => msgs'[d] = msgs[d]
  BY <1>1, <1>5, <1>6 DEF TypeOK
<1>8. /\ role = "user" => \A x : ~Told(s, x, q)
      /\ role = "assistant" =>
           (Told(s, "user", q) \/ q \in purged) /\ ~Told(s, "assistant", q)
  BY DEF Chat, Stored, c
<1>9. ASSUME NEW x, NEW y
      PROVE /\ Told(s, x, y) => Told(t, x, y)
            /\ Told(t, x, y) => Told(s, x, y) \/ (x = role /\ y = q)
            /\ Told(t, role, q)
  <2>1. ASSUME NEW i \in DOMAIN s PROVE i \in DOMAIN t /\ t[i] = s[i]
    BY <1>6
  <2>2. ASSUME NEW i \in DOMAIN t PROVE i \in DOMAIN s \/ i = Len(s) + 1
    BY <1>6
  <2>3. Len(s) + 1 \in DOMAIN t
    BY <1>6
  <2>4. Told(s, x, y) => Told(t, x, y)
    BY <2>1 DEF Told
  <2>5. Told(t, role, q)
    BY <1>6, <2>3 DEF Told
  <2>6. ASSUME NEW i \in DOMAIN t, t[i] = [role |-> x, q |-> y]
        PROVE Told(s, x, y) \/ (x = role /\ y = q)
    <3>1. CASE i \in DOMAIN s
      BY <2>1, <2>6, <3>1 DEF Told
    <3>2. CASE i = Len(s) + 1
      <4>1. m = [role |-> x, q |-> y]
        BY <1>6, <2>6, <3>2
      <4> QED
        BY <1>2, <4>1
    <3> QED
      BY <2>2, <3>1, <3>2
  <2> QED
    BY <2>4, <2>5, <2>6 DEF Told
<1> HIDE DEF q, m, s
<1>10. Turns'
  <2>1. r.pc \in InTurn /\ r.pc \notin {"ask", "purge"} /\ r.q = req[w].q /\ r.conv = c
    BY <1>3, <1>4 DEF InTurn, q
  <2>2. req[w].pc \in InTurn /\ req[w].q \in asked'
    BY <1>1 DEF InTurn, q
  <2> QED
    BY <1>1, <1>3, <2>1, <2>2, TurnsKept
<1>11. \A v \in Worker : req[v].pc \in {"ask", "reply"} => req[v].conv \in Conversation
  BY DEF Equipped, TypeOK, Request
<1>12. \A v \in Worker : v # w /\ req[v].pc \in {"ask", "reply"} => req[v].q # q
  BY DEF Chat, Turns, InTurn, q
<1>13. Stored'
  <2>1. ASSUME NEW d \in Conversation, conv'[d] = "none" PROVE msgs'[d] = <<>>
    BY <1>1, <1>7, <2>1 DEF Chat, Stored
  <2>2. ASSUME NEW d \in Conversation, NEW i \in Nat, i \in DOMAIN msgs'[d]
        PROVE msgs'[d][i].q \in asked'
    <3>1. CASE d = c
      <4>1. i \in 1..Len(s) \/ i = Len(s) + 1
        BY <1>6, <1>7, <2>2, <3>1
      <4>2. CASE i \in 1..Len(s)
        <5>1. t[i] = s[i] /\ i \in DOMAIN msgs[c]
          BY <1>6, <4>2 DEF s
        <5> QED
          BY <1>1, <1>7, <3>1, <5>1 DEF Chat, Stored, s
      <4>3. CASE i = Len(s) + 1
        BY <1>1, <1>2, <1>6, <1>7, <3>1, <4>3
      <4> QED
        BY <4>1, <4>2, <4>3
    <3>2. CASE d # c
      BY <1>7, <2>2, <3>2 DEF Chat, Stored
    <3> QED
      BY <3>1, <3>2
  <2>3. ASSUME NEW v \in Worker, req'[v].pc = "ask", NEW x
        PROVE ~Told(msgs'[req'[v].conv], x, req'[v].q)
    <3>1. v # w /\ req'[v] = req[v]
      BY <1>3, <2>3 DEF Only
    <3>2. ~Told(msgs[req[v].conv], x, req[v].q) /\ req[v].q # q /\ req[v].conv \in Conversation
      BY <1>11, <1>12, <2>3, <3>1 DEF Chat, Stored
    <3>3. CASE req[v].conv = c
      BY <1>7, <1>9, <3>1, <3>2, <3>3 DEF s
    <3>4. CASE req[v].conv # c
      BY <1>7, <3>1, <3>2, <3>4
    <3> QED
      BY <3>3, <3>4
  <2>4. ASSUME NEW v \in Worker, req'[v].pc = "reply"
        PROVE /\ Told(msgs'[req'[v].conv], "user", req'[v].q) \/ req'[v].q \in purged'
              /\ ~Told(msgs'[req'[v].conv], "assistant", req'[v].q)
    <3>1. CASE v = w
      <4>1. role = "user"
        BY <1>3, <2>4, <3>1
      <4>2. ~Told(t, "assistant", q) /\ Told(t, "user", q)
        BY <1>8, <1>9, <4>1
      <4> QED
        BY <1>3, <1>7, <3>1, <4>2
    <3>2. CASE v # w
      <4>1. req'[v] = req[v]
        BY <3>2 , <1>3 DEF Only
      <4>2. /\ Told(msgs[req[v].conv], "user", req[v].q) \/ req[v].q \in purged
            /\ ~Told(msgs[req[v].conv], "assistant", req[v].q)
            /\ req[v].q # q /\ req[v].conv \in Conversation
        BY <1>11, <1>12, <2>4, <3>2, <4>1 DEF Chat, Stored
      <4>3. CASE req[v].conv = c
        BY <1>7, <1>9, <4>1, <4>2, <4>3 DEF s
      <4>4. CASE req[v].conv # c
        BY <1>7, <4>1, <4>2, <4>4
      <4> QED
        BY <4>3, <4>4
    <3> QED
      BY <3>1, <3>2
  <2> QED
    BY <2>1, <2>2, <2>3, <2>4 DEF Stored
<1>14. RepliesFollow'
  <2> SUFFICES ASSUME NEW d \in Conversation PROVE Follows(msgs'[d], purged)
    BY DEF RepliesFollow, Follows
  <2>1. Follows(msgs[d], purged)
    BY DEF Chat, RepliesFollow, Follows
  <2>2. CASE d = c
    <3>1. \A i \in DOMAIN s : s[i] # m
      BY <1>8, <2>2 DEF Told, m
    <3>2. m.role = "assistant" => Told(s, "user", m.q) \/ m.q \in purged
      BY <1>2, <1>8, <2>2
    <3>3. s \in Seq(Message) /\ Follows(s, purged)
      BY <1>1, <2>1, <2>2 DEF s
    <3>4. Follows(t, purged)
      BY <1>2, <3>1, <3>2, <3>3, Said DEF t
    <3> QED
      BY <1>7, <2>2, <3>4
  <2>3. CASE d # c
    BY <1>7, <2>1, <2>3
  <2> QED
    BY <2>2, <2>3
<1>15. Chat'
  BY <1>10, <1>13, <1>14 DEF Chat
<1>16. /\ asked' \subseteq Question /\ purged' \cup kept' \subseteq asked'
       /\ conv' \in [Conversation -> {"none", "live", "gone"}]
  BY DEF TypeOK
<1>17. q # NULL /\ c # NULL
  BY <1>1, AssistantAssumption
<1> QED
  BY <1>1, <1>3, <1>4, <1>7, <1>15, <1>16, <1>17, Dialogue DEF Graph, InTurn

LEMMA StoreInv ==
  ASSUME IInv, NEW w \in Worker, StoreQuestion(w) \/ StoreReply(w)
  PROVE IInv'
<1>1. CASE StoreQuestion(w)
  <2>1. req[w].pc = "ask" /\ UNCHANGED <<planning, asked, conv, purged, kept>>
    BY <1>1 DEF StoreQuestion, At
  <2>2. CASE /\ msgs' = [msgs EXCEPT ![req[w].conv] =
                           Append(@, [role |-> "user", q |-> req[w].q])]
             /\ Goto(w, "reply")
    BY <2>1, <2>2, SaidInv
  <2>3. CASE Goto(w, "postgres") /\ UNCHANGED msgs
    BY <2>1, <2>3, FailOverInv DEF InTurn
  <2> QED
    BY <1>1, <2>2, <2>3 DEF StoreQuestion, Store
<1>2. CASE StoreReply(w)
  <2>1. req[w].pc = "reply" /\ UNCHANGED <<planning, asked, conv, purged, kept>>
    BY <1>2 DEF StoreReply, At
  <2>2. CASE /\ msgs' = [msgs EXCEPT ![req[w].conv] =
                           Append(@, [role |-> "assistant", q |-> req[w].q])]
             /\ Goto(w, "touch")
    BY <2>1, <2>2, SaidInv
  <2>3. CASE Goto(w, "postgres") /\ UNCHANGED msgs
    BY <2>1, <2>3, FailOverInv DEF InTurn
  <2> QED
    BY <1>2, <2>2, <2>3 DEF StoreReply, Store
<1> QED
  BY <1>1, <1>2

-----------------------------------------------------------------------------
LEMMA StutterInv == IInv /\ UNCHANGED vars => IInv'
<1> SUFFICES ASSUME IInv, UNCHANGED vars PROVE IInv'
  OBVIOUS
<1>1. /\ config' = config /\ configs' = configs /\ plan' = plan /\ asked' = asked
      /\ conv' = conv /\ msgs' = msgs /\ purged' = purged /\ kept' = kept /\ req' = req
  BY DEF vars, planning, chat
<1>2. TypeOK' /\ Equipped'
  BY <1>1 DEF IInv, TypeOK, Equipped
<1>3. Planning'
  BY <1>1 DEF IInv, Planning, Owned, Apart, Chosen, LogsTell, ProviderNamed, Resolved, Explaining
<1>4. Turns' /\ Stored'
  BY <1>1 DEF IInv, Chat, Turns, Stored
<1>5. RepliesFollow'
  BY <1>1 DEF IInv, Chat, RepliesFollow
<1> QED
  BY <1>2, <1>3, <1>4, <1>5 DEF IInv, Chat

LEMMA PlanStepInv ==
  ASSUME IInv, NEW w \in Worker, PlanStep(w)
  PROVE IInv'
BY AskPlanInv, PlainPlanInv, AnalyzeInv, ForecastInv, OptimizeInv, ExplainInv, PersistInv
   DEF PlanStep

LEMMA ConfigStepInv ==
  ASSUME IInv, NEW w \in Worker, ConfigStep(w)
  PROVE IInv'
BY AskConfigInv, ChangeInv DEF ConfigStep

LEMMA ChatStepInv ==
  ASSUME IInv, NEW w \in Worker, ChatStep(w)
  PROVE IInv'
<1>1. CASE \E c \in Conversation \cup {NULL}, q \in Question : SendMessage(w, c, q)
  BY <1>1, SendMessageInv
<1>2. CASE StoreQuestion(w) \/ StoreReply(w)
  BY <1>2, StoreInv
<1>3. CASE Touch(w)
  BY <1>3, TouchInv
<1>4. CASE PostgresChat(w)
  BY <1>4, PostgresChatInv
<1>5. CASE \E c \in Conversation : DropConversation(w, c)
  BY <1>5, DropConversationInv
<1>6. CASE PurgeMessages(w)
  BY <1>6, PurgeMessagesInv
<1> QED
  BY <1>1, <1>2, <1>3, <1>4, <1>5, <1>6 DEF ChatStep

\* The invariant holds in every reachable state.
THEOREM AssistantInvariant == Spec => []IInv
<1>1. IInv /\ [Next]_vars => IInv'
  <2> SUFFICES ASSUME IInv, [Next]_vars PROVE IInv'
    OBVIOUS
  <2>1. ASSUME NEW w \in Worker, PlanStep(w) \/ ConfigStep(w) \/ ChatStep(w) \/ Die(w)
        PROVE IInv'
    BY <2>1, PlanStepInv, ConfigStepInv, ChatStepInv, DieInv
  <2>2. ASSUME NEW c \in Conversation, NewConversation(c) PROVE IInv'
    BY <2>2, NewConversationInv
  <2>3. CASE UNCHANGED vars
    BY <2>3, StutterInv
  <2> QED
    BY <2>1, <2>2, <2>3 DEF Next
<1> QED
  BY <1>1, InitInv, PTL DEF Spec

\* Rows and requests hold values of their types, and neither floor of the confidence
\* of langgraph_agent.py is ever reached.
THEOREM AssistantTyped == Spec => []TypeOK
<1>1. IInv => TypeOK
  BY DEF IInv
<1> QED
  BY <1>1, AssistantInvariant, PTL

\* A plan that a graph made has that graph's complete log, or none because its
\* request died or has not come to it.
THEOREM AssistantLogs == Spec => []LogsTell
<1>1. IInv => LogsTell
  BY DEF IInv, Planning
<1> QED
  BY <1>1, AssistantInvariant, PTL

\* The log of a plan names the provider that was asked, or none, unless the tenant
\* chose another while the plan was made.
THEOREM AssistantProvider == Spec => []ProviderNamed
<1>1. IInv => ProviderNamed
  BY DEF IInv, Planning
<1> QED
  BY <1>1, AssistantInvariant, PTL

\* No message is in a conversation twice, and every reply comes after its question,
\* unless a purge removed that question.
THEOREM AssistantReplies == Spec => []RepliesFollow
<1>1. IInv => RepliesFollow
  BY DEF IInv, Chat
<1> QED
  BY <1>1, AssistantInvariant, PTL
=============================================================================
