------------------------- MODULE MarketplaceProofs -------------------------
(***************************************************************************)
(* Proofs about the marketplace.  Typing, coverage, and that each copy of  *)
(* the match engine sells a row once at most, hold for any number of       *)
(* copies; that capacity is sold once at all, and that the marketplace     *)
(* implements the exchange, for one copy: two may sell one offer twice.    *)
(***************************************************************************)
EXTENDS Marketplace, Integers, FiniteSetTheorems, TLAPS

\* What the engine holds: a pair about to be booked and requests to look at.
PairsFit ==
  /\ \A a \in answering : Made(a[1])
  /\ \A e \in Engine : At(e, "book") =>
       /\ engine[e].pair \in Offer \X Request
       /\ Suits(engine[e].pair[1], engine[e].pair[2])
  /\ \A m \in Match : Made(m) =>
       /\ match[m].pair \in Offer \X Request
       /\ Suits(match[m].pair[1], match[m].pair[2])

FitInv == TypeOK /\ PairsFit

\* The sum that run_match_engine's ceil() stands for.
LEMMA CeilCovers ==
  ASSUME NEW n \in Nat, NEW k \in Nat, k >= DriversNeeded(n)
  PROVE k * OrdersPerDriver >= n
<1> DEFINE c == OrdersPerDriver
           q == (n + c - 1) \div c
<1>1. c \in Nat /\ c > 0
  BY RowAssumption
<1>2. q \in Int /\ q * c + c > n + c - 1
  BY <1>1
<1>3. k * c >= q * c
  BY <1>1, <1>2 DEF DriversNeeded
<1> QED BY <1>1, <1>2, <1>3

LEMMA FitInit == Init => FitInv
  BY UserAssumption
     DEF Init, FitInv, TypeOK, PairsFit, NoMatch, Sleep, PairType, MatchRow, Run, At, Made

Rest == <<match, lapsed, cancelling, answering>>

\* A step of run e to the state r.
LEMMA Moved ==
  ASSUME TypeOK, NEW e \in Engine, NEW r \in Run, Become(e, r)
  PROVE /\ engine' \in [Engine -> Run]
        /\ engine'[e] = r
        /\ \A f \in Engine : f # e => engine'[f] = engine[f]
  BY DEF TypeOK, Become

LEMMA MovedFits ==
  ASSUME TypeOK, PairsFit, NEW e \in Engine, NEW r \in Run, Become(e, r),
         r.pc = "book" => /\ r.pair \in Offer \X Request
                          /\ Suits(r.pair[1], r.pair[2]),
         UNCHANGED Rest,
         offer' \in [Offer -> {"NONE", "OPEN", "MATCHED", "CANCELLED", "EXPIRED"}],
         request' \in [Request -> {"NONE", "OPEN", "MATCHED", "EXPIRED"}]
  PROVE TypeOK' /\ PairsFit'
<1>1. /\ engine' \in [Engine -> Run]
      /\ engine'[e] = r
      /\ \A f \in Engine : f # e => engine'[f] = engine[f]
  BY Moved
<1>2. TypeOK'
  BY <1>1 DEF TypeOK, Rest
<1>3. PairsFit'
  BY <1>1 DEF PairsFit, Rest, At, Made
<1> QED BY <1>2, <1>3

\* What a commit writes over the statuses of offers and of requests.
LEMMA ExpiredTyped ==
  ASSUME TypeOK, NEW e \in Engine
  PROVE /\ Expired(e, Offer, offer)
             \in [Offer -> {"NONE", "OPEN", "MATCHED", "CANCELLED", "EXPIRED"}]
        /\ Expired(e, Request, request)
             \in [Request -> {"NONE", "OPEN", "MATCHED", "EXPIRED"}]
  BY DEF Expired, TypeOK

LEMMA EngineFits ==
  ASSUME TypeOK, PairsFit, NEW e \in Engine, EngineStep(e) \/ Crash(e)
  PROVE TypeOK' /\ PairsFit'
<1>1. engine[e] \in Run /\ Sleep \in Run /\ <<>> \in PairType
  BY DEF TypeOK, Sleep, Run, PairType
<1>2. CASE ArchiveOffers(e)
  <2> DEFINE r == [Sleep EXCEPT !.pc = "overdue",
                                !.stale = OverdueOffers \cup (Request \cap lapsed)]
  <2>1. r \in Run /\ r.pc = "overdue"
    BY <1>1 DEF Sleep, Run, OverdueOffers
  <2>2. Become(e, r) /\ UNCHANGED <<offer, request, Rest>>
    BY <1>2 DEF ArchiveOffers, users, Rest
  <2> QED BY <2>1, <2>2, MovedFits DEF TypeOK
<1>3. CASE ArchiveRequests(e)
  <2> DEFINE due == {x \in Request \cap engine[e].stale : request[x] = "OPEN"}
             r == [engine[e] EXCEPT !.pc = IF due = {} THEN "load" ELSE "expire",
                                    !.stale = (Offer \cap @) \cup due]
  <2>1. r \in Run /\ r.pc # "book"
    BY <1>1 DEF Run
  <2>2. Become(e, r) /\ UNCHANGED <<offer, request, Rest>>
    BY <1>3 DEF ArchiveRequests, users, Rest
  <2> QED BY <2>1, <2>2, MovedFits DEF TypeOK
<1>4. CASE CommitExpired(e)
  <2> DEFINE r == [engine[e] EXCEPT !.pc = "load", !.stale = {}]
  <2>1. r \in Run /\ r.pc = "load"
    BY <1>1 DEF Run
  <2>2. Become(e, r) /\ UNCHANGED Rest
    BY <1>4 DEF CommitExpired, users, Rest
  <2> QED BY <1>4, <2>1, <2>2, MovedFits, ExpiredTyped DEF CommitExpired
<1>5. CASE LoadRequests(e)
  <2> DEFINE r == [engine[e] EXCEPT !.pc = "seek",
                     !.todo = {x \in Request \ lapsed : request[x] = "OPEN"}]
  <2>1. r \in Run /\ r.pc = "seek"
    BY <1>1 DEF Run
  <2>2. Become(e, r) /\ UNCHANGED <<offer, request, Rest>>
    BY <1>5 DEF LoadRequests, users, Rest
  <2> QED BY <2>1, <2>2, MovedFits DEF TypeOK
<1>6. CASE SeekOffer(e)
  <2>1. UNCHANGED <<offer, request, Rest>>
    BY <1>6 DEF SeekOffer, users, Rest
  <2>2. ASSUME NEW x \in Foremost(e), Become(e, [engine[e] EXCEPT !.todo = @ \ {x}])
        PROVE TypeOK' /\ PairsFit'
    <3> DEFINE r == [engine[e] EXCEPT !.todo = @ \ {x}]
    <3>1. r \in Run /\ r.pc = "seek"
      BY <1>1, <1>6 DEF Run, SeekOffer, At
    <3> QED BY <2>1, <2>2, <3>1, MovedFits DEF TypeOK
  <2>3. ASSUME NEW x \in Foremost(e), NEW o \in Matching(x),
               Become(e, [engine[e] EXCEPT !.pc = "book", !.todo = @ \ {x},
                                           !.pair = <<o, x>>])
        PROVE TypeOK' /\ PairsFit'
    <3> DEFINE r == [engine[e] EXCEPT !.pc = "book", !.todo = @ \ {x},
                                      !.pair = <<o, x>>]
    <3>1. x \in Request /\ o \in Offer /\ Suits(o, x)
      BY <1>1 DEF Foremost, Matching, Run
    <3>2. r \in Run /\ r.pair = <<o, x>>
      BY <1>1, <3>1 DEF Run, PairType
    <3>3. Become(e, r) /\ r.pair \in Offer \X Request /\ Suits(r.pair[1], r.pair[2])
      BY <2>3, <3>1, <3>2
    <3> HIDE DEF r
    <3> QED BY <2>1, <3>2, <3>3, MovedFits DEF TypeOK
  <2> QED BY <1>6, <2>2, <2>3 DEF SeekOffer
<1>7. CASE CommitMatch(e)
  <2> DEFINE r == [engine[e] EXCEPT !.pc = "seek", !.stale = {}, !.pair = <<>>]
             o == engine[e].pair[1]
             q == engine[e].pair[2]
  <2>1. engine[e].pair \in Offer \X Request /\ Suits(o, q) /\ o \in Offer /\ q \in Request
    BY <1>7 DEF CommitMatch, PairsFit
  <2>2. r \in Run /\ r.pc = "seek"
    BY <1>1 DEF Run
  <2>3. Become(e, r) /\ UNCHANGED users
    BY <1>7 DEF CommitMatch
  <2>4. /\ engine' \in [Engine -> Run]
        /\ engine'[e] = r
        /\ \A f \in Engine : f # e => engine'[f] = engine[f]
    BY <2>2, <2>3, Moved
  <2>5. PICK m \in Match : match' = [match EXCEPT ![m] = [status |-> "PENDING_ACCEPTANCE",
                                                    pair |-> engine[e].pair,
                                                    settled |-> FALSE]]
    BY <1>7 DEF CommitMatch
  <2>6. [status |-> "PENDING_ACCEPTANCE", pair |-> engine[e].pair, settled |-> FALSE]
          \in MatchRow
    BY <2>1 DEF MatchRow, PairType
  <2>7. match' \in [Match -> MatchRow]
    BY <2>5, <2>6 DEF TypeOK
  <2>8. /\ offer' \in [Offer -> {"NONE", "OPEN", "MATCHED", "CANCELLED", "EXPIRED"}]
        /\ request' \in [Request -> {"NONE", "OPEN", "MATCHED", "EXPIRED"}]
    BY <1>7, <2>1, ExpiredTyped DEF CommitMatch, TypeOK
  <2>9. TypeOK'
    BY <2>3, <2>4, <2>7, <2>8 DEF TypeOK, users
  <2>10. PairsFit'
    <3>1. \A a \in answering : Made(a[1])'
      BY <2>5 DEF PairsFit, TypeOK, Made
    <3>2. ASSUME NEW f \in Engine, At(f, "book")'
          PROVE engine'[f] = engine[f] /\ At(f, "book")
      <4>1. engine'[f].pc = "book" /\ engine'[e].pc = "seek"
        BY <2>2, <2>4, <3>2 DEF At
      <4> QED BY <2>4, <4>1 DEF At
    <3>3. ASSUME NEW n \in Match, Made(n)'
          PROVE \/ match'[n].pair = engine[e].pair
                \/ Made(n) /\ match'[n] = match[n]
      <4>1. CASE n = m
        <5>1. match'[m] = [status |-> "PENDING_ACCEPTANCE",
                           pair |-> engine[e].pair, settled |-> FALSE]
          BY <2>5 DEF TypeOK
        <5> QED BY <4>1, <5>1
      <4>2. CASE n # m
        <5>1. match'[n] = match[n]
          BY <2>5, <4>2 DEF TypeOK
        <5> QED BY <3>3, <5>1 DEF Made
      <4> QED BY <4>1, <4>2
    <3>4. ASSUME NEW f \in Engine, At(f, "book")'
          PROVE /\ engine'[f].pair \in Offer \X Request
                /\ Suits(engine'[f].pair[1], engine'[f].pair[2])
      BY <3>2, <3>4 DEF PairsFit
    <3>5. ASSUME NEW n \in Match, Made(n)'
          PROVE /\ match'[n].pair \in Offer \X Request
                /\ Suits(match'[n].pair[1], match'[n].pair[2])
      BY <2>1, <3>3, <3>5 DEF PairsFit
    <3>6. UNCHANGED answering
      BY <2>3 DEF users
    <3> QED BY <3>1, <3>4, <3>5, <3>6 DEF PairsFit
  <2> QED BY <2>9, <2>10
<1>8. CASE FinishRun(e) \/ Crash(e)
  <2>1. Become(e, Sleep) /\ UNCHANGED <<offer, request, Rest>>
    BY <1>8 DEF FinishRun, Crash, users, Rest
  <2> QED BY <1>1, <2>1, MovedFits DEF TypeOK, Sleep
<1> QED BY <1>2, <1>3, <1>4, <1>5, <1>6, <1>7, <1>8 DEF EngineStep

LEMMA FitNext == FitInv /\ [Next]_vars => FitInv'
<1> SUFFICES ASSUME TypeOK, PairsFit, [Next]_vars PROVE TypeOK' /\ PairsFit'
  BY DEF FitInv
<1> USE DEF At, Made
<1>1. CASE UNCHANGED vars
  BY <1>1 DEF vars, TypeOK, PairsFit
<1>2. ASSUME NEW o \in Offer, CreateOffer(o) \/ BeginCancel(o) \/ CommitCancel(o)
      PROVE TypeOK' /\ PairsFit'
  <2>1. PairsFit'
    BY <1>2 DEF PairsFit, CreateOffer, BeginCancel, CommitCancel, users
  <2>2. TypeOK'
    BY <1>2 DEF TypeOK, CreateOffer, BeginCancel, CommitCancel, users
  <2> QED BY <2>1, <2>2
<1>3. ASSUME NEW r \in Request, CreateRequest(r) PROVE TypeOK' /\ PairsFit'
  BY <1>3 DEF TypeOK, PairsFit, CreateRequest, users
<1>4. ASSUME NEW x \in Offer \cup Request, Lapse(x) PROVE TypeOK' /\ PairsFit'
  BY <1>4 DEF TypeOK, PairsFit, Lapse
<1>5. ASSUME NEW m \in Match, NEW s \in Answers, BeginAnswer(m, s)
      PROVE TypeOK' /\ PairsFit'
  BY <1>5 DEF TypeOK, PairsFit, BeginAnswer
<1>6. ASSUME NEW m \in Match, NEW s \in Answers, CommitAnswer(m, s)
      PROVE TypeOK' /\ PairsFit'
  <2>1. match[m].status # "NONE" /\ match[m] \in MatchRow
    BY <1>6 DEF CommitAnswer, PairsFit, TypeOK
  <2>2. /\ match'[m].status = s /\ match'[m].pair = match[m].pair
        /\ match'[m] \in MatchRow
        /\ \A n \in Match : n # m => match'[n] = match[n]
        /\ match' = [n \in Match |-> match'[n]]
    <3> DEFINE settled == match[m].settled \/ s = "ACCEPTED"
    <3>1. match' = [match EXCEPT ![m].status = s, ![m].settled = settled]
      BY <1>6 DEF CommitAnswer
    <3>2. settled \in BOOLEAN
      OBVIOUS
    <3> HIDE DEF settled
    <3> QED BY <2>1, <3>1, <3>2 DEF TypeOK, MatchRow
  <2>3. match' \in [Match -> MatchRow]
    BY <2>2 DEF TypeOK
  <2>4. TypeOK'
    BY <1>6, <2>3 DEF CommitAnswer, TypeOK
  <2>5. s # "NONE"
    BY UserAssumption
  <2>6. PairsFit'
    <3>1. \A n \in Match : (Made(n) <=> Made(n)') /\ match'[n].pair = match[n].pair
      BY <2>1, <2>2, <2>5
    <3>2. answering' \subseteq answering /\ answering \subseteq Match \X Answers
      BY <1>6 DEF CommitAnswer, TypeOK
    <3>3. \A a \in answering' : Made(a[1])'
      BY <3>1, <3>2 DEF PairsFit
    <3>4. UNCHANGED engine
      BY <1>6 DEF CommitAnswer
    <3> QED BY <3>1, <3>3, <3>4 DEF PairsFit
  <2> QED BY <2>4, <2>6
<1>7. ASSUME NEW e \in Engine, EngineStep(e) \/ Crash(e) PROVE TypeOK' /\ PairsFit'
  BY <1>7, EngineFits
<1> QED BY <1>1, <1>2, <1>3, <1>4, <1>5, <1>6, <1>7 DEF Next, TenantStep

\* Every column and every variable of the engine stays in its type.
THEOREM MarketTyped == Spec => []TypeOK
<1>1. FitInv => TypeOK
  BY DEF FitInv
<1> QED BY <1>1, FitInit, FitNext, PTL DEF Spec

\* However many copies of the engine run, a match never promises more orders
\* than the offered drivers deliver.
THEOREM MarketCovers == Spec => []CapacityCovers
<1>1. FitInv => CapacityCovers
  <2> SUFFICES ASSUME FitInv, NEW m \in Match, Made(m)
               PROVE DriverCount[match[m].pair[1]] * OrdersPerDriver
                       >= OrderCount[match[m].pair[2]]
    BY DEF CapacityCovers, Deals
  <2>1. /\ match[m].pair[1] \in Offer /\ match[m].pair[2] \in Request
        /\ DriverCount[match[m].pair[1]] >= DriversNeeded(OrderCount[match[m].pair[2]])
    BY DEF FitInv, PairsFit, Suits
  <2> QED BY <2>1, CeilCovers, RowAssumption
<1> QED BY <1>1, FitInit, FitNext, PTL DEF Spec

-----------------------------------------------------------------------------
(* Any number of copies of the engine *)

\* The copies that may still sell x: it is in the pair they are about to book or
\* among the requests they have not looked at yet.
Claims(x) ==
  {e \in Engine : \/ x \in engine[e].todo
                  \/ At(e, "book") /\ (engine[e].pair[1] = x \/ engine[e].pair[2] = x)}

\* What is on sale is unsold; what is sold has been claimed by then.
OnSaleUnsold ==
  /\ \A o \in Offer : offer[o] \in {"NONE", "OPEN"} => Sales(o) = {}
  /\ \A r \in Request : request[r] \in {"NONE", "OPEN"} => Sales(r) = {}
  /\ \A e \in Engine : At(e, "book") => engine[e].pair[2] \notin engine[e].todo

Within(x) ==
  /\ IsFiniteSet(Sales(x))
  /\ Cardinality(Sales(x)) + Cardinality(Claims(x)) <= Cardinality(Engine)

ClaimsInv ==
  /\ FitInv
  /\ OnSaleUnsold
  /\ \A x \in Offer \cup Request : Within(x)

LEMMA ClaimSets ==
  ASSUME NEW x
  PROVE /\ IsFiniteSet(Claims(x)) /\ Cardinality(Claims(x)) \in Nat
        /\ Cardinality(Engine) \in Nat /\ Cardinality(Claims(x)) <= Cardinality(Engine)
<1>1. Claims(x) \subseteq Engine /\ IsFiniteSet(Engine)
  BY RowAssumption DEF Claims
<1> QED BY <1>1, FS_Subset, FS_CardinalityType

\* A row that nobody has bought is within the bound, whoever claims it.
LEMMA UnsoldWithin ==
  ASSUME NEW x, Sales(x) = {} PROVE Within(x)
<1>1. IsFiniteSet(Sales(x)) /\ Cardinality(Sales(x)) = 0
  BY FS_EmptySet
<1>2. Cardinality(Claims(x)) \in Nat /\ Cardinality(Engine) \in Nat
      /\ Cardinality(Claims(x)) <= Cardinality(Engine)
  BY ClaimSets
<1> QED BY <1>1, <1>2 DEF Within

\* No sale of x and no new claim of it.
LEMMA QuietWithin ==
  ASSUME NEW x, Within(x), Sales(x)' = Sales(x), Claims(x)' \subseteq Claims(x)
  PROVE Within(x)'
<1>1. IsFiniteSet(Claims(x)) /\ Cardinality(Claims(x)) \in Nat /\ Cardinality(Engine) \in Nat
  BY ClaimSets
<1>2. /\ Cardinality(Claims(x)') \in Nat
      /\ Cardinality(Claims(x)') <= Cardinality(Claims(x))
  BY <1>1, FS_Subset, FS_CardinalityType
<1>3. IsFiniteSet(Sales(x)) /\ Cardinality(Sales(x)) \in Nat
  BY FS_CardinalityType DEF Within
<1> QED BY <1>1, <1>2, <1>3 DEF Within

\* A sale of x uses up the claim of the engine that makes it.
LEMMA SaleWithin ==
  ASSUME NEW x, Within(x), NEW m, Sales(x)' = Sales(x) \cup {m}, m \notin Sales(x),
         NEW e \in Claims(x), Claims(x)' \subseteq Claims(x) \ {e}
  PROVE Within(x)'
<1>1. IsFiniteSet(Claims(x)) /\ Cardinality(Claims(x)) \in Nat /\ Cardinality(Engine) \in Nat
  BY ClaimSets
<1>2. IsFiniteSet(Claims(x) \ {e}) /\ Cardinality(Claims(x) \ {e}) = Cardinality(Claims(x)) - 1
  BY <1>1, FS_RemoveElement
<1>3. /\ Cardinality(Claims(x)') \in Nat
      /\ Cardinality(Claims(x)') <= Cardinality(Claims(x) \ {e})
  BY <1>2, FS_Subset, FS_CardinalityType
<1>4. IsFiniteSet(Sales(x)) /\ Cardinality(Sales(x)) \in Nat
  BY FS_CardinalityType DEF Within
<1>5. IsFiniteSet(Sales(x)') /\ Cardinality(Sales(x)') = Cardinality(Sales(x)) + 1
  BY <1>4, FS_AddElement
<1> QED BY <1>1, <1>2, <1>3, <1>4, <1>5 DEF Within

\* Steps that make no match and claim only rows on sale.
LEMMA ClaimsKept ==
  ASSUME ClaimsInv, FitInv',
         \A m \in Match : (Made(m)' <=> Made(m)) /\ match'[m].pair = match[m].pair,
         \A o \in Offer : offer'[o] \in {"NONE", "OPEN"} => offer[o] \in {"NONE", "OPEN"},
         \A r \in Request : request'[r] \in {"NONE", "OPEN"} => request[r] \in {"NONE", "OPEN"},
         \A e \in Engine : At(e, "book")' => engine'[e].pair[2] \notin engine'[e].todo,
         \A x \in Offer \cup Request : Sales(x) = {} \/ Claims(x)' \subseteq Claims(x)
  PROVE ClaimsInv'
<1>1. \A x : Sales(x)' = Sales(x)
  BY DEF Sales
<1>2. OnSaleUnsold'
  BY <1>1 DEF ClaimsInv, OnSaleUnsold
<1>3. ASSUME NEW x \in Offer \cup Request PROVE Within(x)'
  <2>1. CASE Sales(x) = {}
    <3>1. (Sales(x) = {})'
      BY <1>1, <2>1
    <3>2. (Sales(x) = {} => Within(x))'
      BY UnsoldWithin, PTL
    <3> QED BY <3>1, <3>2
  <2>2. CASE Claims(x)' \subseteq Claims(x)
    BY <1>1, <2>2, QuietWithin DEF ClaimsInv
  <2> QED BY <2>1, <2>2
<1> QED BY <1>2, <1>3 DEF ClaimsInv

\* No tenant makes a match or changes what one joins.
LEMMA TenantMatches ==
  ASSUME FitInv, TenantStep
  PROVE \A m \in Match : (Made(m)' <=> Made(m)) /\ match'[m].pair = match[m].pair
<1>1. CASE UNCHANGED match
  BY <1>1 DEF Made
<1>2. ASSUME NEW m \in Match, NEW s \in Answers, CommitAnswer(m, s)
      PROVE \A n \in Match : (Made(n)' <=> Made(n)) /\ match'[n].pair = match[n].pair
  <2>1. match \in [Match -> MatchRow] /\ Made(m) /\ s # "NONE"
    BY <1>2, UserAssumption DEF CommitAnswer, FitInv, PairsFit, TypeOK
  <2>2. match'[m].status = s /\ match'[m].pair = match[m].pair
    BY <1>2, <2>1 DEF CommitAnswer, MatchRow
  <2>3. \A n \in Match : n # m => match'[n] = match[n]
    BY <1>2, <2>1 DEF CommitAnswer
  <2> QED BY <2>1, <2>2, <2>3 DEF Made
<1> QED BY <1>1, <1>2 DEF TenantStep, CreateOffer, BeginCancel, CommitCancel,
           CreateRequest, Lapse, BeginAnswer

LEMMA TenantClaims ==
  ASSUME ClaimsInv, TenantStep PROVE ClaimsInv'
<1>1. FitInv' /\ FitInv
  BY FitNext DEF ClaimsInv, Next
<1>2. UNCHANGED engine
  BY DEF TenantStep, CreateOffer, BeginCancel, CommitCancel, CreateRequest, Lapse,
         BeginAnswer, CommitAnswer
<1>3. \A m \in Match : (Made(m)' <=> Made(m)) /\ match'[m].pair = match[m].pair
  BY <1>1, TenantMatches
<1>4. /\ offer \in [Offer -> {"NONE", "OPEN", "MATCHED", "CANCELLED", "EXPIRED"}]
      /\ request \in [Request -> {"NONE", "OPEN", "MATCHED", "EXPIRED"}]
  BY <1>1 DEF FitInv, TypeOK
<1>5. /\ \A o \in Offer : offer'[o] \in {"NONE", "OPEN"} => offer[o] \in {"NONE", "OPEN"}
      /\ \A r \in Request : request'[r] \in {"NONE", "OPEN"} => request[r] \in {"NONE", "OPEN"}
  BY <1>4 DEF TenantStep, CreateOffer, BeginCancel, CommitCancel, CreateRequest, Lapse,
         BeginAnswer, CommitAnswer, users
<1>6. /\ \A x : Claims(x)' = Claims(x)
      /\ \A e \in Engine : At(e, "book")' => engine'[e].pair[2] \notin engine'[e].todo
  BY <1>2 DEF ClaimsInv, OnSaleUnsold, Claims, At
<1> QED BY <1>1, <1>3, <1>5, <1>6, ClaimsKept

\* Steps of engine e to the state run that touch no row.
LEMMA EngineClaims ==
  ASSUME ClaimsInv, FitInv', NEW e \in Engine, NEW run \in Run, Become(e, run),
         UNCHANGED match,
         \A o \in Offer : offer'[o] \in {"NONE", "OPEN"} => offer[o] \in {"NONE", "OPEN"},
         \A r \in Request : request'[r] \in {"NONE", "OPEN"} => request[r] \in {"NONE", "OPEN"},
         run.pc = "book" => run.pair[2] \notin run.todo,
         \A x \in Offer \cup Request :
           \/ Sales(x) = {} \/ e \in Claims(x)
           \/ x \notin run.todo /\ ~(run.pc = "book" /\ (run.pair[1] = x \/ run.pair[2] = x))
  PROVE ClaimsInv'
<1>1. /\ engine'[e] = run
      /\ \A f \in Engine : f # e => engine'[f] = engine[f]
  BY Moved DEF ClaimsInv, FitInv
<1>2. \A m \in Match : (Made(m)' <=> Made(m)) /\ match'[m].pair = match[m].pair
  BY DEF Made
<1>3. \A f \in Engine : At(f, "book")' => engine'[f].pair[2] \notin engine'[f].todo
  BY <1>1 DEF ClaimsInv, OnSaleUnsold, At
<1>4. ASSUME NEW x \in Offer \cup Request, Sales(x) # {}
      PROVE Claims(x)' \subseteq Claims(x)
  BY <1>1, <1>4 DEF Claims, At
<1> QED BY <1>2, <1>3, <1>4, ClaimsKept

LEMMA EngineStepClaims ==
  ASSUME ClaimsInv, NEW e \in Engine, EngineStep(e) \/ Crash(e) PROVE ClaimsInv'
<1>1. /\ engine[e] \in Run /\ Sleep \in Run /\ Sleep.todo = {} /\ Sleep.pc = "sleep"
      /\ FitInv /\ FitInv' /\ OnSaleUnsold
      /\ engine \in [Engine -> Run] /\ match \in [Match -> MatchRow]
  BY FitNext DEF ClaimsInv, FitInv, TypeOK, Sleep, Run, PairType, Next
<1>2. /\ offer \in [Offer -> {"NONE", "OPEN", "MATCHED", "CANCELLED", "EXPIRED"}]
      /\ request \in [Request -> {"NONE", "OPEN", "MATCHED", "EXPIRED"}]
  BY <1>1 DEF FitInv, TypeOK
<1>3. CASE ArchiveOffers(e)
  <2> DEFINE run == [Sleep EXCEPT !.pc = "overdue",
                                  !.stale = OverdueOffers \cup (Request \cap lapsed)]
  <2>1. run \in Run /\ run.pc = "overdue" /\ run.todo = {}
    BY <1>1 DEF Sleep, Run, OverdueOffers
  <2>2. Become(e, run) /\ UNCHANGED <<offer, request, match>>
    BY <1>3 DEF ArchiveOffers
  <2> HIDE DEF run
  <2> QED BY <1>1, <2>1, <2>2, EngineClaims
<1>4. CASE ArchiveRequests(e)
  <2> DEFINE due == {r \in Request \cap engine[e].stale : request[r] = "OPEN"}
             run == [engine[e] EXCEPT !.pc = IF due = {} THEN "load" ELSE "expire",
                                      !.stale = (Offer \cap @) \cup due]
  <2>1. run \in Run /\ run.pc # "book" /\ run.todo = engine[e].todo
    BY <1>1 DEF Run
  <2>2. Become(e, run) /\ UNCHANGED <<offer, request, match>>
    BY <1>4 DEF ArchiveRequests
  <2> HIDE DEF run
  <2>3. \A x : x \in run.todo => e \in Claims(x)
    BY <2>1 DEF Claims
  <2> QED BY <1>1, <2>1, <2>2, <2>3, EngineClaims
<1>5. CASE CommitExpired(e)
  <2> DEFINE run == [engine[e] EXCEPT !.pc = "load", !.stale = {}]
  <2>1. run \in Run /\ run.pc = "load" /\ run.todo = engine[e].todo
    BY <1>1 DEF Run
  <2>2. Become(e, run) /\ UNCHANGED match
    BY <1>5 DEF CommitExpired
  <2> HIDE DEF run
  <2>3. /\ \A o \in Offer : offer'[o] \in {"NONE", "OPEN"} => offer[o] \in {"NONE", "OPEN"}
        /\ \A r \in Request : request'[r] \in {"NONE", "OPEN"} => request[r] \in {"NONE", "OPEN"}
    BY <1>5 DEF CommitExpired, Expired
  <2>4. \A x : x \in run.todo => e \in Claims(x)
    BY <2>1 DEF Claims
  <2> QED BY <1>1, <2>1, <2>2, <2>3, <2>4, EngineClaims
<1>6. CASE LoadRequests(e)
  <2> DEFINE run == [engine[e] EXCEPT !.pc = "seek",
                       !.todo = {r \in Request \ lapsed : request[r] = "OPEN"}]
  <2>1. run \in Run /\ run.pc = "seek"
        /\ run.todo = {r \in Request \ lapsed : request[r] = "OPEN"}
    BY <1>1 DEF Run
  <2>2. Become(e, run) /\ UNCHANGED <<offer, request, match>>
    BY <1>6 DEF LoadRequests
  <2> HIDE DEF run
  <2>3. \A x : x \in run.todo => Sales(x) = {}
    BY <1>1, <2>1 DEF OnSaleUnsold
  <2> QED BY <1>1, <2>1, <2>2, <2>3, EngineClaims
<1>7. CASE SeekOffer(e)
  <2>1. UNCHANGED <<offer, request, match>>
    BY <1>7 DEF SeekOffer
  <2>2. ASSUME NEW r \in Foremost(e), Become(e, [engine[e] EXCEPT !.todo = @ \ {r}])
        PROVE ClaimsInv'
    <3> DEFINE run == [engine[e] EXCEPT !.todo = @ \ {r}]
    <3>1. run \in Run /\ run.pc = "seek" /\ run.todo \subseteq engine[e].todo
      BY <1>1, <1>7 DEF Run, SeekOffer, At
    <3>2. Become(e, run)
      BY <2>2
    <3> HIDE DEF run
    <3>3. \A x : x \in run.todo => e \in Claims(x)
      BY <3>1 DEF Claims
    <3> QED BY <1>1, <2>1, <3>1, <3>2, <3>3, EngineClaims
  <2>3. ASSUME NEW r \in Foremost(e), NEW o \in Matching(r),
               Become(e, [engine[e] EXCEPT !.pc = "book", !.todo = @ \ {r},
                                           !.pair = <<o, r>>])
        PROVE ClaimsInv'
    <3> DEFINE run == [engine[e] EXCEPT !.pc = "book", !.todo = @ \ {r},
                                        !.pair = <<o, r>>]
    <3>1. /\ r \in engine[e].todo /\ r \in Request /\ o \in Offer /\ offer[o] = "OPEN"
      BY <1>1 DEF Foremost, Matching, Run
    <3>2. <<o, r>> \in PairType
      BY <3>1 DEF PairType
    <3>3. /\ run \in Run /\ run.pc = "book" /\ run.todo = engine[e].todo \ {r}
          /\ run.pair = <<o, r>>
      BY <1>1, <3>2 DEF Run
    <3>4. Become(e, run)
      BY <2>3
    <3> HIDE DEF run
    <3>5. /\ \A x : x \in run.todo => e \in Claims(x)
          /\ e \in Claims(r) /\ Sales(o) = {}
      BY <1>1, <3>1, <3>3 DEF Claims, OnSaleUnsold
    <3>6. run.pair[1] = o /\ run.pair[2] = r /\ run.pair[2] \notin run.todo
      BY <3>3
    <3> QED BY <1>1, <2>1, <3>3, <3>4, <3>5, <3>6, EngineClaims
  <2> QED BY <1>7, <2>2, <2>3 DEF SeekOffer
<1>8. CASE FinishRun(e) \/ Crash(e)
  <2>1. Become(e, Sleep) /\ UNCHANGED <<offer, request, match>>
    BY <1>8 DEF FinishRun, Crash
  <2> QED BY <1>1, <2>1, EngineClaims
<1>9. CASE CommitMatch(e)
  <2> DEFINE o == engine[e].pair[1]
             q == engine[e].pair[2]
             run == [engine[e] EXCEPT !.pc = "seek", !.stale = {}, !.pair = <<>>]
             row == [status |-> "PENDING_ACCEPTANCE", pair |-> engine[e].pair,
                     settled |-> FALSE]
  <2>1. /\ At(e, "book") /\ o \in Offer /\ q \in Request /\ q \notin engine[e].todo
    BY <1>1, <1>9 DEF CommitMatch, FitInv, PairsFit, OnSaleUnsold
  <2>2. run \in Run /\ run.pc = "seek" /\ run.todo = engine[e].todo
    BY <1>1 DEF Run, PairType
  <2>3. /\ engine'[e] = run
        /\ \A f \in Engine : f # e => engine'[f] = engine[f]
    BY <1>1, <1>9, <2>2, Moved DEF CommitMatch, FitInv
  <2>4. PICK m \in Match : match[m] = NoMatch /\ match' = [match EXCEPT ![m] = row]
    BY <1>9 DEF CommitMatch
  <2>5. ~Made(m) /\ match'[m] = row /\ \A n \in Match : n # m => match'[n] = match[n]
    BY <1>1, <2>4 DEF Made, NoMatch
  <2>6. Made(m)' /\ match'[m].pair = engine[e].pair
    BY <2>5 DEF Made
  <2>7. \A n \in Match : n # m => ((Made(n)' <=> Made(n)) /\ match'[n].pair = match[n].pair)
    BY <2>5 DEF Made
  <2> HIDE DEF run
  <2>8. ASSUME NEW x \in Offer \cup Request, x # o, x # q
        PROVE Sales(x)' = Sales(x) /\ Claims(x)' \subseteq Claims(x)
    <3>1. Sales(x)' = Sales(x)
      BY <2>5, <2>6, <2>7, <2>8 DEF Sales
    <3>2. Claims(x)' \subseteq Claims(x)
      BY <2>2, <2>3 DEF Claims, At
    <3> QED BY <3>1, <3>2
  <2>9. ASSUME NEW x \in {o, q}
        PROVE /\ Sales(x)' = Sales(x) \cup {m} /\ m \notin Sales(x)
              /\ e \in Claims(x) /\ Claims(x)' \subseteq Claims(x) \ {e}
    <3>1. Sales(x)' = Sales(x) \cup {m} /\ m \notin Sales(x)
      BY <2>5, <2>6, <2>7 DEF Sales
    <3>2. x \notin engine[e].todo
      BY <1>1, <2>1, RowAssumption DEF Run
    <3>3. e \in Claims(x)
      BY <2>1 DEF Claims
    <3>4. e \notin Claims(x)' /\ Claims(x)' \subseteq Claims(x)
      BY <2>2, <2>3, <3>2 DEF Claims, At
    <3> QED BY <3>1, <3>3, <3>4
  <2>10. ASSUME NEW x \in Offer \cup Request PROVE Within(x)'
    <3>1. CASE x = o \/ x = q
      BY <2>9, <3>1, SaleWithin DEF ClaimsInv
    <3>2. CASE x # o /\ x # q
      BY <2>8, <3>2, QuietWithin DEF ClaimsInv
    <3> QED BY <3>1, <3>2
  <2>11. /\ offer' = [Expired(e, Offer, offer) EXCEPT ![o] = "MATCHED"]
         /\ request' = [request EXCEPT ![q] = "MATCHED"]
    BY <1>9 DEF CommitMatch
  <2>12. ASSUME NEW p \in Offer, offer'[p] \in {"NONE", "OPEN"} PROVE Sales(p)' = {}
    <3>1. p # o /\ offer[p] \in {"NONE", "OPEN"}
      BY <2>1, <2>11, <2>12 DEF Expired
    <3>2. p # q
      BY <2>1, RowAssumption
    <3> QED BY <1>1, <2>8, <3>1, <3>2 DEF OnSaleUnsold
  <2>13. ASSUME NEW r \in Request, request'[r] \in {"NONE", "OPEN"} PROVE Sales(r)' = {}
    <3>1. r # q /\ request[r] \in {"NONE", "OPEN"}
      BY <1>2, <2>1, <2>11, <2>13
    <3>2. r # o
      BY <2>1, RowAssumption
    <3> QED BY <1>1, <2>8, <3>1, <3>2 DEF OnSaleUnsold
  <2>14. \A f \in Engine : At(f, "book")' => engine'[f].pair[2] \notin engine'[f].todo
    BY <1>1, <2>2, <2>3 DEF OnSaleUnsold, At
  <2> QED BY <1>1, <2>10, <2>12, <2>13, <2>14 DEF ClaimsInv, OnSaleUnsold
<1> QED BY <1>3, <1>4, <1>5, <1>6, <1>7, <1>8, <1>9 DEF EngineStep

LEMMA ClaimsInit == Init => ClaimsInv
<1> SUFFICES ASSUME Init PROVE ClaimsInv
  OBVIOUS
<1>1. \A x : Sales(x) = {}
  BY DEF Init, Sales, Made, NoMatch
<1>2. OnSaleUnsold
  BY <1>1 DEF Init, OnSaleUnsold, At, Sleep
<1> QED BY <1>1, <1>2, FitInit, UnsoldWithin DEF ClaimsInv

LEMMA ClaimsNext == ClaimsInv /\ [Next]_vars => ClaimsInv'
<1> SUFFICES ASSUME ClaimsInv, [Next]_vars PROVE ClaimsInv'
  OBVIOUS
<1>1. CASE UNCHANGED vars
  <2>1. FitInv'
    BY FitNext DEF ClaimsInv
  <2>2. \A m \in Match : (Made(m)' <=> Made(m)) /\ match'[m].pair = match[m].pair
    BY <1>1 DEF vars, Made
  <2>3. \A x : Claims(x)' = Claims(x)
    BY <1>1 DEF vars, Claims, At
  <2> QED BY <1>1, <2>1, <2>2, <2>3, ClaimsKept DEF vars, ClaimsInv, OnSaleUnsold, At
<1>2. CASE Next
  BY <1>2, TenantClaims, EngineStepClaims DEF Next
<1> QED BY <1>1, <1>2

\* However many copies of the engine run, each sells an offer or a request once at
\* most: what overlapping runs (scheduler and match-now) cost is one sale a copy.
THEOREM MarketSalesBounded == Spec => []SalesBounded
<1>1. ClaimsInv => SalesBounded
  <2> SUFFICES ASSUME ClaimsInv, NEW x \in Offer \cup Request
               PROVE Cardinality(Sales(x)) <= Cardinality(Engine)
    BY DEF SalesBounded
  <2>1. Cardinality(Claims(x)) \in Nat /\ Cardinality(Engine) \in Nat
    BY ClaimSets
  <2>2. Within(x) /\ Cardinality(Sales(x)) \in Nat
    BY FS_CardinalityType DEF ClaimsInv, Within
  <2> QED BY <2>1, <2>2 DEF Within
<1> QED BY <1>1, ClaimsInit, ClaimsNext, PTL DEF Spec

-----------------------------------------------------------------------------
(* One copy of the engine *)

OneEngine == \A e, f \in Engine : e = f

\* The offer or request x takes part in a match.
Sold(x) == \E m \in Match :
             Made(m) /\ (match[m].pair[1] = x \/ match[m].pair[2] = x)

\* Rows on sale are unsold, and so is all that the engine has in hand: rows it
\* is about to expire, requests it has not looked at, the pair it will book.
InHand(e) ==
  /\ \A x \in engine[e].stale : (x \in Offer \/ ~At(e, "overdue")) => ~Sold(x)
  /\ \A r \in engine[e].todo : ~Sold(r) /\ request[r] # "NONE"
  /\ At(e, "book") =>
       LET o == engine[e].pair[1]
           r == engine[e].pair[2]
       IN /\ ~Sold(o) /\ ~Sold(r)
          /\ offer[o] # "NONE" /\ request[r] # "NONE"
          /\ r \notin engine[e].todo

SoldInv ==
  /\ \A o \in Offer : offer[o] \in {"NONE", "OPEN"} => ~Sold(o)
  /\ \A r \in Request : request[r] \in {"NONE", "OPEN"} => ~Sold(r)
  /\ \A e \in Engine : InHand(e)
  /\ SoldOnce
  /\ SoldNotReopened

SoldStatuses ==
  /\ \A o \in Offer : Sold(o) => offer[o] \in {"MATCHED", "CANCELLED"}
  /\ \A r \in Request : Sold(r) => request[r] = "MATCHED"

\* The pair of a match is an offer and a request, and these are different rows.
LEMMA SoldPairs ==
  ASSUME FitInv, NEW m \in Match, Made(m)
  PROVE /\ match[m].pair[1] \in Offer /\ match[m].pair[2] \in Request
        /\ Sold(match[m].pair[1]) /\ Sold(match[m].pair[2])
  BY DEF FitInv, PairsFit, Sold

LEMMA SoldByStatus ==
  ASSUME FitInv PROVE SoldNotReopened <=> SoldStatuses
<1>1. ASSUME SoldNotReopened PROVE SoldStatuses
  <2>1. ASSUME NEW x, NEW m \in Match, Made(m),
               match[m].pair[1] = x \/ match[m].pair[2] = x
        PROVE /\ x \in Offer => offer[x] \in {"MATCHED", "CANCELLED"}
              /\ x \in Request => request[x] = "MATCHED"
    <3>1. match[m].pair \in Deals
      BY <2>1 DEF Deals
    <3>2. match[m].pair[1] \in Offer /\ match[m].pair[2] \in Request
      BY <2>1, SoldPairs
    <3> QED BY <1>1, <2>1, <3>1, <3>2, RowAssumption DEF SoldNotReopened
  <2> QED BY <2>1 DEF SoldStatuses, Sold
<1>2. ASSUME SoldStatuses PROVE SoldNotReopened
  BY <1>2, SoldPairs DEF SoldStatuses, SoldNotReopened, Deals
<1> QED BY <1>1, <1>2

\* Steps that make no match and leave the rows in matches alone.
LEMMA SoldKept ==
  ASSUME FitInv, FitInv', SoldInv,
         \A m \in Match : Made(m)' <=> Made(m),
         \A m \in Match : match'[m].pair = match[m].pair,
         \A o \in Offer : offer'[o] \in {"NONE", "OPEN"} => ~Sold(o),
         \A r \in Request : request'[r] \in {"NONE", "OPEN"} => ~Sold(r),
         \A o \in Offer : offer'[o] = offer[o] \/ ~Sold(o) \/ offer'[o] = "CANCELLED",
         \A r \in Request : request'[r] = request[r] \/ ~Sold(r),
         \A e \in Engine : InHand(e)'
  PROVE SoldInv'
<1>1. \A x : Sold(x)' <=> Sold(x)
  BY DEF Sold
<1>2. SoldOnce'
  BY DEF SoldInv, SoldOnce
<1>3. SoldStatuses
  BY SoldByStatus DEF SoldInv
<1>4. SoldStatuses'
  BY <1>1, <1>3 DEF SoldStatuses
<1>5. SoldNotReopened'
  <2>1. (SoldNotReopened <=> SoldStatuses)'
    BY SoldByStatus, PTL
  <2> QED BY <1>4, <2>1
<1> QED BY <1>1, <1>2, <1>5 DEF SoldInv

LEMMA SoldTenants ==
  ASSUME FitInv, FitInv', SoldInv, TenantStep PROVE SoldInv'
<1>1. UNCHANGED engine
  BY DEF TenantStep, CreateOffer, BeginCancel, CommitCancel, CreateRequest, Lapse,
         BeginAnswer, CommitAnswer
<1>2. \A m \in Match : (Made(m)' <=> Made(m)) /\ match'[m].pair = match[m].pair
  BY TenantMatches
<1>3. /\ offer \in [Offer -> {"NONE", "OPEN", "MATCHED", "CANCELLED", "EXPIRED"}]
      /\ request \in [Request -> {"NONE", "OPEN", "MATCHED", "EXPIRED"}]
  BY DEF FitInv, TypeOK
<1>4. ASSUME NEW o \in Offer
      PROVE \/ offer'[o] = offer[o]
            \/ offer[o] = "NONE" /\ offer'[o] = "OPEN"
            \/ offer'[o] = "CANCELLED"
  BY <1>3 DEF TenantStep, CreateOffer, BeginCancel, CommitCancel, CreateRequest, Lapse,
         BeginAnswer, CommitAnswer, users
<1>5. ASSUME NEW r \in Request
      PROVE \/ request'[r] = request[r]
            \/ request[r] = "NONE" /\ request'[r] = "OPEN"
  BY <1>3 DEF TenantStep, CreateOffer, BeginCancel, CommitCancel, CreateRequest, Lapse,
         BeginAnswer, CommitAnswer, users
<1>6. \A x : Sold(x)' <=> Sold(x)
  BY <1>2 DEF Sold
<1>7. ASSUME NEW e \in Engine PROVE InHand(e)'
  <2>1. InHand(e) /\ engine[e] \in Run
    BY DEF SoldInv, FitInv, TypeOK
  <2>2. CASE At(e, "book")
    <3>1. engine[e].pair[1] \in Offer /\ engine[e].pair[2] \in Request
      BY <2>2 DEF FitInv, PairsFit
    <3> QED BY <1>1, <1>4, <1>5, <1>6, <2>1, <3>1 DEF InHand, Run, At
  <2>3. CASE ~At(e, "book")
    BY <1>1, <1>5, <1>6, <2>1, <2>3 DEF InHand, Run, At
  <2> QED BY <2>2, <2>3
<1>8. /\ \A o \in Offer : offer'[o] \in {"NONE", "OPEN"} => ~Sold(o)
      /\ \A r \in Request : request'[r] \in {"NONE", "OPEN"} => ~Sold(r)
      /\ \A o \in Offer : offer'[o] = offer[o] \/ ~Sold(o) \/ offer'[o] = "CANCELLED"
      /\ \A r \in Request : request'[r] = request[r] \/ ~Sold(r)
  BY <1>4, <1>5 DEF SoldInv
<1> QED BY <1>2, <1>7, <1>8, SoldKept

\* Steps of the only engine that make no match.
LEMMA SoldMoved ==
  ASSUME FitInv, FitInv', SoldInv, OneEngine, NEW e \in Engine, UNCHANGED match,
         \A o \in Offer : offer'[o] = offer[o] \/ (~Sold(o) /\ offer'[o] = "EXPIRED"),
         \A r \in Request : request'[r] = request[r] \/ (~Sold(r) /\ request'[r] = "EXPIRED"),
         NEW run \in Run, engine'[e] = run,
         \A x \in run.stale : (x \in Offer \/ run.pc # "overdue") => ~Sold(x),
         \A r \in run.todo : ~Sold(r) /\ request[r] # "NONE",
         run.pc = "book" =>
            /\ ~Sold(run.pair[1]) /\ ~Sold(run.pair[2])
            /\ offer[run.pair[1]] # "NONE" /\ request[run.pair[2]] # "NONE"
            /\ run.pair[2] \notin run.todo
  PROVE SoldInv'
<1>1. \A x : Sold(x)' <=> Sold(x)
  BY DEF Sold, Made
<1>2. \A f \in Engine : f = e
  BY DEF OneEngine
<1>3. run.todo \subseteq Request
  BY DEF Run
<1>4. run.pc = "book" => run.pair[1] \in Offer /\ run.pair[2] \in Request
  BY DEF FitInv, PairsFit, At
<1>5. InHand(e)'
  <2>1. \A x \in run.stale : (x \in Offer \/ run.pc # "overdue") => ~Sold(x)'
    BY <1>1
  <2>2. \A r \in run.todo : ~Sold(r)' /\ request'[r] # "NONE"
    BY <1>1, <1>3
  <2>3. ASSUME run.pc = "book"
        PROVE /\ ~Sold(run.pair[1])' /\ ~Sold(run.pair[2])'
              /\ offer'[run.pair[1]] # "NONE" /\ request'[run.pair[2]] # "NONE"
              /\ run.pair[2] \notin run.todo
    BY <1>1, <1>4, <2>3
  <2> QED BY <2>1, <2>2, <2>3 DEF InHand, At
<1>6. \A f \in Engine : InHand(f)'
  BY <1>2, <1>5
<1>7. \A m \in Match : (Made(m)' <=> Made(m)) /\ match'[m].pair = match[m].pair
  BY DEF Made
<1>8. /\ \A o \in Offer : offer'[o] \in {"NONE", "OPEN"} => ~Sold(o)
      /\ \A r \in Request : request'[r] \in {"NONE", "OPEN"} => ~Sold(r)
      /\ \A o \in Offer : offer'[o] = offer[o] \/ ~Sold(o) \/ offer'[o] = "CANCELLED"
      /\ \A r \in Request : request'[r] = request[r] \/ ~Sold(r)
  BY DEF SoldInv
<1> QED BY <1>6, <1>7, <1>8, SoldKept

LEMMA SoldEngine ==
  ASSUME FitInv, FitInv', SoldInv, OneEngine, NEW e \in Engine,
         EngineStep(e) \/ Crash(e)
  PROVE SoldInv'
<1>1. engine[e] \in Run /\ Sleep \in Run /\ InHand(e) /\ Sleep.stale = {}
      /\ Sleep.todo = {} /\ Sleep.pc = "sleep"
  BY DEF FitInv, TypeOK, Sleep, Run, PairType, SoldInv
<1>2. CASE ArchiveOffers(e)
  <2> DEFINE run == [Sleep EXCEPT !.pc = "overdue",
                                  !.stale = OverdueOffers \cup (Request \cap lapsed)]
  <2>1. /\ run \in Run /\ run.pc = "overdue" /\ run.todo = {}
        /\ run.stale = OverdueOffers \cup (Request \cap lapsed)
    BY <1>1 DEF Sleep, Run, OverdueOffers
  <2>2. \A x \in run.stale : (x \in Offer \/ run.pc # "overdue") => ~Sold(x)
    BY <2>1, RowAssumption DEF OverdueOffers, SoldInv
  <2>3. engine'[e] = run /\ UNCHANGED <<offer, request, match>>
    BY <1>2 DEF ArchiveOffers, Become, FitInv, TypeOK
  <2> HIDE DEF run
  <2> QED BY <2>1, <2>2, <2>3, SoldMoved
<1>3. CASE ArchiveRequests(e)
  <2> DEFINE due == {r \in Request \cap engine[e].stale : request[r] = "OPEN"}
             run == [engine[e] EXCEPT !.pc = IF due = {} THEN "load" ELSE "expire",
                                      !.stale = (Offer \cap @) \cup due]
  <2>1. /\ run \in Run /\ run.pc # "book" /\ run.pc # "overdue"
        /\ run.stale = (Offer \cap engine[e].stale) \cup due
        /\ run.todo = engine[e].todo
    BY <1>1 DEF Run
  <2>2. \A x \in run.stale : (x \in Offer \/ run.pc # "overdue") => ~Sold(x)
    BY <1>1, <2>1 DEF InHand, SoldInv
  <2>3. engine'[e] = run /\ UNCHANGED <<offer, request, match>>
    BY <1>3 DEF ArchiveRequests, Become, FitInv, TypeOK
  <2>4. \A r \in run.todo : ~Sold(r) /\ request[r] # "NONE"
    BY <1>1, <2>1 DEF InHand
  <2> HIDE DEF run
  <2> QED BY <2>1, <2>2, <2>3, <2>4, SoldMoved
<1>4. CASE CommitExpired(e)
  <2> DEFINE run == [engine[e] EXCEPT !.pc = "load", !.stale = {}]
  <2>1. /\ run \in Run /\ run.pc = "load" /\ run.stale = {} /\ run.todo = engine[e].todo
    BY <1>1 DEF Run
  <2>2. engine'[e] = run /\ UNCHANGED match
    BY <1>4 DEF CommitExpired, Become, FitInv, TypeOK, users
  <2>3. \A x \in engine[e].stale : ~Sold(x)
    BY <1>1, <1>4 DEF CommitExpired, InHand, At
  <2>4. /\ \A o \in Offer : offer'[o] = offer[o] \/ (~Sold(o) /\ offer'[o] = "EXPIRED")
        /\ \A r \in Request : \/ request'[r] = request[r]
                              \/ ~Sold(r) /\ request'[r] = "EXPIRED"
    BY <1>4, <2>3 DEF CommitExpired, Expired
  <2>5. \A r \in run.todo : ~Sold(r) /\ request[r] # "NONE"
    BY <1>1, <2>1 DEF InHand
  <2> HIDE DEF run
  <2> QED BY <2>1, <2>2, <2>4, <2>5, SoldMoved
<1>5. CASE LoadRequests(e)
  <2> DEFINE run == [engine[e] EXCEPT !.pc = "seek",
                       !.todo = {r \in Request \ lapsed : request[r] = "OPEN"}]
  <2>1. /\ run \in Run /\ run.pc = "seek" /\ run.stale = engine[e].stale
        /\ run.todo = {r \in Request \ lapsed : request[r] = "OPEN"}
    BY <1>1 DEF Run
  <2>2. engine'[e] = run /\ UNCHANGED <<offer, request, match>>
    BY <1>5 DEF LoadRequests, Become, FitInv, TypeOK
  <2>3. \A x \in run.stale : (x \in Offer \/ run.pc # "overdue") => ~Sold(x)
    BY <1>1, <1>5, <2>1 DEF InHand, LoadRequests, At
  <2>4. \A r \in run.todo : ~Sold(r) /\ request[r] # "NONE"
    BY <2>1 DEF SoldInv
  <2> HIDE DEF run
  <2> QED BY <2>1, <2>2, <2>3, <2>4, SoldMoved
<1>6. CASE SeekOffer(e)
  <2>1. UNCHANGED <<offer, request, match>> /\ engine[e].pc = "seek"
    BY <1>6 DEF SeekOffer, At
  <2>2. \A x \in engine[e].stale : ~Sold(x)
    BY <1>1, <2>1 DEF InHand, At
  <2>3. \A r \in engine[e].todo : ~Sold(r) /\ request[r] # "NONE"
    BY <1>1 DEF InHand
  <2>4. Foremost(e) \subseteq engine[e].todo /\ engine[e].todo \subseteq Request
    BY <1>1 DEF Foremost, Run
  <2>5. ASSUME NEW x \in Foremost(e), Become(e, [engine[e] EXCEPT !.todo = @ \ {x}])
        PROVE SoldInv'
    <3> DEFINE run == [engine[e] EXCEPT !.todo = @ \ {x}]
    <3>1. /\ run \in Run /\ run.pc = "seek" /\ run.stale = engine[e].stale
          /\ run.todo = engine[e].todo \ {x}
      BY <1>1, <2>1 DEF Run
    <3>2. engine'[e] = run
      BY <2>5 DEF Become, FitInv, TypeOK
    <3> HIDE DEF run
    <3> QED BY <2>1, <2>2, <2>3, <3>1, <3>2, SoldMoved
  <2>6. ASSUME NEW x \in Foremost(e), NEW o \in Matching(x),
               Become(e, [engine[e] EXCEPT !.pc = "book", !.todo = @ \ {x},
                                           !.pair = <<o, x>>])
        PROVE SoldInv'
    <3> DEFINE run == [engine[e] EXCEPT !.pc = "book", !.todo = @ \ {x},
                                        !.pair = <<o, x>>]
    <3>1. x \in Request /\ o \in Offer /\ offer[o] = "OPEN" /\ ~Sold(x)
          /\ request[x] # "NONE"
      BY <2>3, <2>4 DEF Matching
    <3>2. <<o, x>> \in PairType /\ <<o, x>>[1] = o /\ <<o, x>>[2] = x
      BY <3>1 DEF PairType
    <3>3. /\ run \in Run /\ run.pc = "book" /\ run.stale = engine[e].stale
          /\ run.todo = engine[e].todo \ {x} /\ run.pair = <<o, x>>
      BY <1>1, <3>2 DEF Run
    <3>4. engine'[e] = run
      BY <2>6 DEF Become, FitInv, TypeOK
    <3>5. ~Sold(o)
      BY <3>1 DEF SoldInv
    <3> HIDE DEF run
    <3>6. /\ \A y \in run.stale : ~Sold(y)
          /\ \A r \in run.todo : ~Sold(r) /\ request[r] # "NONE"
      BY <2>2, <2>3, <3>3
    <3>7. /\ ~Sold(run.pair[1]) /\ ~Sold(run.pair[2])
          /\ offer[run.pair[1]] # "NONE" /\ request[run.pair[2]] # "NONE"
          /\ run.pair[2] \notin run.todo
      BY <3>1, <3>2, <3>3, <3>5
    <3> QED BY <2>1, <3>3, <3>4, <3>6, <3>7, SoldMoved
  <2> QED BY <1>6, <2>5, <2>6 DEF SeekOffer
<1>7. CASE CommitMatch(e)
  <2> DEFINE o == engine[e].pair[1]
             q == engine[e].pair[2]
             row == [status |-> "PENDING_ACCEPTANCE", pair |-> engine[e].pair,
                     settled |-> FALSE]
  <2>1. engine[e].pc = "book" /\ engine[e].pair \in Offer \X Request
        /\ o \in Offer /\ q \in Request
    BY <1>7 DEF CommitMatch, FitInv, PairsFit, At
  <2>2. /\ ~Sold(o) /\ ~Sold(q) /\ q \notin engine[e].todo
        /\ \A x \in engine[e].stale : ~Sold(x)
        /\ \A r \in engine[e].todo : ~Sold(r) /\ request[r] # "NONE"
    BY <1>1, <2>1 DEF InHand, At
  <2>3. PICK m \in Match : match[m] = NoMatch /\ match' = [match EXCEPT ![m] = row]
    BY <1>7 DEF CommitMatch
  <2>4. ~Made(m) /\ match'[m] = row /\ \A n \in Match : n # m => match'[n] = match[n]
    BY <2>3 DEF Made, NoMatch, FitInv, TypeOK
  <2>5. Made(m)' /\ match'[m].pair = engine[e].pair
    BY <2>4 DEF Made
  <2>6. \A n \in Match : n # m => ((Made(n)' <=> Made(n)) /\ match'[n].pair = match[n].pair)
    BY <2>4 DEF Made
  <2>7. ASSUME NEW x PROVE Sold(x)' <=> (Sold(x) \/ x = o \/ x = q)
    BY <2>4, <2>5, <2>6 DEF Sold
  <2>8. SoldOnce'
    <3>1. ASSUME NEW n \in Match, n # m, Made(n)'
          PROVE match'[n].pair[1] # o /\ match'[n].pair[2] # q
      BY <2>2, <2>6, <3>1 DEF Sold
    <3>2. ASSUME NEW n \in Match, NEW k \in Match, Made(n)', Made(k)', n # k
          PROVE /\ match'[n].pair[1] # match'[k].pair[1]
                /\ match'[n].pair[2] # match'[k].pair[2]
      <4>1. CASE n = m
        BY <2>5, <3>1, <3>2, <4>1
      <4>2. CASE k = m
        BY <2>5, <3>1, <3>2, <4>2
      <4>3. CASE n # m /\ k # m
        BY <2>6, <3>2, <4>3 DEF SoldInv, SoldOnce
      <4> QED BY <4>1, <4>2, <4>3
    <3> QED BY <3>2 DEF SoldOnce
  <2>9. /\ offer'[o] = "MATCHED" /\ request'[q] = "MATCHED"
        /\ \A p \in Offer : p # o => \/ offer'[p] = offer[p]
                                     \/ ~Sold(p) /\ offer'[p] = "EXPIRED"
        /\ \A r \in Request : r # q => request'[r] = request[r]
    <3>1. /\ offer' = [Expired(e, Offer, offer) EXCEPT ![o] = "MATCHED"]
          /\ request' = [request EXCEPT ![q] = "MATCHED"]
      BY <1>7 DEF CommitMatch
    <3> QED BY <2>1, <2>2, <3>1 DEF Expired, FitInv, TypeOK
  <2>10. o \notin Request /\ q \notin Offer
    BY <2>1, RowAssumption
  <2>11. SoldStatuses
    BY SoldByStatus DEF SoldInv
  <2>12. SoldStatuses'
    <3>1. ASSUME NEW p \in Offer, Sold(p)' PROVE offer'[p] \in {"MATCHED", "CANCELLED"}
      <4>1. CASE p = o
        BY <2>9, <4>1
      <4>2. CASE p # o
        BY <2>7, <2>9, <2>10, <2>11, <3>1, <4>2 DEF SoldStatuses
      <4> QED BY <4>1, <4>2
    <3>2. ASSUME NEW r \in Request, Sold(r)' PROVE request'[r] = "MATCHED"
      <4>1. CASE r = q
        BY <2>9, <4>1
      <4>2. CASE r # q
        BY <2>7, <2>9, <2>10, <2>11, <3>2, <4>2 DEF SoldStatuses
      <4> QED BY <4>1, <4>2
    <3> QED BY <3>1, <3>2 DEF SoldStatuses
  <2>13. SoldNotReopened'
    <3>1. (SoldNotReopened <=> SoldStatuses)'
      BY SoldByStatus, PTL
    <3> QED BY <2>12, <3>1
  <2>14. /\ \A p \in Offer : offer'[p] \in {"NONE", "OPEN"} => ~Sold(p)'
         /\ \A r \in Request : request'[r] \in {"NONE", "OPEN"} => ~Sold(r)'
    BY <2>12 DEF SoldStatuses
  <2>15. engine'[e] = [engine[e] EXCEPT !.pc = "seek", !.stale = {}, !.pair = <<>>]
    BY <1>7 DEF CommitMatch, Become, FitInv, TypeOK
  <2>16. engine'[e].pc = "seek" /\ engine'[e].stale = {} /\ engine'[e].todo = engine[e].todo
    BY <1>1, <2>15 DEF Run
  <2>17. ASSUME NEW r \in engine[e].todo PROVE ~Sold(r)' /\ request'[r] # "NONE"
    <3>1. r \in Request /\ r # q /\ r # o
      BY <1>1, <2>2, <2>10 DEF Run
    <3> QED BY <2>2, <2>7, <2>9, <3>1
  <2>18. InHand(e)'
    BY <2>16, <2>17 DEF InHand, At
  <2>19. \A f \in Engine : InHand(f)'
    BY <2>18 DEF OneEngine
  <2> QED BY <2>8, <2>13, <2>14, <2>19 DEF SoldInv
<1>8. CASE FinishRun(e) \/ Crash(e)
  <2>1. engine'[e] = Sleep /\ UNCHANGED <<offer, request, match>>
    BY <1>8 DEF FinishRun, Crash, Become, FitInv, TypeOK
  <2> QED BY <1>1, <2>1, SoldMoved
<1> QED BY <1>2, <1>3, <1>4, <1>5, <1>6, <1>7, <1>8 DEF EngineStep

SaleInv == FitInv /\ SoldInv

LEMMA SaleInit == Init => SaleInv
<1> SUFFICES ASSUME Init PROVE SaleInv
  OBVIOUS
<1>1. \A m \in Match : ~Made(m)
  BY DEF Init, NoMatch, Made
<1>2. \A e \in Engine : InHand(e)
  BY DEF Init, Sleep, InHand, At
<1>3. SoldInv
  BY <1>1, <1>2 DEF SoldInv, Sold, SoldOnce, SoldNotReopened, Deals
<1> QED BY <1>3, FitInit DEF SaleInv

LEMMA SaleNext == OneEngine /\ SaleInv /\ [Next]_vars => SaleInv'
<1> SUFFICES ASSUME OneEngine, SaleInv, [Next]_vars PROVE SaleInv'
  OBVIOUS
<1>1. FitInv' /\ FitInv /\ SoldInv
  BY FitNext DEF SaleInv
<1>2. CASE UNCHANGED vars
  <2>1. \A m \in Match : (Made(m)' <=> Made(m)) /\ match'[m].pair = match[m].pair
    BY <1>2 DEF vars, Made
  <2>2. ASSUME NEW e \in Engine PROVE InHand(e)'
    BY <1>1, <1>2 DEF SoldInv, InHand, vars, Sold, Made, At
  <2>3. UNCHANGED <<offer, request>>
    BY <1>2 DEF vars
  <2> QED BY <1>1, <2>1, <2>2, <2>3, SoldKept DEF SaleInv, SoldInv
<1>3. CASE TenantStep
  BY <1>1, <1>3, SoldTenants DEF SaleInv
<1>4. ASSUME NEW e \in Engine, EngineStep(e) \/ Crash(e) PROVE SaleInv'
  BY <1>1, <1>4, SoldEngine DEF SaleInv
<1> QED BY <1>2, <1>3, <1>4 DEF Next

\* One copy of the engine never sells an offer or a request twice, wherever
\* cancels, expiry, crashes and answers fall between its steps.
THEOREM MarketSoldOnce == ASSUME OneEngine PROVE Spec => []SoldOnce
<1>1. SaleInv => SoldOnce
  BY DEF SaleInv, SoldInv
<1>2. SaleInv /\ [Next]_vars => SaleInv'
  BY SaleNext
<1> QED BY <1>1, <1>2, SaleInit, PTL DEF Spec

\* Nor does it put what a match holds up for sale again, or archive it.
THEOREM MarketNotReopened == ASSUME OneEngine PROVE Spec => []SoldNotReopened
<1>1. SaleInv => SoldNotReopened
  BY DEF SaleInv, SoldInv
<1>2. SaleInv /\ [Next]_vars => SaleInv'
  BY SaleNext
<1> QED BY <1>1, <1>2, SaleInit, PTL DEF Spec

-----------------------------------------------------------------------------
(* One copy of the engine implements the exchange *)

\* What is waiting for its 24 hours, a cancel or a commit is a row that exists.
PostedInv ==
  /\ lapsed \subseteq Posted
  /\ cancelling \subseteq Posted
  /\ \A e \in Engine : engine[e].stale \subseteq Posted

ExchangeInv == SaleInv /\ PostedInv

LEMMA DealsKept ==
  ASSUME \A m \in Match : (Made(m)' <=> Made(m)) /\ match'[m].pair = match[m].pair
  PROVE Deals' = Deals
  BY DEF Deals

\* Rows that exist keep existing: the posted rows change only by a post.
LEMMA PostedKept ==
  ASSUME \A o \in Offer : offer'[o] = "NONE" <=> offer[o] = "NONE",
         \A r \in Request : request'[r] = "NONE" <=> request[r] = "NONE"
  PROVE Posted' = Posted
  BY DEF Posted

LEMMA TenantTrades ==
  ASSUME ExchangeInv, TenantStep
  PROVE [X!XNext]_X!xvars /\ PostedInv'
<1>1. /\ offer \in [Offer -> {"NONE", "OPEN", "MATCHED", "CANCELLED", "EXPIRED"}]
      /\ request \in [Request -> {"NONE", "OPEN", "MATCHED", "EXPIRED"}]
      /\ FitInv
  BY DEF ExchangeInv, SaleInv, FitInv, TypeOK
<1>2. Deals' = Deals
  BY <1>1, TenantMatches, DealsKept
<1>3. UNCHANGED engine
  BY DEF TenantStep, CreateOffer, BeginCancel, CommitCancel, CreateRequest, Lapse,
         BeginAnswer, CommitAnswer
<1>4. ASSUME NEW o \in Offer, CreateOffer(o) PROVE [X!XNext]_X!xvars /\ PostedInv'
  <2>1. o \notin Posted
    BY <1>4, RowAssumption DEF CreateOffer, Posted
  <2>2. Posted' = Posted \cup {o}
    BY <1>1, <1>4 DEF CreateOffer, Posted
  <2>3. X!XNext
    BY <1>2, <2>1, <2>2 DEF X!XNext, X!Post
  <2>4. PostedInv'
    BY <1>3, <1>4, <2>2 DEF CreateOffer, users, ExchangeInv, PostedInv
  <2> QED BY <2>3, <2>4
<1>5. ASSUME NEW r \in Request, CreateRequest(r) PROVE [X!XNext]_X!xvars /\ PostedInv'
  <2>1. r \notin Posted
    BY <1>5, RowAssumption DEF CreateRequest, Posted
  <2>2. Posted' = Posted \cup {r}
    BY <1>1, <1>5 DEF CreateRequest, Posted
  <2>3. X!XNext
    BY <1>2, <2>1, <2>2 DEF X!XNext, X!Post
  <2>4. PostedInv'
    BY <1>3, <1>5, <2>2 DEF CreateRequest, users, ExchangeInv, PostedInv
  <2> QED BY <2>3, <2>4
<1>6. ASSUME NEW o \in Offer, BeginCancel(o) \/ CommitCancel(o)
      PROVE [X!XNext]_X!xvars /\ PostedInv'
  <2>1. offer[o] # "NONE"
    BY <1>6, RowAssumption
       DEF BeginCancel, CommitCancel, ExchangeInv, PostedInv, Posted
  <2>2. Posted' = Posted
    BY <1>1, <1>6, <2>1, PostedKept DEF BeginCancel, CommitCancel
  <2>3. PostedInv'
    BY <1>3, <1>6, <2>1, <2>2 DEF BeginCancel, CommitCancel, ExchangeInv, PostedInv, Posted
  <2> QED BY <1>2, <2>2, <2>3 DEF X!xvars
<1>7. ASSUME NEW x \in Offer \cup Request, Lapse(x)
      PROVE [X!XNext]_X!xvars /\ PostedInv'
  <2>1. x \in Posted
    BY <1>7 DEF Lapse, Posted
  <2>2. Posted' = Posted
    BY <1>7, PostedKept DEF Lapse
  <2>3. PostedInv'
    BY <1>3, <1>7, <2>1, <2>2 DEF Lapse, ExchangeInv, PostedInv
  <2> QED BY <1>2, <2>2, <2>3 DEF X!xvars
<1>8. ASSUME NEW m \in Match, NEW s \in Answers, BeginAnswer(m, s) \/ CommitAnswer(m, s)
      PROVE [X!XNext]_X!xvars /\ PostedInv'
  <2>1. Posted' = Posted
    BY <1>8, PostedKept DEF BeginAnswer, CommitAnswer
  <2>2. PostedInv'
    BY <1>3, <1>8, <2>1 DEF BeginAnswer, CommitAnswer, ExchangeInv, PostedInv
  <2> QED BY <1>2, <2>1, <2>2 DEF X!xvars
<1> QED BY <1>4, <1>5, <1>6, <1>7, <1>8 DEF TenantStep

\* Steps of the engine that change no row: they stutter.
LEMMA EngineWaits ==
  ASSUME ExchangeInv, NEW e \in Engine, NEW run \in Run, Become(e, run),
         UNCHANGED <<offer, request, match, users>>, run.stale \subseteq Posted
  PROVE [X!XNext]_X!xvars /\ PostedInv'
<1>1. Posted' = Posted
  BY PostedKept
<1>2. Deals' = Deals
  BY DealsKept DEF Made
<1>3. PostedInv'
  BY <1>1 DEF ExchangeInv, SaleInv, FitInv, TypeOK, PostedInv, Become, users
<1> QED BY <1>1, <1>2, <1>3 DEF X!xvars

LEMMA EngineTrades ==
  ASSUME ExchangeInv, NEW e \in Engine, EngineStep(e) \/ Crash(e)
  PROVE [X!XNext]_X!xvars /\ PostedInv'
<1>1. engine[e] \in Run /\ Sleep \in Run /\ Sleep.stale = {}
  BY DEF ExchangeInv, SaleInv, FitInv, TypeOK, Sleep, Run, PairType
<1>2. engine[e].stale \subseteq Posted /\ lapsed \subseteq Posted
  BY DEF ExchangeInv, PostedInv
<1>3. /\ offer \in [Offer -> {"NONE", "OPEN", "MATCHED", "CANCELLED", "EXPIRED"}]
      /\ request \in [Request -> {"NONE", "OPEN", "MATCHED", "EXPIRED"}]
      /\ engine \in [Engine -> Run] /\ match \in [Match -> MatchRow]
  BY DEF ExchangeInv, SaleInv, FitInv, TypeOK
<1>4. CASE ArchiveOffers(e)
  <2> DEFINE run == [Sleep EXCEPT !.pc = "overdue",
                                  !.stale = OverdueOffers \cup (Request \cap lapsed)]
  <2>1. run \in Run /\ run.stale \subseteq Posted
    BY <1>1, <1>2 DEF Sleep, Run, OverdueOffers
  <2>2. Become(e, run) /\ UNCHANGED <<offer, request, match, users>>
    BY <1>4 DEF ArchiveOffers
  <2> HIDE DEF run
  <2> QED BY <2>1, <2>2, EngineWaits
<1>5. CASE ArchiveRequests(e)
  <2> DEFINE due == {r \in Request \cap engine[e].stale : request[r] = "OPEN"}
             run == [engine[e] EXCEPT !.pc = IF due = {} THEN "load" ELSE "expire",
                                      !.stale = (Offer \cap @) \cup due]
  <2>1. run \in Run /\ run.stale \subseteq Posted
    BY <1>1, <1>2 DEF Run
  <2>2. Become(e, run) /\ UNCHANGED <<offer, request, match, users>>
    BY <1>5 DEF ArchiveRequests
  <2> HIDE DEF run
  <2> QED BY <2>1, <2>2, EngineWaits
<1>6. CASE LoadRequests(e)
  <2> DEFINE run == [engine[e] EXCEPT !.pc = "seek",
                       !.todo = {r \in Request \ lapsed : request[r] = "OPEN"}]
  <2>1. run \in Run /\ run.stale \subseteq Posted
    BY <1>1, <1>2 DEF Run
  <2>2. Become(e, run) /\ UNCHANGED <<offer, request, match, users>>
    BY <1>6 DEF LoadRequests
  <2> HIDE DEF run
  <2> QED BY <2>1, <2>2, EngineWaits
<1>7. CASE SeekOffer(e)
  <2>1. UNCHANGED <<offer, request, match, users>>
    BY <1>7 DEF SeekOffer
  <2>2. ASSUME NEW x \in Foremost(e), Become(e, [engine[e] EXCEPT !.todo = @ \ {x}])
        PROVE [X!XNext]_X!xvars /\ PostedInv'
    <3> DEFINE run == [engine[e] EXCEPT !.todo = @ \ {x}]
    <3>1. run \in Run /\ run.stale \subseteq Posted
      BY <1>1, <1>2 DEF Run
    <3>2. Become(e, run)
      BY <2>2
    <3> HIDE DEF run
    <3> QED BY <2>1, <3>1, <3>2, EngineWaits
  <2>3. ASSUME NEW x \in Foremost(e), NEW o \in Matching(x),
               Become(e, [engine[e] EXCEPT !.pc = "book", !.todo = @ \ {x},
                                           !.pair = <<o, x>>])
        PROVE [X!XNext]_X!xvars /\ PostedInv'
    <3> DEFINE run == [engine[e] EXCEPT !.pc = "book", !.todo = @ \ {x},
                                        !.pair = <<o, x>>]
    <3>1. <<o, x>> \in PairType
      BY <1>1 DEF Foremost, Matching, Run, PairType
    <3>2. run \in Run /\ run.stale \subseteq Posted
      BY <1>1, <1>2, <3>1 DEF Run
    <3>3. Become(e, run)
      BY <2>3
    <3> HIDE DEF run
    <3> QED BY <2>1, <3>2, <3>3, EngineWaits
  <2> QED BY <1>7, <2>2, <2>3 DEF SeekOffer
<1>8. CASE FinishRun(e) \/ Crash(e)
  BY <1>1, <1>8, EngineWaits DEF FinishRun, Crash
<1>9. CASE CommitExpired(e)
  <2>1. Posted' = Posted
    <3>1. \A o \in Offer : offer'[o] = "NONE" <=> offer[o] = "NONE"
      BY <1>2, <1>9, RowAssumption DEF CommitExpired, Expired, Posted
    <3>2. \A r \in Request : request'[r] = "NONE" <=> request[r] = "NONE"
      BY <1>2, <1>9, RowAssumption DEF CommitExpired, Expired, Posted
    <3> QED BY <3>1, <3>2, PostedKept
  <2>2. Deals' = Deals
    BY <1>9, DealsKept DEF CommitExpired, Made
  <2>3. PostedInv'
    <3>1. engine' = [engine EXCEPT ![e] = [engine[e] EXCEPT !.pc = "load", !.stale = {}]]
      BY <1>9 DEF CommitExpired, Become
    <3>2. \A f \in Engine : engine'[f].stale \subseteq engine[f].stale
      BY <1>1, <1>3, <3>1 DEF Run
    <3> QED BY <1>9, <2>1, <3>2 DEF CommitExpired, users, ExchangeInv, PostedInv
  <2> QED BY <2>1, <2>2, <2>3 DEF X!xvars
<1>10. CASE CommitMatch(e)
  <2> DEFINE o == engine[e].pair[1]
             q == engine[e].pair[2]
             row == [status |-> "PENDING_ACCEPTANCE", pair |-> engine[e].pair,
                     settled |-> FALSE]
  <2>1. /\ engine[e].pair \in Offer \X Request /\ o \in Offer /\ q \in Request
        /\ Suits(o, q)
    BY <1>10 DEF CommitMatch, ExchangeInv, SaleInv, FitInv, PairsFit
  <2>2. ~Sold(o) /\ ~Sold(q) /\ offer[o] # "NONE" /\ request[q] # "NONE"
    BY <1>10 DEF CommitMatch, ExchangeInv, SaleInv, SoldInv, InHand
  <2>3. X!Free(o) /\ X!Free(q)
    BY <2>2 DEF X!Free, Deals, Sold
  <2>4. {o, q} \subseteq Posted
    BY <2>1, <2>2 DEF Posted
  <2>5. Posted' = Posted
    <3>1. /\ offer' = [Expired(e, Offer, offer) EXCEPT ![o] = "MATCHED"]
          /\ request' = [request EXCEPT ![q] = "MATCHED"]
      BY <1>10 DEF CommitMatch
    <3>2. \A p \in Offer : offer'[p] = "NONE" <=> offer[p] = "NONE"
      BY <1>2, <2>1, <2>2, <3>1, RowAssumption DEF Expired, Posted
    <3>3. \A r \in Request : request'[r] = "NONE" <=> request[r] = "NONE"
      BY <1>3, <2>1, <2>2, <3>1
    <3> QED BY <3>2, <3>3, PostedKept
  <2>6. Deals' = Deals \cup {engine[e].pair}
    <3>1. PICK m \in Match : match[m] = NoMatch /\ match' = [match EXCEPT ![m] = row]
      BY <1>10 DEF CommitMatch
    <3>2. ~Made(m) /\ match'[m] = row /\ \A n \in Match : n # m => match'[n] = match[n]
      BY <1>3, <3>1 DEF Made, NoMatch
    <3>3. Made(m)' /\ match'[m].pair = engine[e].pair
      BY <3>2 DEF Made
    <3>4. \A n \in Match : n # m => ((Made(n)' <=> Made(n)) /\ match'[n].pair = match[n].pair)
      BY <3>2 DEF Made
    <3> QED BY <3>2, <3>3, <3>4 DEF Deals
  <2>7. engine[e].pair = <<o, q>>
    BY <2>1
  <2>8. X!XNext
    BY <2>1, <2>3, <2>4, <2>5, <2>6, <2>7 DEF X!XNext, X!Strike
  <2>9. PostedInv'
    <3>1. engine' = [engine EXCEPT ![e] = [engine[e] EXCEPT !.pc = "seek", !.stale = {},
                                                            !.pair = <<>>]]
      BY <1>10 DEF CommitMatch, Become
    <3>2. \A f \in Engine : engine'[f].stale \subseteq engine[f].stale
      BY <1>1, <1>3, <3>1 DEF Run
    <3> QED BY <1>10, <2>5, <3>2 DEF CommitMatch, users, ExchangeInv, PostedInv
  <2> QED BY <2>8, <2>9
<1> QED BY <1>4, <1>5, <1>6, <1>7, <1>8, <1>9, <1>10 DEF EngineStep

\* With one copy of the engine every step of the marketplace is a post, a strike
\* of a free and fitting pair, or no step of the exchange at all.
THEOREM MarketRefines == ASSUME OneEngine PROVE Spec => ImplementsExchange
<1>1. Init => X!XInit /\ PostedInv
  <2> SUFFICES ASSUME Init PROVE X!XInit /\ PostedInv
    OBVIOUS
  <2>1. Posted = {}
    BY DEF Init, Posted
  <2>2. Deals = {}
    BY DEF Init, NoMatch, Deals, Made
  <2>3. PostedInv
    BY DEF Init, Sleep, PostedInv
  <2> QED BY <2>1, <2>2, <2>3 DEF X!XInit
<1>2. Init => ExchangeInv
  BY <1>1, SaleInit DEF ExchangeInv
<1>3. ExchangeInv /\ [Next]_vars => [X!XNext]_X!xvars /\ ExchangeInv'
  <2> SUFFICES ASSUME ExchangeInv, [Next]_vars
               PROVE [X!XNext]_X!xvars /\ ExchangeInv'
    OBVIOUS
  <2>1. SaleInv'
    BY SaleNext DEF ExchangeInv
  <2>2. [X!XNext]_X!xvars /\ PostedInv'
    <3>1. CASE UNCHANGED vars
      <4>1. Posted' = Posted /\ Deals' = Deals
        BY <3>1, PostedKept, DealsKept DEF vars, Made
      <4>2. PostedInv'
        BY <3>1, <4>1 DEF vars, ExchangeInv, PostedInv
      <4> QED BY <4>1, <4>2 DEF X!xvars
    <3>2. CASE Next
      BY <3>2, TenantTrades, EngineTrades DEF Next
    <3> QED BY <3>1, <3>2
  <2> QED BY <2>1, <2>2 DEF ExchangeInv
<1> QED BY <1>1, <1>2, <1>3, PTL DEF Spec, ImplementsExchange, X!XSpec

\* Different deals have different offers and different requests.
DealsApart == \A d, e \in Deals : d # e => d[1] # e[1] /\ d[2] # e[2]

\* An implementation of the exchange strikes no two deals over one row.
THEOREM ExchangeSellsOnce == ImplementsExchange => []DealsApart
<1>1. X!XInit => DealsApart
  BY DEF X!XInit, DealsApart
<1>2. DealsApart /\ [X!XNext]_X!xvars => DealsApart'
  <2> SUFFICES ASSUME DealsApart, [X!XNext]_X!xvars PROVE DealsApart'
    OBVIOUS
  <2>1. CASE UNCHANGED X!xvars
    BY <2>1 DEF X!xvars, DealsApart
  <2>2. ASSUME NEW x \in Offer \cup Request, X!Post(x)
        PROVE DealsApart'
    BY <2>2 DEF X!Post, DealsApart
  <2>3. ASSUME NEW o \in Offer, NEW r \in Request, X!Strike(o, r)
        PROVE DealsApart'
    <3>1. Deals' = Deals \cup {<<o, r>>}
      BY <2>3 DEF X!Strike
    <3>2. \A d \in Deals : d[1] # o /\ d[2] # r
      BY <2>3 DEF X!Strike, X!Free
    <3> QED
      BY <3>1, <3>2 DEF DealsApart
  <2> QED
    BY <2>1, <2>2, <2>3 DEF X!XNext
<1> QED
  BY <1>1, <1>2, PTL DEF ImplementsExchange, X!XSpec
=============================================================================
