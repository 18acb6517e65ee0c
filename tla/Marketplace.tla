---------------------------- MODULE Marketplace ----------------------------
(***************************************************************************)
(* The capacity marketplace (app/services/marketplace_service.py): tenants *)
(* post offers of drivers and requests for delivery capacity, the match    *)
(* engine pairs them, the requesting tenant answers the match.             *)
(*                                                                         *)
(* The engine runs as an APScheduler job and, on POST match-now, on a      *)
(* thread of the API: each running copy is a member of Engine.  Its SELECT *)
(* statements and its COMMITs are separate steps; tenants' requests, which *)
(* also read before they write, come in between.                           *)
(***************************************************************************)
EXTENDS Naturals, FiniteSets

CONSTANTS
  Offer, Request, Match, \* rows that can exist (bounds the model)
  Engine,                \* copies of the match engine that can run at a time
  OfferTenant, RequestTenant,
  OfferSlot, RequestSlot,  \* the zone and the day
  DriverCount, OrderCount,
  High,                  \* requests of priority HIGH
  OrdersPerDriver,
  Withdrawals,           \* offers whose tenants may cancel them
  Lapsing,               \* rows whose 24 hours may pass
  Answers,               \* answers tenants give
  Crashes                \* whether a run of the engine may die

ASSUME RowAssumption ==
  /\ Offer \cap Request = {}
  /\ DriverCount \in [Offer -> Nat]
  /\ OrderCount \in [Request -> Nat]
  /\ OrdersPerDriver \in Nat \ {0}
  /\ IsFiniteSet(Engine)
ASSUME UserAssumption ==
  /\ High \subseteq Request
  /\ Withdrawals \subseteq Offer
  /\ Lapsing \subseteq Offer \cup Request
  /\ Answers \subseteq {"ACCEPTED", "REJECTED"}
  /\ Crashes \in BOOLEAN

VARIABLES
  offer,        \* capacity_offers.status
  request,      \* capacity_requests.status
  lapsed,       \* rows whose expires_at has passed
  match,        \* capacity_matches: offer, request, status, settled_at
  engine,       \* each run of the engine
  cancelling,   \* cancel requests that found their offer OPEN
  answering     \* answers that found their match PENDING_ACCEPTANCE

vars == <<offer, request, lapsed, match, engine, cancelling, answering>>
users == <<lapsed, cancelling, answering>>

\* No match: the row does not exist.
NoMatch == [status |-> "NONE", pair |-> <<>>, settled |-> FALSE]

(***************************************************************************)
(* pc is the next database step of a run:                                  *)
(*   sleep    not running            overdue  SELECT expired requests      *)
(*   expire   COMMIT the expired     load     SELECT the open requests     *)
(*   seek     SELECT an offer        book     COMMIT the match             *)
(* stale holds the rows the session has set to EXPIRED and not committed;  *)
(* todo the open requests not looked at yet; pair the match being made.    *)
(***************************************************************************)
Sleep == [pc |-> "sleep", stale |-> {}, todo |-> {}, pair |-> <<>>]

At(e, l) == engine[e].pc = l
Become(e, r) == engine' = [engine EXCEPT ![e] = r]

\* Mutated DriversNeeded: int() instead of ceil().
DriversFloor(n) == n \div OrdersPerDriver

DriversNeeded(n) == (n + OrdersPerDriver - 1) \div OrdersPerDriver

Suits(o, r) ==
  /\ OfferSlot[o] = RequestSlot[r]
  /\ DriverCount[o] >= DriversNeeded(OrderCount[r])
  /\ OfferTenant[o] # RequestTenant[r]

-----------------------------------------------------------------------------
(* Tenants *)

CreateOffer(o) ==
  /\ offer[o] = "NONE"
  /\ offer' = [offer EXCEPT ![o] = "OPEN"]
  /\ UNCHANGED <<request, match, engine, users>>

CreateRequest(r) ==
  /\ request[r] = "NONE"
  /\ request' = [request EXCEPT ![r] = "OPEN"]
  /\ UNCHANGED <<offer, match, engine, users>>

\* Mutated BeginCancel: forgets the tenant_id of the caller.
BeginCancelAny(o) ==
  /\ o \notin cancelling
  /\ offer[o] = "OPEN"
  /\ cancelling' = cancelling \cup {o}
  /\ UNCHANGED <<offer, request, match, engine, lapsed, answering>>

\* cancel_offer: SELECT ... status = 'OPEN', then COMMIT.
BeginCancel(o) ==
  /\ o \in Withdrawals \ cancelling
  /\ offer[o] = "OPEN"
  /\ cancelling' = cancelling \cup {o}
  /\ UNCHANGED <<offer, request, match, engine, lapsed, answering>>

CommitCancel(o) ==
  /\ o \in cancelling
  /\ offer' = [offer EXCEPT ![o] = "CANCELLED"]
  /\ cancelling' = cancelling \ {o}
  /\ UNCHANGED <<request, match, engine, lapsed, answering>>

\* respond_to_match: SELECT ... status = 'PENDING_ACCEPTANCE', then COMMIT.
BeginAnswer(m, s) ==
  /\ match[m].status = "PENDING_ACCEPTANCE"
  /\ <<m, s>> \notin answering
  /\ answering' = answering \cup {<<m, s>>}
  /\ UNCHANGED <<offer, request, match, engine, lapsed, cancelling>>

CommitAnswer(m, s) ==
  /\ <<m, s>> \in answering
  /\ match' = [match EXCEPT ![m].status = s,
                            ![m].settled = @ \/ s = "ACCEPTED"]
  /\ answering' = answering \ {<<m, s>>}
  /\ UNCHANGED <<offer, request, engine, lapsed, cancelling>>

\* The 24 hours of a posted row pass.
Lapse(x) ==
  /\ x \in Lapsing \ lapsed
  /\ IF x \in Offer THEN offer[x] # "NONE" ELSE request[x] # "NONE"
  /\ lapsed' = lapsed \cup {x}
  /\ UNCHANGED <<offer, request, match, engine, cancelling, answering>>

-----------------------------------------------------------------------------
(* The match engine *)

\* Mutated OverdueOffers: forgets status = 'OPEN'.
AnyOverdueOffer == {o \in Offer \cap lapsed : offer[o] # "NONE"}

OverdueOffers == {o \in Offer \cap lapsed : offer[o] = "OPEN"}

\* _archive_expired, first loop.  Both loops compare with the same now, so the
\* requests that are due are fixed here.
ArchiveOffers(e) ==
  /\ At(e, "sleep")
  /\ Become(e, [Sleep EXCEPT !.pc = "overdue",
                             !.stale = OverdueOffers \cup (Request \cap lapsed)])
  /\ UNCHANGED <<offer, request, match, users>>

\* Mutated ArchiveRequests: the commit is forgotten.
ArchiveUncommitted(e) ==
  /\ At(e, "overdue")
  /\ Become(e, [engine[e] EXCEPT !.pc = "load",
       !.stale = (Offer \cap @) \cup {r \in Request \cap @ : request[r] = "OPEN"}])
  /\ UNCHANGED <<offer, request, match, users>>

\* Second loop.  "if expired" then looks at the requests only.
ArchiveRequests(e) ==
  LET due == {r \in Request \cap engine[e].stale : request[r] = "OPEN"}
  IN /\ At(e, "overdue")
     /\ Become(e, [engine[e] EXCEPT !.pc = IF due = {} THEN "load" ELSE "expire",
                                    !.stale = (Offer \cap @) \cup due])
     /\ UNCHANGED <<offer, request, match, users>>

\* What a COMMIT of run e writes over the statuses f of the rows S.
Expired(e, S, f) == [x \in S |-> IF x \in engine[e].stale THEN "EXPIRED" ELSE f[x]]

CommitExpired(e) ==
  /\ At(e, "expire")
  /\ offer' = Expired(e, Offer, offer)
  /\ request' = Expired(e, Request, request)
  /\ Become(e, [engine[e] EXCEPT !.pc = "load", !.stale = {}])
  /\ UNCHANGED <<match, users>>

\* Mutated LoadRequests: filters by priority instead of ordering by it.
LoadHigh(e) ==
  /\ At(e, "load")
  /\ Become(e, [engine[e] EXCEPT !.pc = "seek",
                  !.todo = {r \in High \ lapsed : request[r] = "OPEN"}])
  /\ UNCHANGED <<offer, request, match, users>>

LoadRequests(e) ==
  /\ At(e, "load")
  /\ Become(e, [engine[e] EXCEPT !.pc = "seek",
                  !.todo = {r \in Request \ lapsed : request[r] = "OPEN"}])
  /\ UNCHANGED <<offer, request, match, users>>

\* HIGH first; created_at, the order within a priority, is left open.
Foremost(e) == IF engine[e].todo \cap High # {} THEN engine[e].todo \cap High
               ELSE engine[e].todo

\* Mutated Matching: forgets status = 'OPEN'.
MatchingEver(r) == {o \in Offer \ lapsed : offer[o] # "NONE" /\ Suits(o, r)}

Matching(r) == {o \in Offer \ lapsed : offer[o] = "OPEN" /\ Suits(o, r)}

SeekOffer(e) ==
  /\ At(e, "seek")
  /\ \E r \in Foremost(e) :
       \/ /\ Matching(r) = {}
          /\ Become(e, [engine[e] EXCEPT !.todo = @ \ {r}])
       \/ \E o \in Matching(r) :
            Become(e, [engine[e] EXCEPT !.pc = "book", !.todo = @ \ {r},
                                        !.pair = <<o, r>>])
  /\ UNCHANGED <<offer, request, match, users>>

\* Mutated CommitMatch: leaves the request OPEN.
CommitOffer(e) ==
  /\ At(e, "book")
  /\ \E m \in Match :
       /\ match[m] = NoMatch
       /\ match' = [match EXCEPT ![m] = [status |-> "PENDING_ACCEPTANCE",
                                         pair |-> engine[e].pair,
                                         settled |-> FALSE]]
  /\ offer' = [Expired(e, Offer, offer) EXCEPT ![engine[e].pair[1]] = "MATCHED"]
  /\ Become(e, [engine[e] EXCEPT !.pc = "seek", !.stale = {}, !.pair = <<>>])
  /\ UNCHANGED <<request, users>>

\* One COMMIT for the match, both statuses and the offers still to be expired;
\* the statuses are not compared with what was read.
CommitMatch(e) ==
  LET o == engine[e].pair[1]
      r == engine[e].pair[2]
  IN /\ At(e, "book")
     /\ \E m \in Match :
          /\ match[m] = NoMatch
          /\ match' = [match EXCEPT ![m] = [status |-> "PENDING_ACCEPTANCE",
                                            pair |-> engine[e].pair,
                                            settled |-> FALSE]]
     /\ offer' = [Expired(e, Offer, offer) EXCEPT ![o] = "MATCHED"]
     /\ request' = [request EXCEPT ![r] = "MATCHED"]
     /\ Become(e, [engine[e] EXCEPT !.pc = "seek", !.stale = {}, !.pair = <<>>])
     /\ UNCHANGED users

\* The session is closed: offers set to EXPIRED and not committed are lost.
FinishRun(e) ==
  /\ At(e, "seek") /\ engine[e].todo = {}
  /\ Become(e, Sleep)
  /\ UNCHANGED <<offer, request, match, users>>

Crash(e) ==
  /\ Crashes /\ ~At(e, "sleep")
  /\ Become(e, Sleep)
  /\ UNCHANGED <<offer, request, match, users>>

-----------------------------------------------------------------------------
Init ==
  /\ offer = [o \in Offer |-> "NONE"]
  /\ request = [r \in Request |-> "NONE"]
  /\ lapsed = {}
  /\ match = [m \in Match |-> NoMatch]
  /\ engine = [e \in Engine |-> Sleep]
  /\ cancelling = {}
  /\ answering = {}

EngineStep(e) ==
  \/ ArchiveOffers(e)
  \/ ArchiveRequests(e)
  \/ CommitExpired(e)
  \/ LoadRequests(e)
  \/ SeekOffer(e)
  \/ CommitMatch(e)
  \/ FinishRun(e)

TenantStep ==
  \/ \E o \in Offer : CreateOffer(o) \/ BeginCancel(o) \/ CommitCancel(o)
  \/ \E r \in Request : CreateRequest(r)
  \/ \E x \in Offer \cup Request : Lapse(x)
  \/ \E m \in Match, s \in Answers : BeginAnswer(m, s) \/ CommitAnswer(m, s)

Next == TenantStep \/ \E e \in Engine : EngineStep(e) \/ Crash(e)

Spec == Init /\ [][Next]_vars

\* The scheduler starts the engine again and again and a run goes on; tenants
\* owe nothing.
FairSpec == Spec /\ \A e \in Engine : WF_vars(EngineStep(e))

-----------------------------------------------------------------------------
(* Properties *)

PairType == {<<>>} \cup (Offer \X Request)
MatchRow == [status : {"NONE", "PENDING_ACCEPTANCE"} \cup Answers,
             pair : PairType, settled : BOOLEAN]
Run == [pc : {"sleep", "overdue", "expire", "load", "seek", "book"},
        stale : SUBSET (Offer \cup Request), todo : SUBSET Request,
        pair : PairType]

\* The columns and the engine's variables hold values of their types.
TypeOK ==
  /\ offer \in [Offer -> {"NONE", "OPEN", "MATCHED", "CANCELLED", "EXPIRED"}]
  /\ request \in [Request -> {"NONE", "OPEN", "MATCHED", "EXPIRED"}]
  /\ lapsed \subseteq Lapsing
  /\ match \in [Match -> MatchRow]
  /\ engine \in [Engine -> Run]
  /\ cancelling \subseteq Withdrawals
  /\ answering \subseteq Match \X Answers

Made(m) == match[m].status # "NONE"
Deals == {match[m].pair : m \in {n \in Match : Made(n)}}

\* Capacity is sold once: no offer and no request is in two matches, however
\* cancels, expiry, crashes and answers fall between the engine's steps.
SoldOnce ==
  \A m, n \in Match :
    /\ Made(m) /\ Made(n) /\ m # n
    => /\ match[m].pair[1] # match[n].pair[1]
       /\ match[m].pair[2] # match[n].pair[2]

\* An offer or a request is sold at most once by each copy of the engine that
\* runs: copies that overlap sell it again, however often they run afterwards.
Sales(x) == {m \in Match : Made(m) /\ (match[m].pair[1] = x \/ match[m].pair[2] = x)}
SalesBounded ==
  \A x \in Offer \cup Request : Cardinality(Sales(x)) <= Cardinality(Engine)

\* The drivers of a matched offer can deliver the orders of its request, at
\* OrdersPerDriver each.
CapacityCovers ==
  \A d \in Deals : DriverCount[d[1]] * OrdersPerDriver >= OrderCount[d[2]]

\* A match's offer is never archived or put up for sale again, and its request
\* stays MATCHED: archive passes and crashes between two commits leave sold rows
\* alone; only the tenant's own cancel, which read the offer earlier, may win.
SoldNotReopened ==
  \A d \in Deals : offer[d[1]] \in {"MATCHED", "CANCELLED"}
                 /\ request[d[2]] = "MATCHED"

\* A request and an offer that suit each other do not both stay open: the
\* engine finds a partner for one of them, unless time or the tenant takes one.
PairsServed ==
  \A o \in Offer, r \in Request :
    Suits(o, r) =>
      (offer[o] = "OPEN" /\ request[r] = "OPEN")
        ~> (offer[o] # "OPEN" \/ request[r] # "OPEN" \/ {o, r} \cap lapsed # {})

\* Lapsed requests, which the archive pass does commit, do not stay OPEN.
RequestsArchived ==
  \A r \in Request : (r \in lapsed /\ request[r] = "OPEN") ~> (request[r] # "OPEN")

Posted == {o \in Offer : offer[o] # "NONE"} \cup {r \in Request : request[r] # "NONE"}

X == INSTANCE Exchange WITH Fits <- Suits, posted <- Posted, deals <- Deals

\* One engine sells as the exchange promises.
ImplementsExchange == X!XSpec
=============================================================================
