------------------------------ MODULE Exchange ------------------------------
(***************************************************************************)
(* What the capacity marketplace promises its tenants: spare capacity is   *)
(* sold once.  A deal joins one posted offer and one posted request that   *)
(* fit each other, and neither takes part in a second deal.                *)
(***************************************************************************)
CONSTANTS Offer, Request,
          Fits(_, _)       \* may this offer serve this request

VARIABLES posted,          \* offers and requests tenants have posted
          deals            \* the deals struck: pairs of an offer and a request

xvars == <<posted, deals>>

Free(x) == \A d \in deals : x # d[1] /\ x # d[2]

Post(x) ==
  /\ x \notin posted
  /\ posted' = posted \cup {x}
  /\ UNCHANGED deals

Strike(o, r) ==
  /\ {o, r} \subseteq posted
  /\ Free(o) /\ Free(r)
  /\ Fits(o, r)
  /\ deals' = deals \cup {<<o, r>>}
  /\ UNCHANGED posted

XInit == posted = {} /\ deals = {}
XNext == \/ \E x \in Offer \cup Request : Post(x)
         \/ \E o \in Offer, r \in Request : Strike(o, r)
XSpec == XInit /\ [][XNext]_xvars
=============================================================================
