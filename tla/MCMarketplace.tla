--------------------------- MODULE MCMarketplace ---------------------------
(* Constants of the model-checked instances of Marketplace: two offers and  *)
(* two requests of one zone and day.  Both offers can serve the 12 orders   *)
(* of ra; the 13 orders of rb need the two drivers of oa.                   *)
EXTENDS Marketplace, TLC

CONSTANTS oa, ob, ra, rb, ta, tb, tc, slot

MCOfferTenant == oa :> ta @@ ob :> tb
MCRequestTenant == ra :> tc @@ rb :> tc
MCOfferSlot == [o \in Offer |-> slot]
MCRequestSlot == [r \in Request |-> slot]
MCDriverCount == oa :> 2 @@ ob :> 1
MCOrderCount == ra :> 12 @@ rb :> 13
=============================================================================
