----------------------------- MODULE MCWebhooks -----------------------------
(* Constants of the model-checked instance of Webhooks. *)
EXTENDS Webhooks

CONSTANTS wb, delivered, ping, k1, k2

MCHears == {<<wb, delivered>>, <<wb, ping>>}
=============================================================================
