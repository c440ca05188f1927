----------------------------- MODULE MCWebhooks -----------------------------
(* A small instance of Webhooks for TLC: one subscription wants every safe *)
(* event, the other one kind of them; turns are private.                   *)
EXTENDS Webhooks

MCWanted == <<{"completed"}, {"completed"}>>
=============================================================================
