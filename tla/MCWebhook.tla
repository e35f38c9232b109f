----------------------------- MODULE MCWebhook -----------------------------
(* Instances of Webhook for TLC. *)
EXTENDS Webhook, TLC

\* Endpoints differ in nothing but their name.
EndpointSymmetry == Permutations(Endpoint)
=============================================================================
