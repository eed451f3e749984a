------------------------------ MODULE MCWebhook ------------------------------
(* Webhook for TLC: two events and two deliveries at a time.                 *)
EXTENDS Webhook

CONSTANTS h1, h2, e1, e2
=============================================================================
