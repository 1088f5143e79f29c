----------------------------- MODULE MCWebhook -----------------------------
(* An instance of Webhook for TLC. *)
EXTENDS Webhook
=============================================================================
