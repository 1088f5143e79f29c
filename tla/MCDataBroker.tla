---------------------------- MODULE MCDataBroker ----------------------------
(* Instances of DataBroker for TLC. *)
EXTENDS DataBroker
=============================================================================
