---------------------------- MODULE MCConnector ----------------------------
(* An instance of Connector for TLC: chat and pubsub differ in nothing but *)
(* their names, and one of them stands for both.                           *)
EXTENDS Connector
=============================================================================
