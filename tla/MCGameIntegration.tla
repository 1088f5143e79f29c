-------------------------- MODULE MCGameIntegration --------------------------
(* Instances of GameIntegration for TLC. *)
EXTENDS GameIntegration

(* Version 1 maps a command to two actions and knows no reward; version 2  *)
(* maps the command to two other actions and the reward to one.            *)
TwoActions ==
  [v \in Versions |->
     [k \in Kinds |-> IF k = "command" THEN 2 ELSE IF v = 1 THEN 0 ELSE 1]]
=============================================================================
