----------------------------- MODULE MCIrcChat -----------------------------
(* Instances of IrcChat for TLC. *)
EXTENDS IrcChat
=============================================================================
