--------------------------- MODULE MCConfigReload ---------------------------
(* Instances of ConfigReload for TLC. *)
EXTENDS ConfigReload
=============================================================================
