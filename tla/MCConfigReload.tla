---------------------------- MODULE MCConfigReload ----------------------------
(* Instances of ConfigReload for TLC: their values are in the configurations. *)
EXTENDS ConfigReload
=============================================================================
