------------------------------ MODULE MCCaptures ------------------------------
(* Instances of Captures for TLC: their values are in the configuration. *)
EXTENDS Captures
=============================================================================
