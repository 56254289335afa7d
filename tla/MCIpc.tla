-------------------------------- MODULE MCIpc --------------------------------
(* Instances of Ipc for TLC: their values are in the configurations. *)
EXTENDS Ipc
=============================================================================
