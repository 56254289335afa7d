---------------------------- MODULE MCUpdateCheck ----------------------------
(* Instances of UpdateCheck for TLC: only the order of the delays matters. *)
EXTENDS UpdateCheck

MCDelays == <<1, 2, 2, 3>>
=============================================================================
