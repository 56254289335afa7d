-------------------------- MODULE MCNotificationAgent --------------------------
(* Instances of NotificationAgent for TLC: their values are in the configuration. *)
EXTENDS NotificationAgent
=============================================================================
