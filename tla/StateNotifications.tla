-------------------------- MODULE StateNotifications --------------------------
(***************************************************************************)
(* When a change of the connection is worth a desktop notification         *)
(* (src/src/gui/notifications.rs).  The notification assistant and the     *)
(* window keep such a record each:                                         *)
(*                                                                         *)
(*   [previous |-> the state last seen, or None,                           *)
(*    manual   |-> a connection was asked for and is not yet answered,     *)
(*    outage   |-> None, or its age and whether it was warned of]          *)
(*                                                                         *)
(* Observe and Poll give the record they leave and the notice to show.     *)
(***************************************************************************)
EXTENDS Naturals

CONSTANTS
  OutageDelay, \* units of time before an outage is worth a warning (5 s)
  None         \* no state seen, no outage, no notice

\* Stopped is left out: it is treated as Idle is.
States == {"Idle", "Authenticating", "Authenticated", "Failed"}
Notices == {"current", "disconnected", "recovered"}

Outage == [age : 0..OutageDelay, warned : BOOLEAN]
Record == [previous : States \cup {None}, manual : BOOLEAN, outage : Outage \cup {None}]

ASSUME NotificationsAssumption ==
  OutageDelay \in Nat \ {0} /\ None \notin States \cup Notices \cup Outage

NothingSeen == [previous |-> None, manual |-> FALSE, outage |-> None]

ConnectRequested(n) == [n EXCEPT !.manual = TRUE]

\* The result of a request may be there when the request is first seen.  Mutant:
\* only the request is noted.
ServiceConnectRequested_Late(n, state) == ConnectRequested(n)

ServiceConnectRequested(n, state) ==
  IF state \in {"Authenticated", "Failed"}
  THEN [ConnectRequested(n) EXCEPT !.previous = "Authenticating"]
  ELSE ConnectRequested(n)

\* A warning is owed at the end of the delay.
Pending(n) == n.outage # None /\ ~n.outage.warned
Overdue(n) == n.outage # None /\ n.outage.age = OutageDelay

Says(n, notice) == [record |-> n, notice |-> notice]

Poll(n, enabled) ==
  IF enabled /\ Pending(n) /\ Overdue(n)
  THEN Says([n EXCEPT !.outage.warned = TRUE], "disconnected")
  ELSE Says(n, None)

\* deadline(): whether a timer is to run.
Deadline(n, enabled) == enabled /\ Pending(n)

\* A new outage, unless the user asked for what happens.  Mutants: every retry is a
\* new outage; an outage in which a connection is asked for is not counted.
Broken_Restarts(n) ==
  IF (n.previous = "Authenticated" \/ n.outage # None) /\ ~n.manual
  THEN [n EXCEPT !.outage = [age |-> 0, warned |-> FALSE]] ELSE n

Broken(n) ==
  IF n.previous = "Authenticated" /\ ~n.manual
  THEN [n EXCEPT !.outage = [age |-> 0, warned |-> FALSE]] ELSE n

\* Back online: a short outage stays unmentioned, unless the user asked.  Mutant: a
\* warning is not followed up.
Online_Silent(n) == IF n.manual \/ n.outage = None THEN "current" ELSE None

Online(n) ==
  IF n.manual \/ n.outage = None THEN "current"
  ELSE IF Overdue(n) THEN "recovered" ELSE None

Observe(n, state, paused, enabled) ==
  LET seen == [n EXCEPT !.previous = state]
      lost == [Broken(n) EXCEPT !.previous = state]
      notice == IF enabled THEN Online(n) ELSE None
  IN CASE paused ->
            Says([seen EXCEPT !.outage = None, !.manual = FALSE], None)
       [] ~paused /\ state = "Authenticated" ->
            IF n.previous \in {None, "Authenticated"}
            THEN Says([seen EXCEPT !.outage = None], None)
            ELSE Says([seen EXCEPT !.outage = None, !.manual = FALSE], notice)
       [] OTHER ->
            IF lost.outage = None /\ state = "Failed" /\ n.previous \notin {None, "Failed"}
            THEN Says([lost EXCEPT !.manual = FALSE], IF enabled THEN "current" ELSE None)
            ELSE Poll(lost, enabled)

\* A unit of time passes.
Ages(n) ==
  IF n.outage # None /\ n.outage.age < OutageDelay THEN [n EXCEPT !.outage.age = @ + 1] ELSE n
=============================================================================
