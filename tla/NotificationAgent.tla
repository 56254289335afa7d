-------------------------- MODULE NotificationAgent --------------------------
(***************************************************************************)
(* The notification assistant (src/src/notify.rs): a thread that keeps a   *)
(* subscription to the service and puts what it hears in a short queue,    *)
(* and the window thread that empties it, keeps the record of              *)
(* StateNotifications and one timer, and tells the user.                   *)
(*                                                                         *)
(* The service is reduced to the snapshots it publishes: "request" counts  *)
(* the connections users asked for, "release" numbers the newest release   *)
(* its update check has found, 0 for none.                                 *)
(***************************************************************************)
EXTENDS StateNotifications, Sequences

CONSTANTS
  Unavailable, \* the event that the subscription has ended
  QueueCap,   \* events kept for the window thread (32)
  WireCap,    \* bound: snapshots on their way to the subscription
  MaxRequest, \* bound: connections users ask for
  MaxRelease, \* bound: releases
  Faults      \* whether the tray, the preference request and writes may fail

ASSUME AgentAssumption ==
  /\ QueueCap \in Nat \ {0} /\ WireCap \in Nat \ {0}
  /\ MaxRequest \in Nat /\ MaxRelease \in Nat /\ Faults \in BOOLEAN

VARIABLES
  service,   \* what the service last published
  enabled,   \* desktop_notify in the service's configuration
  link,      \* the subscription: "down" or "up"
  wire,      \* snapshots that were published and not yet read
  queue,     \* events for the window thread
  record,    \* Agent.notices
  wanted,    \* Agent.enabled
  connected, \* Agent.connected
  seen,      \* Agent.connection_request
  timer,     \* OUTAGE_TIMER runs
  notified,  \* notified_version in notification_state.json
  notice,    \* history: the notice of the last step
  owed,      \* history: a request this assistant knows of is not answered
  told       \* history: how often each release was announced, once that was noted

outside == <<service, enabled>>
feed == <<link, wire>>
agent == <<record, wanted, connected, seen, timer>>
history == <<notice, owed, told>>
vars == <<outside, feed, queue, agent, notified, history>>

Snapshot == [state : States, paused : BOOLEAN, request : 0..MaxRequest, release : 0..MaxRelease]
Status == [snapshot : Snapshot, enabled : BOOLEAN]

ASSUME EventAssumption == None \notin 0..MaxRequest /\ Unavailable \notin Status

MayFail == IF Faults THEN BOOLEAN ELSE {FALSE}

-----------------------------------------------------------------------------
(* The service                                                             *)

\* publish(): a watcher gets every snapshot that differs from the last.
Publish(s) ==
  /\ s # service /\ service' = s
  /\ IF link = "up" THEN Len(wire) < WireCap /\ wire' = Append(wire, s) ELSE wire' = wire
  /\ UNCHANGED <<enabled, link, queue, agent, notified, told>>

\* A paused connection is idle.
Changes ==
  /\ \E state \in States, paused \in BOOLEAN :
       /\ paused => state = "Idle"
       /\ Publish([service EXCEPT !.state = state, !.paused = paused])
  /\ notice' = None /\ owed' = owed

\* connect(): a pause ends, and what is left of the attempt is shown at once.
Requested ==
  /\ service.request < MaxRequest
  /\ \E state \in {"Idle", "Authenticating", "Failed"} :
       Publish([service EXCEPT !.state = state, !.paused = FALSE, !.request = @ + 1])
  /\ notice' = None /\ owed' = (owed \/ (link = "up" /\ seen # None /\ queue = <<>>))

Released ==
  /\ service.release < MaxRelease
  /\ Publish([service EXCEPT !.release = @ + 1])
  /\ notice' = None /\ owed' = owed

SetEnabled ==
  /\ enabled' = ~enabled /\ notice' = None
  /\ UNCHANGED <<service, feed, queue, agent, notified, owed, told>>

-----------------------------------------------------------------------------
(* The subscription thread                                                 *)

\* The oldest event makes room.
Post(event) ==
  queue' = Append(IF Len(queue) = QueueCap THEN Tail(queue) ELSE queue, event)

\* watch(): the first response is the snapshot of the moment.
Subscribe ==
  /\ link = "down" /\ link' = "up" /\ wire' = <<service>>
  /\ notice' = None
  /\ UNCHANGED <<outside, queue, agent, notified, owed, told>>

\* The preferences are asked for with every snapshot; no answer counts as off.
Hear ==
  /\ wire # <<>> /\ wire' = Tail(wire)
  /\ \E failed \in MayFail : Post([snapshot |-> Head(wire), enabled |-> enabled /\ ~failed])
  /\ notice' = None
  /\ UNCHANGED <<outside, link, agent, notified, owed, told>>

\* The service ends, or gives a slow watcher up.
Breaks ==
  /\ link = "up" /\ link' = "down" /\ wire' = <<>> /\ Post(Unavailable)
  /\ notice' = None
  /\ UNCHANGED <<outside, agent, notified, owed, told>>

-----------------------------------------------------------------------------
(* The window thread                                                       *)

\* schedule(): the timer is set anew, or taken away.  Mutant: it is only taken away.
Schedule_Kills(n, on, reachable) == FALSE
Schedule(n, on, reachable) == reachable /\ Deadline(n, on)

\* The request number of a service is first taken note of, then compared.
Noted(s) ==
  IF seen # None /\ seen # s.request /\ s.request # 0
  THEN ServiceConnectRequested(record, s.state) ELSE record

\* A release is announced unless a file says that it was.  Mutant: the file is not
\* asked.
Announces_Always(s) == s.release > 0
Announces(s) == s.release > 0 /\ notified # s.release

\* show() reports whether the tray took it; only then is the release noted, if the
\* file can be written.
Announcement(s) ==
  IF ~Announces(s) THEN notified' = notified /\ told' = told
  ELSE \E failed \in MayFail, lost \in MayFail :
         /\ told' = IF failed \/ (lost /\ told[s.release] = 0) THEN told
                    ELSE [told EXCEPT ![s.release] = IF @ < 2 THEN @ + 1 ELSE 2]
         /\ notified' = IF failed \/ lost THEN notified ELSE s.release

\* What a request is owed ends with a word to the user, a pause, or notices that are
\* switched off.
Settled(s, word, on) ==
  word # None \/ s.paused \/ (s.state \in {"Authenticated", "Failed"} /\ ~on)

Receive ==
  /\ queue # <<>> /\ queue' = Tail(queue)
  /\ IF Head(queue) = Unavailable
     THEN /\ seen' = None /\ connected' = FALSE /\ timer' = Schedule(record, wanted, FALSE)
          /\ notice' = None /\ owed' = FALSE
          /\ UNCHANGED <<record, wanted, notified, told>>
     ELSE LET s == Head(queue).snapshot
              on == Head(queue).enabled
              o == Observe(Noted(s), s.state, s.paused, on)
          IN /\ seen' = s.request /\ wanted' = on /\ connected' = TRUE
             /\ record' = o.record /\ notice' = o.notice
             /\ timer' = Schedule(o.record, on, TRUE)
             /\ Announcement(s)
             /\ owed' = (owed /\ ~Settled(s, o.notice, on))
  /\ UNCHANGED <<outside, feed>>

\* The timer is set to fire once the delay is over.
Timer ==
  /\ timer /\ Overdue(record)
  /\ LET p == Poll(record, wanted)
     IN /\ record' = p.record /\ notice' = p.notice
        /\ timer' = Schedule(p.record, wanted, connected)
  /\ UNCHANGED <<outside, feed, queue, wanted, connected, seen, notified, owed, told>>

Passes ==
  /\ record' = Ages(record) /\ record' # record /\ notice' = None
  /\ UNCHANGED <<outside, feed, queue, wanted, connected, seen, timer, notified, owed, told>>

\* The user logs off and on again: only the file is left.
Restart ==
  /\ link' = "down" /\ wire' = <<>> /\ queue' = <<>>
  /\ record' = NothingSeen /\ wanted' = FALSE /\ connected' = FALSE
  /\ seen' = None /\ timer' = FALSE /\ notice' = None /\ owed' = FALSE
  /\ UNCHANGED <<outside, notified, told>>

-----------------------------------------------------------------------------

Init ==
  /\ service = [state |-> "Idle", paused |-> FALSE, request |-> 0, release |-> 0]
  /\ enabled \in BOOLEAN /\ link = "down" /\ wire = <<>> /\ queue = <<>>
  /\ record = NothingSeen /\ wanted = FALSE /\ connected = FALSE
  /\ seen = None /\ timer = FALSE /\ notified = 0
  /\ notice = None /\ owed = FALSE /\ told = [r \in 1..MaxRelease |-> 0]

Next ==
  \/ Changes \/ Requested \/ Released \/ SetEnabled
  \/ Subscribe \/ Hear \/ Breaks
  \/ Receive \/ Timer \/ Passes \/ Restart

Spec == Init /\ [][Next]_vars

\* The two threads go on, and time passes.  Nothing is assumed of the service.
FairSpec ==
  Spec /\ WF_vars(Subscribe) /\ WF_vars(Hear) /\ WF_vars(Receive) /\ WF_vars(Timer) /\ WF_vars(Passes)

-----------------------------------------------------------------------------
(* Properties.                                                             *)

TypeOK ==
  /\ service \in Snapshot /\ enabled \in BOOLEAN
  /\ link \in {"down", "up"} /\ wire \in Seq(Snapshot) /\ Len(wire) <= WireCap
  /\ queue \in Seq(Status \cup {Unavailable}) /\ Len(queue) <= QueueCap
  /\ record \in Record /\ wanted \in BOOLEAN /\ connected \in BOOLEAN
  /\ seen \in 0..MaxRequest \cup {None} /\ timer \in BOOLEAN
  /\ notified \in 0..MaxRelease /\ notice \in Notices \cup {None}
  /\ owed \in BOOLEAN /\ told \in [1..MaxRelease -> 0..2]

\* A user who asks for a connection is told of its success, also when snapshots in
\* between were dropped from the queue (docs/WINDOWS.md:48).
ConnectIsAnswered == owed => record.previous # "Authenticated" \/ wire # <<>> \/ queue # <<>>

\* A warning is followed up when the connection is back, unless notices are off by then,
\* and "recovered" is said of a long outage only (docs/WINDOWS.md:50).
WarningIsFollowedUp ==
  [][/\ record.outage # None /\ record.outage.warned /\ record'.previous = "Authenticated"
          => notice' # None \/ ~wanted'
     /\ notice' = "recovered" => Overdue(record)]_vars

\* An outage that lasts is warned of, however often the service tries again
\* (docs/WINDOWS.md:50).
OutageIsToldOf ==
  Pending(record) /\ wanted /\ connected ~> ~(Pending(record) /\ wanted /\ connected)

\* A release whose announcement was noted is not announced again, also across restarts
\* (docs/WINDOWS.md:29).
ReleaseIsToldOnce == \A r \in DOMAIN told : told[r] <= 1
=============================================================================
