------------------------------ MODULE AgentProof ------------------------------
(***************************************************************************)
(* The safety of NotificationAgent, for any capacity of the queues and any *)
(* number of requests and releases.                                        *)
(*                                                                         *)
(* Snapshots reach the window thread in the order in which they were       *)
(* published, with gaps, and the last one that waits is the newest: this   *)
(* is what its decisions rest on.                                          *)
(***************************************************************************)
EXTENDS NotificationAgent, SequenceTheorems, TLAPS

\* An outage is of a connection that was up, and a warning comes at the end of the delay.
Sound(n) ==
  n.outage # None =>
    /\ n.previous \notin {None, "Authenticated"}
    /\ n.outage.warned => Overdue(n)

\* Requests and releases are numbered upwards, and a pause is idle.
Later(s, t) == s.request <= t.request /\ s.release <= t.release
Fits(s) ==
  /\ s.paused => s.state = "Idle"
  /\ Later(s, service)
  /\ seen # None => seen <= s.request
  /\ notified <= s.release

Heard(i) == queue[i] # Unavailable

QueueRises ==
  \A i \in DOMAIN queue, j \in DOMAIN queue :
    i <= j /\ Heard(i) /\ Heard(j) => Later(queue[i].snapshot, queue[j].snapshot)
QueueFirst == \A i \in DOMAIN queue, j \in DOMAIN wire : Heard(i) => Later(queue[i].snapshot, wire[j])
WireRises == \A i \in DOMAIN wire, j \in DOMAIN wire : i <= j => Later(wire[i], wire[j])
QueueFits == \A i \in DOMAIN queue : Heard(i) => Fits(queue[i].snapshot)
WireFits == \A j \in DOMAIN wire : Fits(wire[j])

Rising == QueueRises /\ QueueFirst /\ WireRises /\ QueueFits /\ WireFits /\ Fits(service)

\* The newest request is the last that waits, or was seen, unless the subscription ended.
Newest ==
  IF link = "down"
  THEN wire = <<>> /\ IF queue = <<>> THEN seen = None ELSE ~Heard(Len(queue))
  ELSE IF wire # <<>> THEN wire[Len(wire)].request = service.request
  ELSE IF queue # <<>> THEN Heard(Len(queue)) /\ queue[Len(queue)].snapshot.request = service.request
  ELSE seen = service.request

\* A request that is owed an answer is noted in the record, or still to be heard of.
Asked(n) == n.manual /\ n.previous \notin {None, "Authenticated"}
Owed == owed => seen # None /\ (Asked(record) \/ seen < service.request)

\* What was announced was noted.
Announced == \A r \in DOMAIN told : told[r] <= 1 /\ (told[r] = 1 => r <= notified)

Inv == TypeOK /\ Sound(record) /\ Rising /\ Newest /\ Owed /\ Announced

-----------------------------------------------------------------------------
(* The record.                                                             *)

LEMMA RecordTypes ==
  ASSUME NEW n \in Record, NEW state \in States, NEW paused \in BOOLEAN, NEW on \in BOOLEAN
  PROVE  LET o == Observe(n, state, paused, on)
         IN o.record \in Record /\ o.notice \in Notices \cup {None} /\ o.record.previous = state
PROOF
<1> DEFINE lost == [Broken(n) EXCEPT !.previous = state]
<1>1. OutageDelay \in Nat \ {0}
  BY NotificationsAssumption
<1>2. Broken(n) \in Record
  <2>1. [age |-> 0, warned |-> FALSE] \in Outage
    BY <1>1 DEF Outage
  <2>2. [n EXCEPT !.outage = [age |-> 0, warned |-> FALSE]] \in Record
    BY <2>1 DEF Record
  <2> QED
    BY <2>2 DEF Broken
<1>3. lost \in Record /\ lost.previous = state
  BY <1>2 DEF Record
<1>4. Poll(lost, on).record \in Record /\ Poll(lost, on).notice \in Notices \cup {None}
      /\ Poll(lost, on).record.previous = state
  <2> HIDE DEF lost
  <2> QED
    BY <1>3, NotificationsAssumption DEF Poll, Pending, Overdue, Says, Record, Outage, Notices
<1>5. Online(n) \in Notices \cup {None}
  BY DEF Online, Notices
<1>6. \A b \in BOOLEAN : [lost EXCEPT !.manual = b] \in Record /\ [lost EXCEPT !.manual = b].previous = state
  <2> HIDE DEF lost
  <2> QED
    BY <1>3 DEF Record
<1>7. CASE paused
  BY <1>7 DEF Observe, Says, Record
<1>8. CASE ~paused /\ state = "Authenticated"
  <2> HIDE DEF lost
  <2> QED
    BY <1>5, <1>8 DEF Observe, Says, Record
<1>9. CASE ~paused /\ state # "Authenticated"
  <2>1. "current" \in Notices
    BY DEF Notices
  <2> DEFINE failure == Says([lost EXCEPT !.manual = FALSE], IF on THEN "current" ELSE None)
  <2>2. Observe(n, state, paused, on) = Poll(lost, on) \/ Observe(n, state, paused, on) = failure
    BY <1>9 DEF Observe
  <2> HIDE DEF lost
  <2>3. failure.record \in Record /\ failure.notice \in Notices \cup {None} /\ failure.record.previous = state
    BY <1>6, <2>1 DEF Says
  <2> HIDE DEF failure
  <2> QED
    BY <1>4, <2>2, <2>3
<1> QED
  BY <1>7, <1>8, <1>9

LEMMA RecordSound ==
  ASSUME NEW n \in Record, Sound(n),
         NEW state \in States, NEW paused \in BOOLEAN, NEW on \in BOOLEAN
  PROVE  Sound(Observe(n, state, paused, on).record)
PROOF
<1> DEFINE lost == [Broken(n) EXCEPT !.previous = state]
<1>1. [age |-> 0, warned |-> FALSE] \in Outage /\ None \notin States \cup Outage
  BY NotificationsAssumption DEF Outage
<1>2. CASE paused \/ state = "Authenticated"
  BY <1>2 DEF Observe, Says, Sound, Record
<1>3. CASE ~paused /\ state # "Authenticated"
  <2>1. lost.outage \in {n.outage, [age |-> 0, warned |-> FALSE]} /\ lost \in [previous : States, manual : BOOLEAN, outage : Outage \cup {None}]
    BY <1>1 DEF Broken, Record
  <2>2. Sound(lost)
    BY <1>1, <1>3, <2>1 DEF Sound, Overdue, Record
  <2>3. Sound(Poll(lost, on).record)
    <3> HIDE DEF lost
    <3> QED
      BY <2>1, <2>2 DEF Sound, Poll, Says, Pending, Overdue, Outage
  <2>4. Sound([lost EXCEPT !.manual = FALSE])
    <3> HIDE DEF lost
    <3> QED
      BY <2>1, <2>2 DEF Sound, Overdue
  <2> QED
    BY <1>3, <2>3, <2>4 DEF Observe, Says
<1> QED
  BY <1>2, <1>3

\* A record in which a request is noted keeps it until the user is told.
LEMMA RequestKept ==
  ASSUME NEW n \in Record, n.manual, NEW s \in Snapshot, NEW on \in BOOLEAN,
         s.state = "Authenticated" => n.previous \notin {None, "Authenticated"}
  PROVE  LET o == Observe(n, s.state, s.paused, on)
         IN Settled(s, o.notice, on) \/ Asked(o.record)
PROOF
<1> DEFINE lost == [Broken(n) EXCEPT !.previous = s.state]
           o == Observe(n, s.state, s.paused, on)
<1>1. s.state \in States /\ s.paused \in BOOLEAN /\ "current" # None /\ None \notin States
  BY NotificationsAssumption DEF Snapshot, Notices
<1>2. CASE s.paused
  BY <1>2 DEF Settled
<1>3. CASE ~s.paused /\ s.state = "Authenticated"
  <2>1. o.notice = IF on THEN "current" ELSE None
    BY <1>3 DEF Observe, Online, Says
  <2> QED
    BY <1>1, <1>3, <2>1 DEF Settled
<1>4. CASE ~s.paused /\ s.state # "Authenticated"
  <2>1. Broken(n) = n /\ lost.manual /\ lost.previous = s.state
    BY DEF Broken, Record
  <2>2. CASE lost.outage = None /\ s.state = "Failed" /\ n.previous \notin {None, "Failed"}
    <3>1. o.notice = IF on THEN "current" ELSE None
      BY <1>4, <2>2 DEF Observe, Says
    <3> QED
      BY <1>1, <2>2, <3>1 DEF Settled
  <2>3. CASE ~(lost.outage = None /\ s.state = "Failed" /\ n.previous \notin {None, "Failed"})
    <3>1. o = Poll(lost, on)
      BY <1>4, <2>3 DEF Observe
    <3>2. Poll(lost, on).record.manual /\ Poll(lost, on).record.previous = s.state
      <4> HIDE DEF lost
      <4>1. lost \in Record
        BY <2>1, <1>1 DEF Record, lost
      <4> QED
        BY <2>1, <4>1 DEF Poll, Says, Record
    <3> QED
      BY <1>1, <1>4, <3>1, <3>2 DEF Asked
  <2> QED
    BY <2>2, <2>3
<1> QED
  BY <1>2, <1>3, <1>4

\* What is said when the connection is back.
LEMMA WarningAnswered ==
  ASSUME NEW n \in Record, Sound(n), NEW s \in Snapshot, NEW on \in BOOLEAN,
         s.paused => s.state = "Idle"
  PROVE  LET o == Observe(n, s.state, s.paused, on)
         IN /\ n.outage # None /\ n.outage.warned /\ o.record.previous = "Authenticated" /\ on
                 => o.notice # None
            /\ o.notice = "recovered" => Overdue(n)
PROOF
<1> DEFINE lost == [Broken(n) EXCEPT !.previous = s.state]
           o == Observe(n, s.state, s.paused, on)
<1>1. s.state \in States /\ s.paused \in BOOLEAN /\ None \notin Notices /\ o.record.previous = s.state
  BY RecordTypes, NotificationsAssumption DEF Snapshot
<1>2. "recovered" # None /\ "current" # None
  BY <1>1 DEF Notices
<1>3. CASE s.state = "Authenticated"
  <2>1. ~s.paused
    BY <1>3
  <2> QED
    BY <1>2, <1>3, <2>1 DEF Observe, Says, Online, Sound
<1>4. CASE s.state # "Authenticated"
  <2>1. o.notice # "recovered"
    <3>1. Poll(lost, on).notice \in {None, "disconnected"}
      BY DEF Poll, Says
    <3> HIDE DEF lost
    <3> QED
      BY <1>2, <1>4, <3>1 DEF Observe, Says, lost
  <2> QED
    BY <1>1, <1>4, <2>1
<1> QED
  BY <1>3, <1>4

-----------------------------------------------------------------------------
(* Initial states, and the types.                                          *)

LEMMA Bounds ==
  /\ QueueCap \in Nat \ {0} /\ WireCap \in Nat \ {0} /\ MaxRequest \in Nat /\ MaxRelease \in Nat
  /\ None \notin 0..MaxRequest /\ Unavailable \notin Status
BY AgentAssumption, EventAssumption

LEMMA InitInv == Init => Inv
PROOF
<1> SUFFICES ASSUME Init PROVE Inv
  OBVIOUS
<1> USE Bounds, NotificationsAssumption DEF Init
<1>1. TypeOK
  <2>1. service \in Snapshot
    BY DEF Snapshot, States
  <2>2. wire \in Seq(Snapshot) /\ Len(wire) = 0
    OBVIOUS
  <2>3. queue \in Seq(Status \cup {Unavailable}) /\ Len(queue) = 0
    OBVIOUS
  <2>4. record \in Record
    BY DEF NothingSeen, Record
  <2>5. told \in [1..MaxRelease -> 0..2]
    OBVIOUS
  <2>6. Len(wire) <= WireCap /\ Len(queue) <= QueueCap /\ notified \in 0..MaxRelease
    BY <2>2, <2>3
  <2> QED
    BY ONLY Init, <2>1, <2>2, <2>3, <2>4, <2>5, <2>6 DEF Init, TypeOK
<1>2. Sound(record) /\ Rising /\ Newest /\ Owed /\ Announced
  BY DEF Sound, NothingSeen, Rising, QueueRises, QueueFirst, WireRises, QueueFits, WireFits, Fits,
     Later, Newest, Owed, Announced
<1> QED
  BY <1>1, <1>2 DEF Inv

\* A new snapshot of the service.
LEMMA PublishTypes ==
  ASSUME TypeOK, NEW s \in Snapshot, Publish(s)
  PROVE  /\ service' = s /\ wire' \in Seq(Snapshot) /\ Len(wire') <= WireCap
         /\ link' = link /\ (link # "up" => wire' = wire)
         /\ link = "up" => /\ Len(wire') = Len(wire) + 1 /\ wire'[Len(wire')] = s
                           /\ \A i \in 1..Len(wire) : wire'[i] = wire[i]
PROOF
<1>1. wire \in Seq(Snapshot) /\ Len(wire) <= WireCap
  BY DEF TypeOK
<1>2. Len(wire) \in Nat
  BY <1>1
<1>3. CASE link = "up"
  <2>1. wire' = Append(wire, s) /\ Len(wire) < WireCap
    BY <1>3 DEF Publish
  <2> QED
    BY <1>1, <1>2, <1>3, <2>1, AppendProperties, Bounds DEF Publish, feed
<1>4. CASE link # "up"
  BY <1>1, <1>4 DEF Publish, feed
<1> QED
  BY <1>3, <1>4

\* The service only moves on, and a pause is idle.
LEMMA ServiceMoves ==
  ASSUME TypeOK, Changes \/ Requested \/ Released, Fits(service)
  PROVE  \E s \in Snapshot :
           /\ Publish(s) /\ Later(service, s) /\ (s.paused => s.state = "Idle")
           /\ Requested => s.request = service.request + 1
PROOF
<1>1. service \in Snapshot /\ MaxRequest \in Nat /\ MaxRelease \in Nat
  BY Bounds DEF TypeOK
<1>2. service.request \in 0..MaxRequest /\ service.release \in 0..MaxRelease
  BY <1>1 DEF Snapshot
<1>3. CASE Requested
  <2>1. PICK state \in {"Idle", "Authenticating", "Failed"} :
          Publish([service EXCEPT !.state = state, !.paused = FALSE, !.request = @ + 1])
    BY <1>3 DEF Requested
  <2>2. service.request < MaxRequest
    BY <1>3 DEF Requested
  <2>3. [service EXCEPT !.state = state, !.paused = FALSE, !.request = @ + 1] \in Snapshot
    <3>1. service.request + 1 \in 0..MaxRequest /\ state \in States
      BY <1>1, <1>2, <2>2 DEF States
    <3> QED
      BY <1>1, <3>1 DEF Snapshot
  <2> WITNESS [service EXCEPT !.state = state, !.paused = FALSE, !.request = @ + 1] \in Snapshot
  <2> QED
    BY <1>1, <1>2, <2>1 DEF Later, Snapshot
<1>4. CASE Released /\ ~Requested
  <2>1. Publish([service EXCEPT !.release = @ + 1]) /\ service.release < MaxRelease
    BY <1>4 DEF Released
  <2>2. [service EXCEPT !.release = @ + 1] \in Snapshot
    BY <1>1, <1>2, <2>1 DEF Snapshot
  <2> WITNESS [service EXCEPT !.release = @ + 1] \in Snapshot
  <2> QED
    BY <1>1, <1>2, <1>4, <2>1 DEF Later, Snapshot, Fits
<1>5. CASE Changes /\ ~Requested
  <2>1. PICK state \in States, paused \in BOOLEAN :
          /\ paused => state = "Idle"
          /\ Publish([service EXCEPT !.state = state, !.paused = paused])
    BY <1>5 DEF Changes
  <2>2. [service EXCEPT !.state = state, !.paused = paused] \in Snapshot
    BY <1>1 DEF Snapshot
  <2> WITNESS [service EXCEPT !.state = state, !.paused = paused] \in Snapshot
  <2> QED
    BY <1>1, <1>2, <1>5, <2>1 DEF Later, Snapshot
<1> QED
  BY <1>3, <1>4, <1>5

\* An event is put in the queue: the oldest may go, the others move up.
LEMMA Posted ==
  ASSUME TypeOK, NEW e \in Status \cup {Unavailable}, Post(e)
  PROVE  /\ queue' \in Seq(Status \cup {Unavailable}) /\ Len(queue') <= QueueCap
         /\ \E d \in {0, 1} :
              /\ Len(queue') = Len(queue) - d + 1 /\ queue'[Len(queue')] = e
              /\ \A i \in 1..(Len(queue') - 1) : i + d \in DOMAIN queue /\ queue'[i] = queue[i + d]
PROOF
<1> DEFINE T == Status \cup {Unavailable}
           kept == IF Len(queue) = QueueCap THEN Tail(queue) ELSE queue
           d == IF Len(queue) = QueueCap THEN 1 ELSE 0
<1>1. queue \in Seq(T) /\ Len(queue) <= QueueCap /\ Len(queue) \in Nat /\ DOMAIN queue = 1..Len(queue)
  BY DEF TypeOK
<1>2. kept \in Seq(T) /\ Len(kept) = Len(queue) - d /\ \A i \in 1..Len(kept) : kept[i] = queue[i + d]
  <2>1. CASE Len(queue) = QueueCap
    <3>1. queue # <<>>
      BY <2>1, Bounds
    <3>2. Tail(queue) \in Seq(T) /\ Len(Tail(queue)) = Len(queue) - 1
          /\ \A i \in 1..Len(Tail(queue)) : Tail(queue)[i] = queue[i + 1]
      <4> HIDE DEF T
      <4> QED
        BY <1>1, <3>1, HeadTailProperties
    <3> HIDE DEF T
    <3> QED
      BY <2>1, <3>2
  <2>2. CASE Len(queue) # QueueCap
    <3> HIDE DEF T
    <3> QED
      BY <1>1, <2>2
  <2> QED
    BY <2>1, <2>2
<1>3. queue' = Append(kept, e)
  BY DEF Post
<1> HIDE DEF T, kept
<1>4. queue' \in Seq(T) /\ Len(queue') = Len(kept) + 1 /\ queue'[Len(kept) + 1] = e
      /\ \A i \in 1..Len(kept) : queue'[i] = kept[i]
  BY <1>2, <1>3, AppendProperties DEF T
<1> QED
  <2>1. Len(queue') <= QueueCap /\ d \in {0, 1} /\ Len(queue') = Len(queue) - d + 1 /\ Len(queue') - 1 = Len(kept)
    <3>1. Len(kept) = Len(queue) - d /\ Len(queue') = Len(kept) + 1
      BY <1>2, <1>4
    <3>2. Len(queue) \in Nat /\ Len(queue) <= QueueCap /\ QueueCap \in Nat \ {0}
      BY <1>1, Bounds
    <3>3. CASE Len(queue) = QueueCap
      <4>1. d = 1
        BY <3>3
      <4> QED
        BY ONLY <3>1, <3>2, <3>3, <4>1
    <3>4. CASE Len(queue) # QueueCap
      <4>1. d = 0
        BY <3>4
      <4> QED
        BY ONLY <3>1, <3>2, <3>4, <4>1
    <3> QED
      BY <3>3, <3>4
  <2>2. queue'[Len(queue')] = e
    BY <1>1, <1>2, <1>4
  <2>3. \A i \in 1..(Len(queue') - 1) : i + d \in DOMAIN queue /\ queue'[i] = queue[i + d]
    <3> HIDE DEF d
    <3> QED
      BY ONLY <1>1, <1>2, <1>4, <2>1
  <2> HIDE DEF d
  <2> QED
    BY <1>4, <2>1, <2>2, <2>3 DEF T

\* The first event that waits.
LEMMA Taken ==
  ASSUME TypeOK, queue # <<>>, queue' = Tail(queue)
  PROVE  /\ queue' \in Seq(Status \cup {Unavailable}) /\ Len(queue') = Len(queue) - 1
         /\ \A i \in DOMAIN queue' : i + 1 \in DOMAIN queue /\ queue'[i] = queue[i + 1]
         /\ 1 \in DOMAIN queue /\ Head(queue) = queue[1]
PROOF
<1> DEFINE T == Status \cup {Unavailable}
<1>1. queue \in Seq(T) /\ Len(queue) \in Nat /\ DOMAIN queue = 1..Len(queue)
  BY DEF TypeOK
<1> HIDE DEF T
<1>2. Len(queue) \in Nat \ {0}
  BY <1>1, EmptySeq
<1>3. queue' \in Seq(T) /\ Len(queue') = Len(queue) - 1 /\ \A i \in 1..Len(queue') : queue'[i] = queue[i + 1]
  BY <1>1, HeadTailProperties
<1>4. DOMAIN queue' = 1..Len(queue')
  BY <1>3, LenProperties
<1>5. \A i \in DOMAIN queue' : i + 1 \in DOMAIN queue
  BY <1>1, <1>2, <1>3, <1>4
<1> QED
  BY <1>1, <1>2, <1>3, <1>4, <1>5 DEF T

\* What an announcement notes.
LEMMA AnnouncementNotes ==
  ASSUME TypeOK, NEW s \in Snapshot, Announcement(s)
  PROVE  /\ notified' \in {notified, s.release} /\ notified' \in 0..MaxRelease
         /\ told' \in [1..MaxRelease -> 0..2]
         /\ Announced /\ notified <= s.release => Announced'
PROOF
<1>1. /\ MaxRelease \in Nat /\ notified \in 0..MaxRelease /\ told \in [1..MaxRelease -> 0..2]
      /\ s.release \in 0..MaxRelease
  BY Bounds DEF TypeOK, Snapshot
<1>2. CASE ~Announces(s)
  BY <1>1, <1>2 DEF Announcement, Announced
<1>3. CASE Announces(s)
  <2>1. PICK failed \in MayFail, lost \in MayFail :
          /\ told' = IF failed \/ (lost /\ told[s.release] = 0) THEN told
                     ELSE [told EXCEPT ![s.release] = IF @ < 2 THEN @ + 1 ELSE 2]
          /\ notified' = IF failed \/ lost THEN notified ELSE s.release
    BY <1>3 DEF Announcement
  <2>2. s.release \in 1..MaxRelease /\ notified # s.release
    BY <1>1, <1>3 DEF Announces
  <2>3. told[s.release] \in 0..2
    BY <1>1, <2>2
  <2>4. (IF told[s.release] < 2 THEN told[s.release] + 1 ELSE 2) \in 0..2
    BY <2>3
  <2>5. told' \in [1..MaxRelease -> 0..2]
    BY <1>1, <2>1, <2>4
  <2>6. ASSUME Announced, notified <= s.release PROVE Announced'
    <3>1. told[s.release] = 0
      BY <1>1, <2>2, <2>3, <2>6 DEF Announced
    <3>2. CASE failed \/ lost
      BY <2>1, <2>6, <3>1, <3>2 DEF Announced
    <3>3. CASE ~failed /\ ~lost
      <4>1. told' = [told EXCEPT ![s.release] = 1] /\ notified' = s.release
        BY <2>1, <3>1, <3>3
      <4> QED
        BY <1>1, <2>2, <2>6, <4>1 DEF Announced
    <3> QED
      BY <3>2, <3>3
  <2> QED
    BY <1>1, <2>1, <2>5, <2>6
<1> QED
  BY <1>2, <1>3

\* Inside an event is a status.
LEMMA Received ==
  ASSUME TypeOK, Receive, Head(queue) # Unavailable
  PROVE  /\ Head(queue).snapshot \in Snapshot /\ Head(queue).enabled \in BOOLEAN
         /\ Noted(Head(queue).snapshot) \in Record
PROOF
<1>1. Head(queue) \in Status
  BY Taken DEF TypeOK, Receive
<1>2. Head(queue).snapshot \in Snapshot /\ Head(queue).enabled \in BOOLEAN
  BY <1>1 DEF Status
<1>3. record \in Record
  BY DEF TypeOK
<1> QED
  BY <1>2, <1>3 DEF Noted, ServiceConnectRequested, ConnectRequested, Record, States

LEMMA ReceiveTypes == TypeOK /\ Receive => TypeOK'
PROOF
<1> SUFFICES ASSUME TypeOK, Receive PROVE TypeOK'
  OBVIOUS
<1>1. queue' \in Seq(Status \cup {Unavailable}) /\ Len(queue') <= QueueCap
  BY Taken, Bounds DEF Receive, TypeOK
<1>2. UNCHANGED <<service, enabled, link, wire>>
  BY DEF Receive, outside, feed
<1>3. CASE Head(queue) = Unavailable
  <2>1. seen' = None /\ connected' = FALSE /\ timer' = FALSE /\ notice' = None /\ owed' = FALSE
        /\ UNCHANGED <<record, wanted, notified, told>>
    BY <1>3 DEF Receive, Schedule
  <2> QED
    BY <1>1, <1>2, <2>1 DEF TypeOK
<1>4. CASE Head(queue) # Unavailable
  <2> DEFINE s == Head(queue).snapshot
             on == Head(queue).enabled
             o == Observe(Noted(s), s.state, s.paused, on)
  <2>1. /\ s \in Snapshot /\ on \in BOOLEAN /\ Noted(s) \in Record
        /\ s.state \in States /\ s.paused \in BOOLEAN /\ s.request \in 0..MaxRequest
    BY <1>4, Received DEF Snapshot
  <2>2. o.record \in Record /\ o.notice \in Notices \cup {None}
    BY <2>1, RecordTypes
  <2>3. /\ seen' = s.request /\ wanted' = on /\ connected' = TRUE
        /\ record' = o.record /\ notice' = o.notice
        /\ timer' = Schedule(o.record, on, TRUE)
        /\ Announcement(s)
        /\ owed' = (owed /\ ~Settled(s, o.notice, on))
    BY <1>4 DEF Receive
  <2>4. timer' \in BOOLEAN
    BY <2>1, <2>3 DEF Schedule, Deadline, Pending
  <2>5. notified' \in 0..MaxRelease /\ told' \in [1..MaxRelease -> 0..2]
    BY <2>1, <2>3, AnnouncementNotes
  <2>6. owed' \in BOOLEAN
    BY <2>3 DEF TypeOK
  <2> HIDE DEF o, s, on
  <2> QED
    BY <1>1, <1>2, <2>1, <2>2, <2>3, <2>4, <2>5, <2>6 DEF TypeOK
<1> QED
  BY <1>3, <1>4

LEMMA NextTypes == TypeOK /\ Fits(service) /\ [Next]_vars => TypeOK'
PROOF
<1> SUFFICES ASSUME TypeOK, Fits(service), [Next]_vars PROVE TypeOK'
  OBVIOUS
<1>1. CASE Changes \/ Requested \/ Released
  <2>1. PICK s \in Snapshot : Publish(s)
    BY <1>1, ServiceMoves
  <2>2. service' = s /\ wire' \in Seq(Snapshot) /\ Len(wire') <= WireCap
    BY <2>1, PublishTypes
  <2>3. UNCHANGED <<enabled, link, queue, agent, notified, told>>
    BY <2>1 DEF Publish
  <2>4. notice' = None /\ owed' \in BOOLEAN
    BY <1>1 DEF Changes, Requested, Released, TypeOK
  <2> QED
    BY <2>2, <2>3, <2>4 DEF TypeOK, agent
<1>2. CASE SetEnabled
  BY <1>2 DEF SetEnabled, TypeOK, feed, agent
<1>3. CASE Subscribe
  <2>1. wire' \in Seq(Snapshot) /\ Len(wire') <= WireCap
    BY <1>3, Bounds DEF Subscribe, TypeOK
  <2> QED
    BY <1>3, <2>1 DEF Subscribe, TypeOK, outside, agent
<1>4. CASE Hear
  <2>1. PICK failed \in MayFail : Post([snapshot |-> Head(wire), enabled |-> enabled /\ ~failed])
    BY <1>4 DEF Hear
  <2>2. Head(wire) \in Snapshot /\ wire' \in Seq(Snapshot) /\ Len(wire') <= WireCap
    <3>1. wire \in Seq(Snapshot) /\ wire # <<>> /\ wire' = Tail(wire) /\ Len(wire) \in Nat /\ Len(wire) <= WireCap
      BY <1>4 DEF Hear, TypeOK
    <3> QED
      BY <3>1, HeadTailProperties, Bounds
  <2>3. [snapshot |-> Head(wire), enabled |-> enabled /\ ~failed] \in Status
    BY <2>2 DEF Status
  <2>4. queue' \in Seq(Status \cup {Unavailable}) /\ Len(queue') <= QueueCap
    BY <2>1, <2>3, Posted
  <2> QED
    BY <1>4, <2>2, <2>4 DEF Hear, TypeOK, outside, agent
<1>5. CASE Breaks
  <2>1. queue' \in Seq(Status \cup {Unavailable}) /\ Len(queue') <= QueueCap
    BY <1>5, Posted DEF Breaks
  <2>2. wire' \in Seq(Snapshot) /\ Len(wire') <= WireCap
    BY <1>5, Bounds DEF Breaks
  <2> QED
    BY <1>5, <2>1, <2>2 DEF Breaks, TypeOK, outside, agent
<1>6. CASE Receive
  BY <1>6, ReceiveTypes
<1>7. CASE Timer
  <2>1. record \in Record /\ wanted \in BOOLEAN /\ connected \in BOOLEAN
    BY DEF TypeOK
  <2>2. Poll(record, wanted).record \in Record /\ Poll(record, wanted).notice \in Notices \cup {None}
    BY <2>1, NotificationsAssumption DEF Poll, Pending, Overdue, Says, Record, Outage, Notices
  <2>3. Schedule(Poll(record, wanted).record, wanted, connected) \in BOOLEAN
    BY <2>1 DEF Schedule, Deadline, Pending
  <2> QED
    BY <1>7, <2>2, <2>3 DEF Timer, TypeOK, outside, feed
<1>8. CASE Passes
  <2>1. Ages(record) \in Record
    <3>1. record \in Record /\ OutageDelay \in Nat
      BY NotificationsAssumption DEF TypeOK
    <3>2. CASE record.outage # None /\ record.outage.age < OutageDelay
      <4>1. record.outage \in Outage
        BY <3>1, <3>2 DEF Record
      <4>2. [record.outage EXCEPT !.age = @ + 1] \in Outage
        BY <3>1, <3>2, <4>1 DEF Outage
      <4> QED
        BY <3>1, <3>2, <4>2 DEF Ages, Record
    <3> QED
      BY <3>1, <3>2 DEF Ages
  <2> QED
    BY <1>8, <2>1 DEF Passes, TypeOK, outside, feed
<1>9. CASE Restart
  <2>1. wire' \in Seq(Snapshot) /\ Len(wire') <= WireCap
    BY <1>9, Bounds DEF Restart
  <2>2. queue' \in Seq(Status \cup {Unavailable}) /\ Len(queue') <= QueueCap
    BY <1>9, Bounds DEF Restart
  <2>3. record' \in Record
    BY <1>9 DEF Restart, NothingSeen, Record
  <2> QED
    BY <1>9, <2>1, <2>2, <2>3 DEF Restart, TypeOK, outside
<1>10. CASE UNCHANGED vars
  BY <1>10 DEF TypeOK, vars, outside, feed, agent, history
<1> QED
  BY <1>1, <1>2, <1>3, <1>4, <1>5, <1>6, <1>7, <1>8, <1>9, <1>10 DEF Next

-----------------------------------------------------------------------------
(* The order of the snapshots.                                             *)

LEMMA Elements ==
  ASSUME TypeOK
  PROVE  /\ Len(queue) \in Nat /\ DOMAIN queue = 1..Len(queue) /\ Len(wire) \in Nat /\ DOMAIN wire = 1..Len(wire)
         /\ \A i \in DOMAIN queue : Heard(i) => queue[i].snapshot \in Snapshot
         /\ \A j \in DOMAIN wire : wire[j] \in Snapshot
         /\ service \in Snapshot
PROOF
<1>1. queue \in Seq(Status \cup {Unavailable}) /\ wire \in Seq(Snapshot) /\ service \in Snapshot
  BY DEF TypeOK
<1>2. \A i \in DOMAIN queue : queue[i] \in Status \cup {Unavailable}
  BY <1>1
<1> QED
  BY <1>1, <1>2 DEF Heard, Status

LEMMA LaterTransitive ==
  ASSUME NEW s \in Snapshot, NEW t \in Snapshot, NEW u \in Snapshot, Later(s, t), Later(t, u)
  PROVE  Later(s, u)
<1> USE Bounds DEF Snapshot, Later
<1> QED
  OBVIOUS

LEMMA LaterReflexive == \A s \in Snapshot : Later(s, s)
BY Bounds DEF Snapshot, Later

\* What fits goes on to fit when the service moves on.
LEMMA FitsKept ==
  ASSUME TypeOK, TypeOK', Later(service, service'), UNCHANGED <<seen, notified>>,
         NEW s \in Snapshot, Fits(s)
  PROVE  Fits(s)'
PROOF
<1>1. service \in Snapshot /\ service' \in Snapshot
  BY DEF TypeOK
<1>2. Later(s, service')
  BY <1>1, LaterTransitive DEF Fits
<1> QED
  BY <1>2 DEF Fits, Later

LEMMA PublishRises ==
  ASSUME TypeOK, TypeOK', Rising, NEW s \in Snapshot, Publish(s), Later(service, s),
         s.paused => s.state = "Idle"
  PROVE  Rising'
PROOF
<1>1. /\ service' = s /\ link' = link /\ (link # "up" => wire' = wire)
      /\ link = "up" => /\ Len(wire') = Len(wire) + 1 /\ wire'[Len(wire')] = s
                        /\ \A i \in 1..Len(wire) : wire'[i] = wire[i]
      /\ UNCHANGED <<queue, seen, notified>>
  BY PublishTypes DEF Publish, agent
<1>2. /\ Len(wire) \in Nat /\ DOMAIN wire = 1..Len(wire) /\ DOMAIN wire' = 1..Len(wire') /\ Len(wire') \in Nat
      /\ \A i \in DOMAIN queue : Heard(i) => queue[i].snapshot \in Snapshot
      /\ \A j \in DOMAIN wire : wire[j] \in Snapshot
      /\ service \in Snapshot
  BY Elements DEF TypeOK
<1>3. \A j \in DOMAIN wire' : (j \in DOMAIN wire /\ wire'[j] = wire[j]) \/ (j = Len(wire') /\ wire'[j] = s)
  <2>1. CASE link = "up"
    <3> SUFFICES ASSUME NEW j \in DOMAIN wire'
                 PROVE  (j \in DOMAIN wire /\ wire'[j] = wire[j]) \/ (j = Len(wire') /\ wire'[j] = s)
      OBVIOUS
    <3>1. j \in 1..Len(wire) \/ j = Len(wire')
      BY <1>1, <1>2, <2>1
    <3> QED
      BY <1>1, <1>2, <2>1, <3>1
  <2>2. CASE link # "up"
    BY <1>1, <2>2
  <2> QED
    BY <2>1, <2>2
<1>4. \A i \in DOMAIN queue : Heard(i) => Later(queue[i].snapshot, s)
  BY <1>2, LaterTransitive DEF Rising, QueueFits, Fits
<1>5. \A j \in DOMAIN wire : Later(wire[j], s)
  BY <1>2, LaterTransitive DEF Rising, WireFits, Fits
<1>6. Later(s, s)
  BY LaterReflexive
<1>7. Fits(s)'
  <2>1. (seen # None => seen <= service.request) /\ notified <= service.release
    BY DEF Rising, Fits
  <2>2. (seen # None => seen \in Nat) /\ notified \in Nat
    BY Bounds DEF TypeOK
  <2>3. s.request \in Nat /\ s.release \in Nat /\ service.request \in Nat /\ service.release \in Nat
    BY <1>2, Bounds DEF Snapshot
  <2>4. (seen # None => seen <= s.request) /\ notified <= s.release
    BY <2>1, <2>2, <2>3 DEF Later
  <2> QED
    BY <1>1, <1>6, <2>4 DEF Fits, Later
<1>8. \A t \in Snapshot : Fits(t) => Fits(t)'
  BY <1>1, FitsKept
<1>9. QueueRises'
  BY <1>1 DEF Rising, QueueRises, Heard
<1>10. QueueFirst'
  BY <1>1, <1>3, <1>4 DEF Rising, QueueFirst, Heard
<1>11. WireRises'
  <2> SUFFICES ASSUME NEW i \in DOMAIN wire', NEW j \in DOMAIN wire', i <= j
               PROVE  Later(wire'[i], wire'[j])
    BY DEF WireRises, Later
  <2>1. CASE j \in DOMAIN wire /\ wire'[j] = wire[j]
    <3>1. i \in DOMAIN wire /\ wire'[i] = wire[i]
      <4>1. i \in DOMAIN wire
        BY <1>2, <2>1
      <4> QED
        BY <1>1, <1>2, <4>1
    <3> QED
      BY <2>1, <3>1 DEF Rising, WireRises
  <2>2. CASE wire'[j] = s
    BY <1>3, <1>5, <1>6, <2>2
  <2> QED
    BY <1>3, <2>1, <2>2
<1>12. QueueFits'
  BY <1>1, <1>2, <1>8 DEF Rising, QueueFits, Heard
<1>13. WireFits'
  <2> SUFFICES ASSUME NEW j \in DOMAIN wire' PROVE Fits(wire[j])'
    BY DEF WireFits
  <2>1. CASE j \in DOMAIN wire /\ wire'[j] = wire[j]
    <3>1. Fits(wire[j]) /\ wire[j] \in Snapshot
      BY <1>2, <2>1 DEF Rising, WireFits
    <3> QED
      BY <1>8, <2>1, <3>1 DEF Fits, Later
  <2>2. CASE wire'[j] = s
    BY <1>7, <2>2 DEF Fits, Later
  <2> QED
    BY <1>3, <2>1, <2>2
<1> QED
  BY <1>1, <1>7, <1>9, <1>10, <1>11, <1>12, <1>13 DEF Rising, Fits, Later

LEMMA SubscribeRises == TypeOK /\ TypeOK' /\ Rising /\ Subscribe => Rising'
PROOF
<1> SUFFICES ASSUME TypeOK, TypeOK', Rising, Subscribe PROVE Rising'
  OBVIOUS
<1>1. wire' = <<service>> /\ UNCHANGED <<service, queue, seen, notified>>
  BY DEF Subscribe, outside, agent
<1>2. DOMAIN wire' = {1} /\ wire'[1] = service
  BY <1>1
<1>3. Later(service, service)
  BY LaterReflexive, Elements
<1> QED
  BY <1>1, <1>2, <1>3 DEF Rising, QueueRises, QueueFirst, WireRises, QueueFits, WireFits, Fits, Heard, Later

LEMMA HearRises == TypeOK /\ TypeOK' /\ Rising /\ Hear => Rising'
PROOF
<1> SUFFICES ASSUME TypeOK, TypeOK', Rising, Hear PROVE Rising'
  OBVIOUS
<1>1. /\ wire \in Seq(Snapshot) /\ wire # <<>> /\ wire' = Tail(wire) /\ Len(wire) \in Nat
      /\ UNCHANGED <<service, seen, notified>>
  BY DEF Hear, TypeOK, outside, agent
<1>2. /\ Head(wire) = wire[1] /\ 1 \in DOMAIN wire /\ Head(wire) \in Snapshot
      /\ \A j \in DOMAIN wire' : j + 1 \in DOMAIN wire /\ 1 <= j + 1 /\ wire'[j] = wire[j + 1]
  BY <1>1, HeadTailProperties
<1>3. PICK failed \in MayFail : Post([snapshot |-> Head(wire), enabled |-> enabled /\ ~failed])
  BY DEF Hear
<1> DEFINE e == [snapshot |-> Head(wire), enabled |-> enabled /\ ~failed]
<1>4. e \in Status /\ e.snapshot = wire[1] /\ e # Unavailable
  <2>1. e \in Status
    BY <1>2 DEF Status
  <2> QED
    BY <1>2, <2>1, Bounds
<1>5. PICK d \in {0, 1} :
        /\ Len(queue') = Len(queue) - d + 1 /\ queue'[Len(queue')] = e
        /\ \A i \in 1..(Len(queue') - 1) : i + d \in DOMAIN queue /\ queue'[i] = queue[i + d]
  BY <1>3, <1>4, Posted
<1> HIDE DEF e
<1>6. DOMAIN queue' = 1..Len(queue') /\ Len(queue') \in Nat
  BY DEF TypeOK
<1>7. \A i \in DOMAIN queue' :
        \/ i \in 1..(Len(queue') - 1) /\ i + d \in DOMAIN queue /\ queue'[i] = queue[i + d]
        \/ i = Len(queue') /\ queue'[i] = e
  BY <1>5, <1>6
<1>8. \A j \in DOMAIN wire' : Later(wire[1], wire'[j])
  BY <1>2 DEF Rising, WireRises
<1>9. QueueRises'
  <2> SUFFICES ASSUME NEW i \in DOMAIN queue', NEW j \in DOMAIN queue', i <= j, Heard(i)', Heard(j)'
               PROVE  Later(queue'[i].snapshot, queue'[j].snapshot)
    BY DEF QueueRises, Later
  <2>1. CASE j = Len(queue') /\ queue'[j] = e /\ queue'[i] = e
    BY <1>2, <1>4, <2>1, LaterReflexive
  <2>2. CASE j = Len(queue') /\ queue'[j] = e /\ i + d \in DOMAIN queue /\ queue'[i] = queue[i + d]
    BY <1>2, <1>4, <2>2 DEF Rising, QueueFirst, Heard
  <2>3. CASE j \in 1..(Len(queue') - 1) /\ j + d \in DOMAIN queue /\ queue'[j] = queue[j + d]
    <3>1. i \in 1..(Len(queue') - 1) /\ i + d <= j + d
      BY <1>6, <2>3
    <3>2. i + d \in DOMAIN queue /\ queue'[i] = queue[i + d]
      BY <1>5, <3>1
    <3> QED
      BY <2>3, <3>1, <3>2 DEF Rising, QueueRises, Heard
  <2> QED
    BY <1>7, <2>1, <2>2, <2>3
<1>10. QueueFirst'
  <2> SUFFICES ASSUME NEW i \in DOMAIN queue', NEW j \in DOMAIN wire', Heard(i)'
               PROVE  Later(queue'[i].snapshot, wire'[j])
    BY DEF QueueFirst, Later
  <2>1. CASE queue'[i] = e
    BY <1>4, <1>8, <2>1
  <2>2. CASE i + d \in DOMAIN queue /\ queue'[i] = queue[i + d]
    BY <1>2, <2>2 DEF Rising, QueueFirst, Heard
  <2> QED
    BY <1>7, <2>1, <2>2
<1>11. WireRises'
  <2> SUFFICES ASSUME NEW i \in DOMAIN wire', NEW j \in DOMAIN wire', i <= j
               PROVE  Later(wire'[i], wire'[j])
    BY DEF WireRises, Later
  <2>1. i \in Nat /\ j \in Nat /\ i + 1 <= j + 1
    BY <1>1, <1>2 DEF TypeOK
  <2> QED
    BY <1>2, <2>1 DEF Rising, WireRises
<1>12. QueueFits'
  <2> SUFFICES ASSUME NEW i \in DOMAIN queue', Heard(i)' PROVE Fits(queue'[i].snapshot)
    BY <1>1 DEF QueueFits, Fits, Later
  <2>1. CASE queue'[i] = e
    BY <1>2, <1>4, <2>1 DEF Rising, WireFits
  <2>2. CASE i + d \in DOMAIN queue /\ queue'[i] = queue[i + d]
    BY <2>2 DEF Rising, QueueFits, Heard
  <2> QED
    BY <1>7, <2>1, <2>2
<1>13. WireFits' /\ Fits(service)'
  BY <1>1, <1>2 DEF Rising, WireFits, Fits, Later
<1> QED
  BY <1>9, <1>10, <1>11, <1>12, <1>13 DEF Rising

LEMMA BreaksRises == TypeOK /\ TypeOK' /\ Rising /\ Breaks => Rising'
PROOF
<1> SUFFICES ASSUME TypeOK, TypeOK', Rising, Breaks PROVE Rising'
  OBVIOUS
<1>1. wire' = <<>> /\ Post(Unavailable) /\ UNCHANGED <<service, seen, notified>>
  BY DEF Breaks, outside, agent
<1>2. PICK d \in {0, 1} :
        /\ Len(queue') = Len(queue) - d + 1 /\ queue'[Len(queue')] = Unavailable
        /\ \A i \in 1..(Len(queue') - 1) : i + d \in DOMAIN queue /\ queue'[i] = queue[i + d]
  BY <1>1, Posted
<1>3. DOMAIN queue' = 1..Len(queue') /\ Len(queue') \in Nat
  BY DEF TypeOK
<1>4. \A i \in DOMAIN queue' : Heard(i)' =>
        i \in 1..(Len(queue') - 1) /\ i + d \in DOMAIN queue /\ queue'[i] = queue[i + d]
  BY <1>2, <1>3 DEF Heard
<1>5. QueueRises'
  <2> SUFFICES ASSUME NEW i \in DOMAIN queue', NEW j \in DOMAIN queue', i <= j, Heard(i)', Heard(j)'
               PROVE  Later(queue'[i].snapshot, queue'[j].snapshot)
    BY DEF QueueRises, Later
  <2>1. i + d <= j + d
    BY <1>3
  <2> QED
    BY <1>4, <2>1 DEF Rising, QueueRises, Heard
<1>6. QueueFits'
  BY <1>1, <1>4 DEF Rising, QueueFits, Fits, Later, Heard
<1>7. DOMAIN wire' = {}
  BY <1>1
<1> QED
  BY <1>1, <1>5, <1>6, <1>7 DEF Rising, QueueFirst, WireRises, WireFits, Fits, Later

\* What comes after the snapshot that is handled fits what that has left behind.
LEMMA ReceiveRises == TypeOK /\ TypeOK' /\ Rising /\ Receive => Rising'
PROOF
<1> SUFFICES ASSUME TypeOK, TypeOK', Rising, Receive PROVE Rising'
  OBVIOUS
<1>1. queue # <<>> /\ queue' = Tail(queue) /\ UNCHANGED <<service, wire>>
  BY DEF Receive, outside, feed
<1>2. /\ \A i \in DOMAIN queue' : i + 1 \in DOMAIN queue /\ queue'[i] = queue[i + 1] /\ 1 <= i + 1
      /\ 1 \in DOMAIN queue /\ Head(queue) = queue[1] /\ DOMAIN queue' \subseteq Nat
  BY <1>1, Taken DEF TypeOK
<1>3. /\ \A i \in DOMAIN queue : Heard(i) => queue[i].snapshot \in Snapshot
      /\ \A j \in DOMAIN wire : wire[j] \in Snapshot
      /\ service \in Snapshot
  BY Elements
<1>4. QueueRises'
  <2> SUFFICES ASSUME NEW i \in DOMAIN queue', NEW j \in DOMAIN queue', i <= j, Heard(i)', Heard(j)'
               PROVE  Later(queue'[i].snapshot, queue'[j].snapshot)
    BY DEF QueueRises, Later
  <2>1. i + 1 <= j + 1
    BY <1>2
  <2> QED
    BY <1>2, <2>1 DEF Rising, QueueRises, Heard
<1>5. QueueFirst' /\ WireRises'
  BY <1>1, <1>2 DEF Rising, QueueFirst, WireRises, Heard, Later
<1>6. ASSUME NEW t \in Snapshot, Fits(t), Heard(1) => Later(queue[1].snapshot, t)
      PROVE  Fits(t)'
  <2>1. CASE Head(queue) = Unavailable
    <3>1. seen' = None /\ notified' = notified
      BY <2>1 DEF Receive
    <3> QED
      BY <1>1, <1>6, <3>1 DEF Fits, Later
  <2>2. CASE Head(queue) # Unavailable
    <3> DEFINE s == Head(queue).snapshot
    <3>1. s \in Snapshot /\ Later(s, t)
      BY <1>2, <1>6, <2>2, Received DEF Heard
    <3>2. seen' = s.request /\ Announcement(s)
      BY <2>2 DEF Receive
    <3>3. notified' \in {notified, s.release}
      BY <3>1, <3>2, AnnouncementNotes
    <3> HIDE DEF s
    <3> QED
      BY <1>1, <1>6, <3>1, <3>2, <3>3 DEF Fits, Later
  <2> QED
    BY <2>1, <2>2
<1>7. QueueFits'
  <2> SUFFICES ASSUME NEW i \in DOMAIN queue', Heard(i)' PROVE Fits(queue[i].snapshot)'
    BY DEF QueueFits
  <2>1. Heard(i + 1) /\ i + 1 \in DOMAIN queue /\ queue'[i] = queue[i + 1]
    BY <1>2 DEF Heard
  <2>2. PICK t \in Snapshot : t = queue[i + 1].snapshot
    BY <1>3, <2>1
  <2>3. Fits(t) /\ (Heard(1) => Later(queue[1].snapshot, t))
    BY <1>2, <2>1, <2>2 DEF Rising, QueueFits, QueueRises
  <2> QED
    BY <1>6, <2>1, <2>2, <2>3 DEF Fits, Later
<1>8. WireFits'
  <2> SUFFICES ASSUME NEW j \in DOMAIN wire PROVE Fits(wire[j])'
    BY <1>1 DEF WireFits
  <2>1. PICK t \in Snapshot : t = wire[j]
    BY <1>3
  <2>2. Fits(t) /\ (Heard(1) => Later(queue[1].snapshot, t))
    BY <1>2, <2>1 DEF Rising, WireFits, QueueFirst
  <2> QED
    BY <1>1, <1>6, <2>1, <2>2 DEF Fits, Later
<1>9. Fits(service)'
  <2>1. PICK t \in Snapshot : t = service
    BY <1>3
  <2>2. Fits(t) /\ (Heard(1) => Later(queue[1].snapshot, t))
    BY <1>2, <2>1 DEF Rising, QueueFits, Fits
  <2> QED
    BY <1>1, <1>6, <2>1, <2>2 DEF Fits, Later
<1> QED
  BY <1>4, <1>5, <1>7, <1>8, <1>9 DEF Rising

LEMMA NextRises == TypeOK /\ TypeOK' /\ Rising /\ [Next]_vars => Rising'
PROOF
<1> SUFFICES ASSUME TypeOK, TypeOK', Rising, [Next]_vars PROVE Rising'
  OBVIOUS
<1>1. CASE Changes \/ Requested \/ Released
  <2>1. PICK s \in Snapshot : Publish(s) /\ Later(service, s) /\ (s.paused => s.state = "Idle")
    BY <1>1, ServiceMoves DEF Rising
  <2> QED
    BY <2>1, PublishRises
<1>2. CASE SetEnabled \/ Timer \/ Passes \/ UNCHANGED vars
  <2>1. UNCHANGED <<service, wire, queue, seen, notified>>
    BY <1>2 DEF SetEnabled, Timer, Passes, vars, outside, feed, agent
  <2> QED
    BY <2>1 DEF Rising, QueueRises, QueueFirst, WireRises, QueueFits, WireFits, Fits, Heard, Later
<1>3. CASE Restart
  <2>1. DOMAIN queue' = {} /\ DOMAIN wire' = {} /\ seen' = None /\ UNCHANGED <<service, notified>>
    BY <1>3 DEF Restart, outside
  <2> QED
    BY <2>1 DEF Rising, QueueRises, QueueFirst, WireRises, QueueFits, WireFits, Fits, Later
<1> QED
  BY <1>1, <1>2, <1>3, SubscribeRises, HearRises, BreaksRises, ReceiveRises DEF Next

-----------------------------------------------------------------------------
(* The newest request.                                                     *)

LEMMA NextNewest ==
  TypeOK /\ TypeOK' /\ Rising /\ Newest /\ [Next]_vars => Newest'
PROOF
<1> SUFFICES ASSUME TypeOK, TypeOK', Rising, Newest, [Next]_vars PROVE Newest'
  OBVIOUS
<1>a. /\ queue \in Seq(Status \cup {Unavailable}) /\ wire \in Seq(Snapshot)
      /\ queue' \in Seq(Status \cup {Unavailable}) /\ wire' \in Seq(Snapshot)
      /\ Len(queue) \in Nat /\ Len(wire) \in Nat /\ Len(queue') \in Nat /\ Len(wire') \in Nat
      /\ link \in {"down", "up"} /\ Unavailable \notin Status
  BY Bounds DEF TypeOK
<1>1. CASE Changes \/ Requested \/ Released
  <2>1. PICK s \in Snapshot : Publish(s)
    BY <1>1, ServiceMoves DEF Rising
  <2>2. /\ service' = s /\ link' = link /\ (link # "up" => wire' = wire) /\ UNCHANGED <<queue, seen>>
        /\ link = "up" => Len(wire') = Len(wire) + 1 /\ wire'[Len(wire')] = s
    BY <2>1, PublishTypes DEF Publish, agent
  <2>3. CASE link = "up"
    <3>1. wire' # <<>>
      BY <1>a, <2>2, <2>3
    <3> QED
      BY <2>2, <2>3, <3>1 DEF Newest
  <2>4. CASE link = "down"
    BY <2>2, <2>4 DEF Newest, Heard
  <2> QED
    BY <1>a, <2>3, <2>4
<1>2. CASE SetEnabled \/ Timer \/ Passes \/ UNCHANGED vars
  <2>1. UNCHANGED <<service, link, wire, queue, seen>>
    BY <1>2 DEF SetEnabled, Timer, Passes, vars, outside, feed, agent
  <2> QED
    BY <2>1 DEF Newest, Heard
<1>3. CASE Subscribe
  BY <1>3 DEF Subscribe, Newest, outside
<1>4. CASE Hear
  <2>1. wire # <<>> /\ wire' = Tail(wire) /\ UNCHANGED <<service, link>>
    BY <1>4 DEF Hear, outside
  <2>2. link = "up" /\ wire[Len(wire)].request = service.request
    BY <1>a, <2>1 DEF Newest
  <2>3. Len(wire') = Len(wire) - 1 /\ \A j \in 1..Len(wire') : wire'[j] = wire[j + 1]
    BY <1>a, <2>1, HeadTailProperties
  <2>4. CASE wire' # <<>>
    <3>1. Len(wire') \in 1..Len(wire') /\ Len(wire') + 1 = Len(wire)
      BY <1>a, <2>3, <2>4, EmptySeq
    <3> QED
      BY <2>1, <2>2, <2>3, <2>4, <3>1 DEF Newest
  <2>5. CASE wire' = <<>>
    <3>1. Len(wire) = 1 /\ Head(wire) = wire[Len(wire)] /\ Head(wire) \in Snapshot
      <4>1. Len(wire') = 0
        BY <2>5
      <4>2. Len(wire) = 1
        BY <1>a, <2>3, <4>1
      <4> QED
        BY <1>a, <2>1, <4>2
    <3>2. PICK failed \in MayFail : Post([snapshot |-> Head(wire), enabled |-> enabled /\ ~failed])
      BY <1>4 DEF Hear
    <3>3. PICK e \in Status : Post(e) /\ e.snapshot = Head(wire)
      <4>1. [snapshot |-> Head(wire), enabled |-> enabled /\ ~failed] \in Status
        BY <3>1 DEF Status
      <4> QED
        BY <3>2, <4>1
    <3>4. queue'[Len(queue')] = e /\ e # Unavailable
      BY <1>a, <3>3, Posted
    <3>5. queue' # <<>>
      BY <3>3 DEF Post
    <3> QED
      BY <2>1, <2>2, <2>5, <3>1, <3>3, <3>4, <3>5 DEF Newest, Heard
  <2> QED
    BY <2>4, <2>5
<1>5. CASE Breaks
  <2>1. link' = "down" /\ wire' = <<>> /\ Post(Unavailable)
    BY <1>5 DEF Breaks
  <2>2. queue'[Len(queue')] = Unavailable
    BY <2>1, Posted
  <2>3. queue' # <<>>
    BY <2>1 DEF Post
  <2> QED
    BY <2>1, <2>2, <2>3 DEF Newest, Heard
<1>6. CASE Receive
  <2>1. queue # <<>> /\ queue' = Tail(queue) /\ UNCHANGED <<service, link, wire>>
    BY <1>6 DEF Receive, outside, feed
  <2>2. Len(queue') = Len(queue) - 1 /\ \A i \in 1..Len(queue') : queue'[i] = queue[i + 1]
    BY <1>a, <2>1, HeadTailProperties
  <2>3. CASE queue' # <<>>
    <3>1. Len(queue') \in 1..Len(queue') /\ Len(queue') + 1 = Len(queue)
      BY <1>a, <2>2, <2>3, EmptySeq
    <3>2. queue'[Len(queue')] = queue[Len(queue)]
      BY <2>2, <3>1
    <3> QED
      BY <2>1, <2>3, <3>2 DEF Newest, Heard
  <2>4. CASE queue' = <<>>
    <3>1. Len(queue) = 1 /\ Head(queue) = queue[Len(queue)]
      BY <1>a, <2>1, <2>2, <2>4
    <3>2. CASE link = "down"
      <4>1. Head(queue) = Unavailable
        BY <2>1, <3>1, <3>2 DEF Newest, Heard
      <4>2. seen' = None
        BY <1>6, <4>1 DEF Receive
      <4> QED
        BY <2>1, <2>4, <3>2, <4>2 DEF Newest
    <3>3. CASE link = "up" /\ wire # <<>>
      BY <2>1, <3>3 DEF Newest
    <3>4. CASE link = "up" /\ wire = <<>>
      <4>1. Head(queue) # Unavailable /\ Head(queue).snapshot.request = service.request
        BY <2>1, <3>1, <3>4 DEF Newest, Heard
      <4>2. seen' = Head(queue).snapshot.request
        BY <1>6, <4>1 DEF Receive
      <4> QED
        BY <2>1, <2>4, <3>4, <4>1, <4>2 DEF Newest
    <3> QED
      BY <1>a, <3>2, <3>3, <3>4
  <2> QED
    BY <2>3, <2>4
<1>7. CASE Restart
  BY <1>7 DEF Restart, Newest
<1> QED
  BY <1>1, <1>2, <1>3, <1>4, <1>5, <1>6, <1>7 DEF Next

-----------------------------------------------------------------------------
(* What the window thread decides.                                         *)

LEMMA NotedKeeps ==
  ASSUME TypeOK, NEW s \in Snapshot
  PROVE  /\ Noted(s).outage = record.outage
         /\ Sound(record) => Sound(Noted(s))
PROOF
<1>1. record \in Record
  BY DEF TypeOK
<1>2. Noted(s) \in {record, [record EXCEPT !.manual = TRUE],
                    [[record EXCEPT !.manual = TRUE] EXCEPT !.previous = "Authenticating"]}
  BY DEF Noted, ServiceConnectRequested, ConnectRequested
<1>3. None # "Authenticating"
  BY NotificationsAssumption DEF States
<1> QED
  <2>1. Noted(s) = record \/ Noted(s) = [record EXCEPT !.manual = TRUE]
        \/ Noted(s) = [[record EXCEPT !.manual = TRUE] EXCEPT !.previous = "Authenticating"]
    BY <1>2
  <2>2. Noted(s).outage = record.outage /\ Noted(s).previous \in {record.previous, "Authenticating"}
    BY <1>1, <2>1 DEF Record
  <2> QED
    BY <1>3, <2>2 DEF Sound, Overdue

LEMMA NextSound == TypeOK /\ Sound(record) /\ [Next]_vars => Sound(record)'
PROOF
<1> SUFFICES ASSUME TypeOK, Sound(record), [Next]_vars PROVE Sound(record)'
  OBVIOUS
<1>1. CASE record' = record
  BY <1>1 DEF Sound, Overdue
<1>2. CASE Receive /\ Head(queue) # Unavailable
  <2> DEFINE s == Head(queue).snapshot
             on == Head(queue).enabled
  <2>1. s \in Snapshot /\ on \in BOOLEAN /\ Noted(s) \in Record
    BY <1>2, Received
  <2>2. s.state \in States /\ s.paused \in BOOLEAN
    BY <2>1 DEF Snapshot
  <2>3. record' = Observe(Noted(s), s.state, s.paused, on).record
    BY <1>2 DEF Receive
  <2>4. Sound(Noted(s))
    BY <2>1, NotedKeeps
  <2> HIDE DEF s, on
  <2>5. Sound(Observe(Noted(s), s.state, s.paused, on).record)
    BY <2>1, <2>2, <2>4, RecordSound
  <2> QED
    BY <2>3, <2>5 DEF Sound, Overdue
<1>3. CASE Timer
  <2>1. record \in Record /\ record' = Poll(record, wanted).record /\ Overdue(record)
    BY <1>3 DEF Timer, TypeOK
  <2> QED
    BY <2>1 DEF Poll, Says, Sound, Overdue, Pending, Record, Outage
<1>4. CASE Passes
  <2>1. record \in Record /\ record' = Ages(record) /\ OutageDelay \in Nat
    BY <1>4, NotificationsAssumption DEF Passes, TypeOK
  <2> QED
    BY <2>1 DEF Ages, Sound, Overdue, Record, Outage
<1>5. CASE Restart
  BY <1>5 DEF Restart, NothingSeen, Sound
<1> QED
  BY <1>1, <1>2, <1>3, <1>4, <1>5
  DEF Next, Changes, Requested, Released, Publish, SetEnabled, Subscribe, Hear, Breaks, Receive, vars, agent

LEMMA NextOwed ==
  TypeOK /\ TypeOK' /\ Sound(record) /\ Rising /\ Owed /\ [Next]_vars => Owed'
PROOF
<1> SUFFICES ASSUME TypeOK, TypeOK', Sound(record), Rising, Owed, [Next]_vars, owed'
             PROVE  seen' # None /\ (Asked(record)' \/ seen' < service'.request)
  BY DEF Owed
<1>a. /\ (seen # None => seen \in Nat) /\ service.request \in Nat /\ service'.request \in Nat
      /\ (seen # None => seen <= service.request)
  BY Bounds DEF TypeOK, Snapshot, Rising, Fits
<1>1. CASE Changes \/ Requested \/ Released
  <2>1. PICK s \in Snapshot : /\ Publish(s) /\ Later(service, s)
                              /\ Requested => s.request = service.request + 1
    BY <1>1, ServiceMoves DEF Rising
  <2>2. service' = s /\ UNCHANGED <<record, seen>>
    BY <2>1 DEF Publish, agent
  <2>3. owed \/ (Requested /\ seen # None)
    BY <1>1 DEF Changes, Requested, Released
  <2> QED
    BY <1>a, <2>1, <2>2, <2>3 DEF Owed, Asked, Later
<1>2. CASE SetEnabled \/ Subscribe \/ Hear \/ Breaks \/ UNCHANGED vars
  BY <1>2 DEF SetEnabled, Subscribe, Hear, Breaks, vars, outside, agent, history, Owed, Asked
<1>3. CASE Receive
  <2>1. Head(queue) # Unavailable /\ queue # <<>> /\ queue' = Tail(queue) /\ service' = service
    BY <1>3 DEF Receive, outside
  <2> DEFINE s == Head(queue).snapshot
             on == Head(queue).enabled
             o == Observe(Noted(s), s.state, s.paused, on)
  <2>2. s \in Snapshot /\ on \in BOOLEAN /\ Noted(s) \in Record /\ s.request \in 0..MaxRequest
    BY <1>3, <2>1, Received DEF Snapshot
  <2>3. seen' = s.request /\ record' = o.record /\ owed /\ ~Settled(s, o.notice, on)
    BY <1>3, <2>1 DEF Receive
  <2>4. seen' # None /\ s.request \in Nat
    BY <2>2, <2>3, Bounds
  <2>5. Fits(s)
    BY <2>1, Taken DEF Rising, QueueFits, Heard
  <2>6. seen # None /\ seen <= s.request /\ s.request <= service.request
    BY <2>3, <2>5 DEF Owed, Fits, Later
  <2>7. CASE seen = s.request /\ ~Asked(record)
    BY <2>1, <2>3, <2>4, <2>7 DEF Owed
  <2>8. CASE seen # s.request \/ Asked(record)
    <3>1. /\ Noted(s).manual
          /\ s.state = "Authenticated" => Noted(s).previous \notin {None, "Authenticated"}
      <4>1. CASE seen # s.request
        <5>1. s.request # 0 /\ record \in Record /\ None \notin States
          BY <1>a, <2>4, <2>6, <4>1, NotificationsAssumption DEF TypeOK
        <5>2. Noted(s) = ServiceConnectRequested(record, s.state)
          BY <2>6, <4>1, <5>1 DEF Noted
        <5> QED
          BY <5>1, <5>2 DEF ServiceConnectRequested, ConnectRequested, Record, States
      <4>2. CASE seen = s.request
        BY <2>8, <4>2 DEF Noted, Asked
      <4> QED
        BY <4>1, <4>2
    <3> HIDE DEF s, on
    <3>2. Settled(s, o.notice, on) \/ Asked(o.record)
      BY <2>2, <3>1, RequestKept
    <3> QED
      BY <2>3, <2>4, <3>2 DEF Asked
  <2> QED
    BY <2>7, <2>8
<1>4. CASE Timer
  <2>1. record \in Record /\ record' = Poll(record, wanted).record /\ UNCHANGED <<service, seen, owed>>
    BY <1>4 DEF Timer, TypeOK, outside
  <2> QED
    BY <2>1 DEF Poll, Says, Asked, Owed, Record
<1>5. CASE Passes
  <2>1. record \in Record /\ record' = Ages(record) /\ UNCHANGED <<service, seen, owed>>
    BY <1>5 DEF Passes, TypeOK, outside
  <2> QED
    BY <2>1 DEF Ages, Asked, Owed, Record
<1>6. CASE Restart
  BY <1>6 DEF Restart
<1> QED
  BY <1>1, <1>2, <1>3, <1>4, <1>5, <1>6 DEF Next

LEMMA NextAnnounced == TypeOK /\ Rising /\ Announced /\ [Next]_vars => Announced'
PROOF
<1> SUFFICES ASSUME TypeOK, Rising, Announced, [Next]_vars PROVE Announced'
  OBVIOUS
<1>1. CASE UNCHANGED <<notified, told>>
  BY <1>1 DEF Announced
<1>2. CASE Receive /\ Head(queue) # Unavailable
  <2> DEFINE s == Head(queue).snapshot
  <2>1. s \in Snapshot /\ Announcement(s)
    BY <1>2, Received DEF Receive
  <2>2. notified <= s.release
    BY <1>2, Taken DEF Receive, Rising, QueueFits, Heard, Fits
  <2> QED
    BY <2>1, <2>2, AnnouncementNotes
<1> QED
  BY <1>1, <1>2
  DEF Next, Changes, Requested, Released, Publish, SetEnabled, Subscribe, Hear, Breaks, Receive, Timer,
      Passes, Restart, vars, history

LEMMA NextInv == Inv /\ [Next]_vars => Inv'
PROOF
<1> SUFFICES ASSUME Inv, [Next]_vars PROVE Inv'
  OBVIOUS
<1>1. TypeOK'
  BY NextTypes DEF Inv, Rising
<1> QED
  BY <1>1, NextRises, NextNewest, NextSound, NextOwed, NextAnnounced DEF Inv

LEMMA Invariance == Spec => []Inv
PROOF
<1>1. Init => Inv
  BY InitInv
<1>2. Inv /\ [Next]_vars => Inv'
  BY NextInv
<1> QED
  BY <1>1, <1>2, PTL DEF Spec

-----------------------------------------------------------------------------
(* The theorems.                                                           *)

\* While nothing waits to be heard of, the newest request was seen, so that a request
\* that is owed an answer is noted: the success that ends it will be shown
\* (Agent::receive and Notifications::observe).
THEOREM RequestsAreAnswered == Spec => []ConnectIsAnswered
PROOF
<1>1. Inv => ConnectIsAnswered
  <2> SUFFICES ASSUME Inv, owed, wire = <<>>, queue = <<>> PROVE record.previous # "Authenticated"
    BY DEF ConnectIsAnswered
  <2>1. seen # None /\ (Asked(record) \/ seen < service.request)
    BY DEF Inv, Owed
  <2>2. seen = service.request /\ seen \in Nat
    BY <2>1, Bounds DEF Inv, Newest, TypeOK
  <2> QED
    BY <2>1, <2>2 DEF Asked
<1> QED
  BY <1>1, Invariance, PTL

\* A release is announced while the file names an older one, and the file never goes back
\* (Agent::receive, notify_update and notification_state.json).
THEOREM ReleasesAreToldOnce == Spec => []ReleaseIsToldOnce
PROOF
<1>1. Inv => ReleaseIsToldOnce
  BY DEF Inv, Announced, ReleaseIsToldOnce
<1> QED
  BY <1>1, Invariance, PTL

\* The notice of a connection that is back matches the warning that was given or not
\* (Notifications::observe).
THEOREM WarningsAreFollowedUp == Spec => WarningIsFollowedUp
PROOF
<1> DEFINE Follows ==
      /\ record.outage # None /\ record.outage.warned /\ record'.previous = "Authenticated"
           => notice' # None \/ ~wanted'
      /\ notice' = "recovered" => Overdue(record)
<1>1. Inv /\ [Next]_vars => [Follows]_vars
  <2> SUFFICES ASSUME Inv, [Next]_vars, ~UNCHANGED vars PROVE Follows
    OBVIOUS
  <2>a. record \in Record /\ Sound(record) /\ "recovered" # None /\ "recovered" # "disconnected"
    BY NotificationsAssumption DEF Inv, TypeOK, Notices
  <2>1. CASE Receive /\ Head(queue) # Unavailable
    <3> DEFINE s == Head(queue).snapshot
               on == Head(queue).enabled
               o == Observe(Noted(s), s.state, s.paused, on)
    <3>1. s \in Snapshot /\ on \in BOOLEAN /\ Noted(s) \in Record
      BY <2>1, Received DEF Inv
    <3>2. wanted' = on /\ record' = o.record /\ notice' = o.notice
      BY <2>1 DEF Receive
    <3>3. s.paused => s.state = "Idle"
      BY <2>1, Taken DEF Receive, Inv, Rising, QueueFits, Heard, Fits
    <3>4. Noted(s).outage = record.outage /\ Sound(Noted(s))
      BY <2>a, <3>1, NotedKeeps DEF Inv
    <3> HIDE DEF s, on
    <3>5. /\ Noted(s).outage # None /\ Noted(s).outage.warned /\ o.record.previous = "Authenticated" /\ on
               => o.notice # None
          /\ o.notice = "recovered" => Overdue(Noted(s))
      BY <3>1, <3>3, <3>4, WarningAnswered
    <3> QED
      BY <3>2, <3>4, <3>5 DEF Overdue
  <2>2. CASE record' = record /\ notice' = None
    BY <2>a, <2>2 DEF Sound
  <2>3. CASE Timer
    <3>1. record'.previous = record.previous /\ notice' \in {None, "disconnected"}
      BY <2>a, <2>3 DEF Timer, Poll, Says, Record
    <3> QED
      BY <2>a, <3>1 DEF Sound
  <2>4. CASE Passes
    <3>1. record'.previous = record.previous /\ notice' = None
      BY <2>a, <2>4 DEF Passes, Ages, Record
    <3> QED
      BY <2>a, <3>1 DEF Sound
  <2>5. CASE Restart
    <3>1. record'.previous = None /\ notice' = None /\ None # "Authenticated"
      BY <2>5, NotificationsAssumption DEF Restart, NothingSeen, States
    <3> QED
      BY <2>a, <3>1
  <2> QED
    BY <2>1, <2>2, <2>3, <2>4, <2>5
    DEF Next, Changes, Requested, Released, Publish, SetEnabled, Subscribe, Hear, Breaks, Receive, agent
<1> QED
  BY <1>1, Invariance, PTL DEF Spec, WarningIsFollowedUp
=============================================================================
