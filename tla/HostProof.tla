------------------------------- MODULE HostProof -------------------------------
(***************************************************************************)
(* The safety of Host, for any number of processes and adapters.           *)
(*                                                                         *)
(* What the service and the direct command know of each other is the lock: *)
(* the invariant says who may do what without holding it.  The rest        *)
(* follows the direct command's threads and the events they have sent.     *)
(***************************************************************************)
EXTENDS Host, FiniteSetTheorems, SequenceTheorems, TLAPS

\* The service.  Only the holder of the lock is past it, only a running engine has a
\* capture, and on Unix a name that is answered belongs to a server that is not dropped.
Locked == {"locked", "built", "stoppable", "serving", "running", "ended", "unserved"}

Holding == \A p \in Processes : phase[p] \in Locked => holder = p
Capturing == \A p \in Processes : capture[p] => phase[p] = "running"
Answering ==
  platform = "unix" => \A p \in Processes : endpoint = p => phase[p] \in {"serving", "running", "ended"}

\* The direct command.
Commanding == pc \notin {"start", "done"} => holder = Self

InAdapter == {"loop", "wait", "close", "join probe", "join capture"}

Indexed ==
  /\ pc = "start" => index = 0
  /\ pc \in InAdapter => index \in 1..adapters
  /\ pc = "open" => index \in 1..adapters + 1

\* A thread is alive only while its adapter is tried, a check until it is joined.
Joined ==
  \A w \in D!Workers : D!Alive(w) =>
    w[2] = index /\ pc \in InAdapter /\ (w[1] = "probe" => pc # "join capture")

\* No thread exists for an adapter that is still to come.
Unspawned ==
  \A w \in D!Workers : worker[w].at # "none" => w[2] <= index /\ (pc = "open" => w[2] < index)

\* A check is started by a success, and a success comes from a pinned authenticator.
Pinned == success => peer # NoPeer
Checked ==
  \A g \in D!Generations : g = index /\ worker[<<"probe", g>>].at # "none" => success

\* The answer of a check is sent once, by its own thread, as the last thing it does.
Sending ==
  \A w \in D!Workers : worker[w].at = "deliver" =>
    /\ worker[w].event \in D!Event
    /\ worker[w].event.type = "connectivity" => w = <<"probe", worker[w].event.gen>>
Sent ==
  \A i \in DOMAIN queue :
    queue[i].type = "connectivity" => worker[<<"probe", queue[i].gen>>].at = "done"

\* The answer that was believed has left its thread behind.
Confirmed ==
  result = "authenticated" => success /\ peer # NoPeer /\ worker[D!Checker].at = "done"

Decided == result # None => pc \in {"close", "join probe", "join capture", "release"}

\* An event was handled under an interrupt: the next wait does not come.
Heeded == late <= 1 /\ (late = 1 => pc # "wait" /\ (interrupt \/ result # None))

ServiceInv == S!TypeOK /\ Holding /\ Capturing /\ Answering
ThreadsInv == Indexed /\ Joined /\ Unspawned /\ Pinned /\ Checked /\ Sending /\ Sent
DirectInv == D!TypeOK /\ Commanding /\ ThreadsInv /\ Decided /\ Confirmed /\ Heeded

Inv == holder \in Processes \cup {Self, NoOne} /\ ServiceInv /\ DirectInv

-----------------------------------------------------------------------------
(* The initial states.                                                     *)

LEMMA Parameters ==
  /\ Self \notin Processes /\ Self # NoOne /\ NoOne \notin Processes /\ Stale \notin Processes
  /\ NoOne # Stale
BY HostAssumption DEF S!ServiceParameters, D!DirectParameters

LEMMA InitInv == Init => Inv
PROOF
<1> SUFFICES ASSUME Init PROVE Inv
  OBVIOUS
<1> USE Parameters, HostAssumption DEF Init
<1>1. ServiceInv
  <2>1. S!TypeOK
    BY DEF S!Init, S!TypeOK, S!Phases
  <2>2. Holding /\ Capturing /\ Answering
    BY DEF S!Init, Holding, Capturing, Answering, Locked
  <2> QED
    BY <2>1, <2>2 DEF ServiceInv
<1>2. DirectInv
  <2>a. MaxAdapters \in Nat /\ QueueCap \in Nat
    BY DEF D!DirectParameters
  <2>1. D!Idle \in D!Threads
    BY DEF D!Idle, D!Threads
  <2>2. worker \in [D!Workers -> D!Threads] /\ queue \in Seq(D!Event) /\ Len(queue) = 0
    BY <2>1 DEF D!Init
  <2>3. D!TypeOK
    <3>1. index \in 0..MaxAdapters + 1 /\ Len(queue) <= QueueCap /\ late \in 0..2
      BY <2>a, <2>2 DEF D!Init
    <3> QED
      BY <2>2, <3>1 DEF D!Init, D!TypeOK
  <2>4. ThreadsInv
    BY <2>3 DEF D!Init, D!TypeOK, ThreadsInv, Indexed, InAdapter, Joined, Unspawned, Pinned,
       Checked, Sending, Sent, D!Idle, D!Alive, D!Workers, D!Generations, D!DirectParameters
  <2> QED
    BY <2>3, <2>4 DEF D!Init, DirectInv, Commanding, Decided, D!DirectParameters, D!Results,
       Confirmed, Heeded
<1> QED
  BY <1>1, <1>2 DEF Inv

-----------------------------------------------------------------------------
(* Steps of the service.                                                   *)

LEMMA ServiceTypes == ServiceInv /\ S!Next => S!TypeOK'
PROOF
<1> SUFFICES ASSUME ServiceInv, NEW p \in Processes,
                    \/ S!Start(p) \/ S!Step(p) \/ S!Run(p) \/ S!Control(p) \/ S!Handler(p)
                    \/ S!Signal(p) \/ S!Crash(p)
             PROVE  S!TypeOK'
  BY DEF S!Next
<1> USE DEF ServiceInv, S!TypeOK, S!Phases, S!Goes, S!Reports
<1>g. S!Gone(p) /\ UNCHANGED platform => S!TypeOK'
  BY DEF S!Gone
<1>1. CASE S!Start(p)
  BY <1>1 DEF S!Start
<1>2. CASE S!Build(p) \/ S!Register(p) \/ S!Serve(p) \/ S!Ready(p)
  BY <1>2 DEF S!Build, S!Register, S!Serve, S!Ready
<1>3. CASE S!Run(p) \/ S!Leave(p)
  BY <1>3 DEF S!Run, S!Leave
<1>4. CASE S!DropServer(p) \/ S!Unlock(p) \/ S!Stopped(p)
  BY <1>4 DEF S!DropServer, S!Unlock, S!Stopped
<1>5. CASE S!Exit(p) \/ S!Crash(p)
  BY <1>5, <1>g DEF S!Exit, S!Crash
<1>6. CASE S!Control(p) \/ S!Handler(p)
  BY <1>6 DEF S!Control, S!Handler, S!ControlReports, S!ControlNotifies
<1>7. CASE S!Signal(p)
  BY <1>7, <1>g DEF S!Signal
<1> QED
  BY <1>1, <1>2, <1>3, <1>4, <1>5, <1>6, <1>7 DEF S!Step

\* No step of a service touches a lock that is not its own.
LEMMA ServiceSteps ==
  ASSUME ServiceInv, S!Next
  PROVE  /\ ServiceInv'
         /\ holder' \in Processes \cup {holder, NoOne}
         /\ holder = Self => holder' = Self
PROOF
<1> DEFINE Kept ==
      /\ Holding' /\ Capturing' /\ Answering'
      /\ holder' \in Processes \cup {holder, NoOne} /\ (holder = Self => holder' = Self)
<1> SUFFICES ASSUME NEW p \in Processes,
                    \/ S!Start(p) \/ S!Step(p) \/ S!Run(p) \/ S!Control(p) \/ S!Handler(p)
                    \/ S!Signal(p) \/ S!Crash(p)
             PROVE  Kept
  BY ServiceTypes DEF S!Next, ServiceInv
<1> USE Parameters DEF ServiceInv, S!TypeOK, S!Phases, Holding, Capturing, Answering, Locked,
        S!Goes, S!Managed
<1>g. S!Gone(p) /\ UNCHANGED platform /\ phase[p] # "off" => Kept
  <2> SUFFICES ASSUME S!Gone(p), UNCHANGED platform, phase[p] # "off" PROVE Kept
    OBVIOUS
  <2>1. Holding' /\ Capturing'
    BY DEF S!Gone, S!Released
  <2>2. Answering'
    BY DEF S!Gone
  <2>3. holder' \in Processes \cup {holder, NoOne} /\ (holder = Self => holder' = Self)
    BY DEF S!Gone, S!Released
  <2> QED
    BY <2>1, <2>2, <2>3
<1>1. CASE S!Start(p)
  <2>1. CASE S!Acquired(p)
    <3>1. \A q \in Processes : phase[q] \notin Locked
      BY <2>1 DEF S!Acquired
    <3>2. phase' = [phase EXCEPT ![p] = "locked"] /\ holder' = p
      BY <1>1, <2>1 DEF S!Start, S!Acquired, S!Refused
    <3>3. UNCHANGED <<platform, capture, endpoint>> /\ holder # Self
      BY <1>1, <2>1 DEF S!Start, S!Acquired
    <3> QED
      BY <3>1, <3>2, <3>3
  <2>2. CASE ~S!Acquired(p)
    BY <1>1, <2>2 DEF S!Start, S!Refused
  <2> QED
    BY <2>1, <2>2
<1>2. CASE S!Build(p) \/ S!Register(p) \/ S!Ready(p)
  <2>1. CASE S!Build(p)
    BY <2>1 DEF S!Build
  <2>2. CASE S!Register(p)
    BY <2>2 DEF S!Register
  <2>3. CASE S!Ready(p)
    BY <2>3 DEF S!Ready
  <2> QED
    BY <1>2, <2>1, <2>2, <2>3
<1>3. CASE S!Serve(p)
  <2>1. Holding' /\ Capturing' /\ holder' = holder
    BY <1>3 DEF S!Serve
  <2>2. Answering'
    <3>1. CASE endpoint' = p
      BY <1>3, <3>1 DEF S!Serve
    <3>2. CASE endpoint' # p
      <4>1. endpoint' \in {endpoint, Stale} /\ UNCHANGED platform
        BY <1>3, <3>2 DEF S!Serve
      <4>2. phase' = [phase EXCEPT ![p] = "unserved"] /\ phase[p] = "stoppable"
        BY <1>3, <3>2 DEF S!Serve
      <4>3. \A q \in Processes : endpoint' = q => q # p /\ endpoint = q /\ phase'[q] = phase[q]
        BY <3>2, <4>1, <4>2
      <4> QED
        BY <4>1, <4>3
    <3> QED
      BY <3>1, <3>2
  <2> QED
    BY <2>1, <2>2
<1>4. CASE S!Run(p)
  BY <1>4 DEF S!Run
<1>5. CASE S!Leave(p)
  BY <1>5 DEF S!Leave
<1>6. CASE S!DropServer(p)
  BY <1>6 DEF S!DropServer
<1>7. CASE S!Unlock(p)
  BY <1>7 DEF S!Unlock, S!Released
<1>8. CASE S!Stopped(p)
  BY <1>8 DEF S!Stopped
<1>9. CASE S!Exit(p) \/ S!Crash(p)
  BY <1>9, <1>g DEF S!Exit, S!Crash
<1>10. CASE S!Control(p) \/ S!Handler(p)
  <2>1. UNCHANGED <<platform, phase, capture, endpoint, holder>>
    BY <1>10 DEF S!Control, S!Handler, S!ControlReports, S!ControlNotifies
  <2> QED
    BY <2>1
<1>11. CASE S!Signal(p)
  BY <1>11, <1>g DEF S!Signal, S!Unregistered
<1> QED
  BY <1>1, <1>2, <1>3, <1>4, <1>5, <1>6, <1>7, <1>8, <1>9, <1>10, <1>11 DEF S!Step

-----------------------------------------------------------------------------
(* Steps of the direct command: types.                                     *)

LEMMA DirectConstants ==
  /\ MaxAdapters \in Nat /\ NoPeer \notin Servers /\ Frames \subseteq D!Frame
  /\ QueueCap \in Nat \ {0} /\ None \notin D!Results
BY HostAssumption DEF D!DirectParameters

LEMMA WorkerTypes ==
  ASSUME worker \in [D!Workers -> D!Threads], NEW w \in D!Workers
  PROVE  /\ D!Spawned(w) \in [D!Workers -> D!Threads]
         /\ [worker EXCEPT ![w] = [D!Idle EXCEPT !.at = "done"]] \in [D!Workers -> D!Threads]
         /\ \A b \in BOOLEAN : [worker EXCEPT ![w].stop = b] \in [D!Workers -> D!Threads]
         /\ \A e \in D!Event : [worker EXCEPT ![w].at = "deliver", ![w].event = e] \in [D!Workers -> D!Threads]
         /\ [worker EXCEPT ![w].at = "busy", ![w].event = None] \in [D!Workers -> D!Threads]
PROOF
<1>1. D!Spawned(w) \in [D!Workers -> D!Threads]
  BY DEF D!Spawned, D!Idle, D!Threads
<1>2. [worker EXCEPT ![w] = [D!Idle EXCEPT !.at = "done"]] \in [D!Workers -> D!Threads]
  BY DEF D!Idle, D!Threads
<1>3. ASSUME NEW b \in BOOLEAN PROVE [worker EXCEPT ![w].stop = b] \in [D!Workers -> D!Threads]
  BY DEF D!Threads
<1>4. ASSUME NEW e \in D!Event
      PROVE  [worker EXCEPT ![w].at = "deliver", ![w].event = e] \in [D!Workers -> D!Threads]
  BY DEF D!Threads
<1>5. [worker EXCEPT ![w].at = "busy", ![w].event = None] \in [D!Workers -> D!Threads]
  BY DEF D!Threads
<1> QED
  BY <1>1, <1>2, <1>3, <1>4, <1>5

\* The channel keeps what is in it in order, and never more than its capacity.
LEMMA QueueTypes ==
  ASSUME queue \in Seq(D!Event), Len(queue) <= QueueCap
  PROVE  /\ \A e \in D!Event : /\ D!TrySend(e) \in Seq(D!Event) /\ Len(D!TrySend(e)) <= QueueCap
                               /\ Len(queue) < QueueCap =>
                                    Append(queue, e) \in Seq(D!Event) /\ Len(Append(queue, e)) <= QueueCap
         /\ queue # <<>> => /\ Head(queue) \in D!Event
                            /\ Tail(queue) \in Seq(D!Event) /\ Len(Tail(queue)) <= QueueCap
BY DirectConstants DEF D!TrySend

LEMMA EventTypes ==
  /\ [type |-> "stop"] \in D!Event
  /\ \A g \in D!Generations :
       /\ [type |-> "capture_error", gen |-> g] \in D!Event
       /\ \A f \in Frames : [type |-> "packet", gen |-> g, frame |-> f] \in D!Event
       /\ \A up \in BOOLEAN : [type |-> "connectivity", gen |-> g, up |-> up] \in D!Event
BY DEF D!Event

\* receive() of the shared decisions: a success comes from a pinned peer, and the peer
\* stays one.
LEMMA ExchangeFacts ==
  ASSUME peer \in Servers \cup {NoPeer}, NEW f \in D!Frame, Pinned
  PROVE  /\ D!PeerAfter(peer, f, success) \in Servers \cup {NoPeer}
         /\ success => D!PeerAfter(peer, f, success) # NoPeer
         /\ D!Receive(peer, f, success) = "success" => D!PeerAfter(peer, f, success) # NoPeer
BY DirectConstants DEF Pinned, D!PeerAfter, D!Receive, D!Admitted, D!IsRequest, D!Answer, D!Frame, D!FrameKinds

LEMMA PacketFields ==
  ASSUME NEW e \in D!Event
  PROVE  /\ e.type = "packet" => e.frame \in D!Frame
         /\ e.type \in {"connectivity", "packet", "capture_error"} => e.gen \in D!Generations
BY DirectConstants DEF D!Event

\* The adapter that is tried has a reader and may have a check.
LEMMA OwnWorkers ==
  ASSUME D!TypeOK, Indexed, pc \in InAdapter \/ (pc = "open" /\ index <= adapters)
  PROVE  /\ index \in D!Generations
         /\ D!Session \in D!Workers /\ D!Checker \in D!Workers
PROOF
<1>1. index \in D!Generations
  <2>1. index \in 1..adapters /\ adapters \in 0..MaxAdapters
    <3>1. adapters \in 0..MaxAdapters
      BY DEF D!TypeOK
    <3> QED
      BY <3>1, DirectConstants DEF Indexed
  <2> QED
    BY <2>1, DirectConstants DEF D!Generations
<1> QED
  BY <1>1 DEF D!Session, D!Checker, D!Workers

LEMMA WorkerParts ==
  \A w \in D!Workers :
    w[1] \in {"capture", "probe"} /\ w[2] \in D!Generations /\ w[2] \in Nat /\ w[2] > 0
BY DirectConstants DEF D!Workers, D!Generations

LEMMA WorkerPairs ==
  /\ \A w \in D!Workers : w = <<w[1], w[2]>>
  /\ \A g \in D!Generations : <<"probe", g>> \in D!Workers /\ <<"capture", g>> \in D!Workers
BY DEF D!Workers

\* Receiving a frame or pinging: the thread returns or has something to deliver, and a
\* check has its own answer.
LEMMA WorkOutcomes ==
  ASSUME NEW w \in D!Workers, D!Work(w)
  PROVE  \/ D!Deliver(w)
         \/ /\ queue' = queue /\ worker[w].at = "busy"
            /\ \/ D!Returns(w)
               \/ \E e \in D!Event :
                    D!Delivers(w, e) /\ (e.type = "connectivity" => w = <<"probe", e.gen>>)
PROOF
<1>1. CASE w[1] = "capture" /\ D!Hear(w[2])
  <2>1. w = <<"capture", w[2]>> /\ w[2] \in D!Generations
    BY <1>1, WorkerPairs, WorkerParts
  <2> DEFINE error == [type |-> "capture_error", gen |-> w[2]]
             packet(f) == [type |-> "packet", gen |-> w[2], frame |-> f]
  <2>2. error \in D!Event /\ error.type # "connectivity"
    BY <2>1, EventTypes
  <2>3. \A f \in Frames : packet(f) \in D!Event /\ packet(f).type # "connectivity"
    BY <2>1, EventTypes
  <2>4. /\ queue' = queue /\ worker[w].at = "busy"
        /\ D!Returns(w) \/ D!Delivers(w, error) \/ \E f \in Frames : D!Delivers(w, packet(f))
    BY <1>1, <2>1 DEF D!Hear
  <2> HIDE DEF error, packet
  <2> QED
    BY <2>2, <2>3, <2>4
<1>2. CASE w[1] = "probe" /\ D!Ping(w[2])
  <2>1. w = <<"probe", w[2]>> /\ w[2] \in D!Generations
    BY <1>2, WorkerPairs, WorkerParts
  <2> DEFINE answer(up) == [type |-> "connectivity", gen |-> w[2], up |-> up]
  <2>2. \A up \in BOOLEAN : answer(up) \in D!Event /\ answer(up).gen = w[2]
    BY <2>1, EventTypes
  <2>3. /\ queue' = queue /\ worker[w].at = "busy"
        /\ D!Returns(w) \/ \E up \in BOOLEAN : D!Delivers(w, answer(up))
    BY <1>2, <2>1 DEF D!Ping, D!Answers
  <2> HIDE DEF answer
  <2> QED
    BY <2>1, <2>2, <2>3
<1> QED
  BY <1>1, <1>2 DEF D!Work

LEMMA WorkTypes ==
  ASSUME D!TypeOK, Sending, NEW w \in D!Workers, D!Work(w)
  PROVE  D!TypeOK'
PROOF
<1>1. UNCHANGED <<pc, mode, adapters, index, interrupt, expired, peer, success, result, late>>
  BY DEF D!Work, D!Deliver, D!Hear, D!Ping
<1>2. worker \in [D!Workers -> D!Threads]
  BY DEF D!TypeOK
<1>3. queue' \in Seq(D!Event) /\ Len(queue') <= QueueCap
  <2>1. CASE D!Deliver(w)
    BY <2>1, QueueTypes DEF D!Deliver, Sending, D!TypeOK
  <2>2. CASE ~D!Deliver(w)
    BY <2>2, WorkOutcomes DEF D!TypeOK
  <2> QED
    BY <2>1, <2>2
<1>4. worker' \in [D!Workers -> D!Threads]
  <2>1. CASE D!Deliver(w)
    <3>1. \/ worker' = [worker EXCEPT ![w] = [D!Idle EXCEPT !.at = "done"]]
          \/ worker' = [worker EXCEPT ![w].at = "busy", ![w].event = None]
      BY <2>1 DEF D!Deliver, D!Delivered, D!Returns
    <3> QED
      BY <1>2, <3>1, WorkerTypes
  <2>2. CASE D!Returns(w)
    BY <1>2, <2>2, WorkerTypes DEF D!Returns
  <2>3. ASSUME NEW e \in D!Event, D!Delivers(w, e) PROVE worker' \in [D!Workers -> D!Threads]
    BY <1>2, <2>3, WorkerTypes DEF D!Delivers
  <2> QED
    BY <2>1, <2>2, <2>3, WorkOutcomes
<1> QED
  BY <1>1, <1>3, <1>4 DEF D!TypeOK

\* Taking an event: what it leaves of the exchange and of the threads.
LEMMA TakeTypes ==
  ASSUME D!TypeOK, Indexed, Pinned, D!Take
  PROVE  D!TypeOK'
PROOF
<1> DEFINE e == Head(queue)
<1>1. e \in D!Event /\ queue' \in Seq(D!Event) /\ Len(queue') <= QueueCap
  BY QueueTypes DEF D!Take, D!TypeOK
<1>2. D!Checker \in D!Workers
  BY OwnWorkers DEF D!Take, InAdapter
<1>3. /\ peer' \in Servers \cup {NoPeer} /\ success' \in BOOLEAN
      /\ worker' \in [D!Workers -> D!Threads]
      /\ pc' \in {"loop", "close"} /\ result' \in D!Results \cup {None}
  <2> USE DEF D!TypeOK, D!GoesOn, D!Finishes, D!Results
  <2>1. CASE D!HandlePacket(e)
    <3>1. e.frame \in D!Frame
      BY <2>1, <1>1, PacketFields DEF D!HandlePacket
    <3>2. CASE D!Exchange(e.frame)
      BY <3>1, <3>2, <1>2, ExchangeFacts, WorkerTypes DEF D!Exchange
    <3>3. CASE ~D!Exchange(e.frame)
      BY <3>3, <2>1 DEF D!HandlePacket
    <3> QED
      BY <3>2, <3>3
  <2>2. CASE D!HandleConnectivity(e) \/ D!HandleError(e) \/ D!HandleStop(e) \/ D!HandleOther(e)
    BY <2>2 DEF D!HandleConnectivity, D!HandleError, D!HandleStop, D!HandleOther
  <2> QED
    BY <2>1, <2>2 DEF D!Take
<1>4. late' \in 0..2 /\ UNCHANGED <<mode, adapters, index, interrupt, expired>>
  BY DEF D!Take, D!TypeOK
<1> QED
  BY <1>1, <1>3, <1>4 DEF D!TypeOK

LEMMA DirectTypes == DirectInv /\ D!Next => D!TypeOK'
PROOF
<1> SUFFICES ASSUME DirectInv, D!Next PROVE D!TypeOK'
  OBVIOUS
<1> USE DirectConstants DEF DirectInv, ThreadsInv
<1>1. CASE D!Begin \/ D!NoneLeft \/ D!DirectLogoff
  <2>1. index' \in 0..MaxAdapters + 1
    <3>1. index' = index \/ (index' = 1 /\ adapters > 0)
      BY <1>1 DEF D!Begin, D!NoneLeft, D!DirectLogoff
    <3>2. index \in 0..MaxAdapters + 1 /\ adapters \in 0..MaxAdapters
      BY DEF D!TypeOK
    <3> QED
      BY <3>1, <3>2
  <2>2. pc' \in {"logoff", "open", "release", "done"} /\ result' \in D!Results \cup {None}
    BY <1>1 DEF D!Begin, D!NoneLeft, D!DirectLogoff, D!TypeOK, D!Results
  <2>3. UNCHANGED <<mode, adapters, queue, interrupt, expired, peer, success, worker, late>>
    BY <1>1 DEF D!Begin, D!NoneLeft, D!DirectLogoff
  <2> QED
    BY <2>1, <2>2, <2>3 DEF D!TypeOK
<1>2. CASE D!Open
  <2>1. worker' \in [D!Workers -> D!Threads]
    <3>1. D!Session \in D!Workers
      BY <1>2, OwnWorkers DEF D!Open
    <3> QED
      <4>1. worker' \in {worker, D!Spawned(D!Session)}
        BY <1>2 DEF D!Open
      <4> QED
        <5>1. worker \in [D!Workers -> D!Threads]
          BY DEF D!TypeOK
        <5>2. D!Spawned(D!Session) \in [D!Workers -> D!Threads]
          BY <3>1, <5>1, WorkerTypes
        <5> QED
          BY <4>1, <5>1, <5>2
  <2>2. index' \in 0..MaxAdapters + 1
    BY <1>2 DEF D!Open, D!TypeOK, Indexed
  <2> QED
    BY <1>2, <2>1, <2>2 DEF D!Open, D!Finishes, D!TypeOK, D!Results
<1>3. CASE D!Check \/ D!Quiet \/ D!Expire
  BY <1>3 DEF D!Check, D!Quiet, D!Expire, D!GoesOn, D!Finishes, D!TypeOK, D!Results
<1>4. CASE D!Take
  BY <1>4, TakeTypes
<1>5. CASE D!DropProbe \/ D!DropSession
  <2>1. worker' \in [D!Workers -> D!Threads]
    <3>1. PICK w \in D!Workers : D!Stops(w)
      BY <1>5, OwnWorkers DEF D!DropProbe, D!DropSession, InAdapter
    <3>2. D!Alive(w) \in BOOLEAN
      BY DEF D!Alive
    <3> QED
      BY <3>1, <3>2, WorkerTypes DEF D!Stops, D!TypeOK
  <2> QED
    BY <1>5, <2>1 DEF D!DropProbe, D!DropSession, D!TypeOK
<1>6. CASE D!Closed
  <2>1. index' \in 0..MaxAdapters + 1
    <3>1. index \in 1..adapters /\ adapters \in 0..MaxAdapters
      BY <1>6 DEF D!Closed, D!TypeOK, Indexed, InAdapter
    <3>2. index' \in {index, index + 1}
      BY <1>6 DEF D!Closed
    <3> QED
      BY <3>1, <3>2
  <2> QED
    BY <1>6, <2>1 DEF D!Closed, D!TypeOK
<1>7. CASE D!Release
  <2>1. worker' \in [D!Workers -> D!Threads]
    BY <1>7 DEF D!Release, D!Idle, D!Threads
  <2>2. /\ index' \in 0..MaxAdapters + 1 /\ late' \in 0..2
        /\ queue' \in Seq(D!Event) /\ Len(queue') <= QueueCap
    BY <1>7 DEF D!Release
  <2> QED
    BY <1>7, <2>1, <2>2 DEF D!Release, D!TypeOK
<1>8. CASE D!Interrupt
  BY <1>8, QueueTypes, EventTypes DEF D!Interrupt, D!TypeOK
<1>9. CASE \E w \in D!Workers : D!Work(w)
  BY <1>9, WorkTypes
<1> QED
  BY <1>1, <1>2, <1>3, <1>4, <1>5, <1>6, <1>7, <1>8, <1>9 DEF D!Next, D!Main

-----------------------------------------------------------------------------
(* Steps of the direct command: the lock.                                  *)

\* Between its first step and its last one, the command does not touch the lock.
LEMMA LockUse ==
  D!Next => \/ D!Begin \/ D!Release
            \/ /\ UNCHANGED holder
               /\ pc' = pc \/ (pc \notin {"start", "done"} /\ pc' \notin {"start", "done"})
PROOF
<1> USE DEF D!Finishes, D!GoesOn
<1>1. D!NoneLeft \/ D!DirectLogoff \/ D!Open \/ D!Check \/ D!Quiet =>
        UNCHANGED holder /\ pc \notin {"start", "done"} /\ pc' \notin {"start", "done"}
  BY DEF D!NoneLeft, D!DirectLogoff, D!Open, D!Check, D!Quiet
<1>2. D!Take => UNCHANGED holder /\ pc \notin {"start", "done"} /\ pc' \notin {"start", "done"}
  BY DEF D!Take, D!HandlePacket, D!Exchange, D!HandleConnectivity, D!HandleError, D!HandleStop, D!HandleOther
<1>3. D!DropProbe \/ D!DropSession \/ D!Closed =>
        UNCHANGED holder /\ pc \notin {"start", "done"} /\ pc' \notin {"start", "done"}
  BY DEF D!DropProbe, D!DropSession, D!Closed
<1>4. D!Expire \/ D!Interrupt \/ (\E w \in D!Workers : D!Work(w)) => UNCHANGED <<holder, pc>>
  BY DEF D!Expire, D!Interrupt, D!Work, D!Deliver, D!Hear, D!Ping
<1> QED
  BY <1>1, <1>2, <1>3, <1>4 DEF D!Next, D!Main

LEMMA LockSteps ==
  ASSUME Inv, D!Next, UNCHANGED service
  PROVE  Commanding' /\ Holding' /\ holder' \in Processes \cup {Self, NoOne}
PROOF
<1> USE Parameters DEF Inv, ServiceInv, DirectInv, Commanding, Holding, Locked
<1>0. UNCHANGED phase
  BY DEF service
<1>1. CASE D!Begin
  <2>1. CASE D!Acquired(Self)
    <3>1. (\A q \in Processes : phase[q] \notin Locked) /\ holder' = Self
      BY <2>1 DEF D!Acquired
    <3> QED
      BY <1>0, <3>1
  <2>2. CASE ~D!Acquired(Self)
    BY <1>0, <1>1, <2>2 DEF D!Begin, D!Refused
  <2> QED
    BY <2>1, <2>2
<1>2. CASE D!Release
  BY <1>0, <1>2 DEF D!Release, D!Released
<1>3. CASE /\ UNCHANGED holder
           /\ pc' = pc \/ (pc \notin {"start", "done"} /\ pc' \notin {"start", "done"})
  BY <1>0, <1>3
<1> QED
  BY <1>1, <1>2, <1>3, LockUse

-----------------------------------------------------------------------------
(* Steps of the direct command: the threads and what they have sent.       *)

LEMMA Numbers ==
  ASSUME D!TypeOK
  PROVE  adapters \in Nat /\ index \in Nat /\ adapters <= MaxAdapters
PROOF
<1>1. adapters \in 0..MaxAdapters /\ index \in 0..MaxAdapters + 1
  BY DEF D!TypeOK
<1> QED
  BY <1>1, DirectConstants

LEMMA BeginThreads ==
  ASSUME DirectInv, D!Begin \/ D!NoneLeft \/ D!DirectLogoff \/ D!Check \/ D!Quiet \/ D!Expire
  PROVE  ThreadsInv'
PROOF
<1> USE DEF DirectInv, ThreadsInv, InAdapter
<1>1. UNCHANGED <<adapters, queue, success, worker>> /\ (peer # NoPeer => peer' = peer)
  BY DEF D!Begin, D!NoneLeft, D!DirectLogoff, D!Check, D!Quiet, D!Expire
<1>2. Pinned' /\ Sending' /\ Sent'
  BY <1>1 DEF Pinned, Sending, Sent
<1>3. adapters \in Nat /\ index \in Nat
  BY Numbers
<1>4. CASE pc = "start" /\ index' = 1 /\ pc' \in {"open", "logoff"} /\ adapters > 0
  <2>1. \A w \in D!Workers : worker[w].at = "none"
    BY <1>4, WorkerParts DEF Indexed, Unspawned
  <2>2. Indexed'
    <3>1. adapters' = adapters /\ 1 \in 1..adapters + 1
      BY <1>1, <1>3, <1>4
    <3> QED
      BY <1>4, <3>1 DEF Indexed
  <2>3. Unspawned' /\ Joined'
    BY <1>1, <2>1 DEF Unspawned, Joined, D!Alive
  <2>4. Checked'
    BY <1>1, <2>1 DEF Checked, D!Workers
  <2> QED
    BY <1>2, <2>2, <2>3, <2>4
<1>5. CASE index' = index /\ (pc' = pc \/ (pc \notin InAdapter /\ pc' \in {"release", "done"}))
  <2>1. Indexed'
    BY <1>1, <1>5 DEF Indexed
  <2>2. Unspawned' /\ Joined' /\ Checked'
    BY <1>1, <1>5 DEF Unspawned, Joined, D!Alive, Checked
  <2> QED
    BY <1>2, <2>1, <2>2
<1>6. CASE pc \in {"loop", "wait"} /\ pc' \in {"loop", "wait", "close"} /\ index' = index
  <2>1. Indexed'
    BY <1>1, <1>6 DEF Indexed
  <2>2. Unspawned' /\ Joined' /\ Checked'
    BY <1>1, <1>6 DEF Unspawned, Joined, D!Alive, Checked
  <2> QED
    BY <1>2, <2>1, <2>2
<1> QED
  BY <1>4, <1>5, <1>6
     DEF D!Begin, D!NoneLeft, D!DirectLogoff, D!Check, D!Quiet, D!Expire, D!GoesOn, D!Finishes

\* Spawning: the session of the next adapter.
LEMMA OpenThreads ==
  ASSUME DirectInv, D!Open
  PROVE  ThreadsInv'
PROOF
<1> USE DEF DirectInv, ThreadsInv, InAdapter
<1>1. UNCHANGED <<adapters, queue>> /\ pc = "open" /\ index <= adapters
  BY DEF D!Open
<1>2. adapters \in Nat /\ index \in Nat /\ index \in 1..adapters
  BY <1>1, Numbers DEF Indexed
<1>3. worker \in [D!Workers -> D!Threads] /\ D!Session \in D!Workers
  BY <1>1, OwnWorkers DEF D!TypeOK
<1>4. CASE index' = index + 1 /\ pc' = pc /\ UNCHANGED <<peer, success, worker>>
  <2>1. Indexed'
    BY <1>1, <1>2, <1>4 DEF Indexed
  <2>2. Unspawned' /\ Joined'
    BY <1>1, <1>2, <1>4, WorkerParts DEF Unspawned, Joined, D!Alive
  <2>3. Checked'
    BY <1>1, <1>2, <1>4 DEF Checked, Unspawned, D!Workers, D!Generations
  <2> QED
    BY <1>1, <1>4, <2>1, <2>2, <2>3 DEF Pinned, Sending, Sent
<1>5. CASE index' = index /\ worker' = D!Spawned(D!Session) /\ pc' \in {"loop", "close"} /\ success' = FALSE
  <2>1. \A w \in D!Workers :
          worker'[w] = IF w = D!Session THEN [D!Idle EXCEPT !.at = "busy"] ELSE worker[w]
    BY <1>3, <1>5 DEF D!Spawned
  <2>2. \A w \in D!Workers : w # D!Session => worker'[w] = worker[w]
    BY <2>1
  <2>3. worker'[D!Session].at = "busy"
    BY <1>3, <2>1 DEF D!Idle
  <2>4. D!Session[1] = "capture" /\ D!Session[2] = index
    BY DEF D!Session
  <2>5. Indexed'
    BY <1>1, <1>2, <1>5 DEF Indexed
  <2>6. Unspawned' /\ Joined'
    <3>1. ASSUME NEW w \in D!Workers, w # D!Session
          PROVE  /\ ~D!Alive(w)' /\ (worker'[w].at # "none" => w[2] < index)
      BY <1>1, <2>2, <3>1 DEF Unspawned, Joined, D!Alive
    <3>2. D!Alive(D!Session)' => pc' \in {"loop", "close"}
      BY <1>5
    <3> QED
      <4>1. Unspawned'
        <5>1. \A w \in D!Workers : w[2] < index => w[2] <= index
          BY <1>2, WorkerParts
        <5> QED
          BY <1>2, <1>5, <2>4, <3>1, <5>1 DEF Unspawned
      <4>2. Joined'
        BY <1>5, <2>4, <3>1, <3>2 DEF Joined
      <4> QED
        BY <4>1, <4>2
  <2>7. \A g \in D!Generations : <<"probe", g>> \in D!Workers /\ <<"probe", g>> # D!Session
    BY DEF D!Workers, D!Session
  <2>8. Checked'
    BY <1>1, <1>2, <1>5, <2>2, <2>7 DEF Checked, Unspawned
  <2>9. Sending'
    BY <2>2, <2>3 DEF Sending
  <2>10. Sent'
    <3>1. queue \in Seq(D!Event)
      BY DEF D!TypeOK
    <3> QED
      BY <1>1, <2>2, <2>7, <3>1, PacketFields DEF Sent
  <2> QED
    BY <1>5, <2>5, <2>6, <2>8, <2>9, <2>10 DEF Pinned
<1> QED
  BY <1>4, <1>5 DEF D!Open, D!Finishes

\* The end of an adapter: stops and joins, and the end of the process.
LEMMA CloseThreads ==
  ASSUME DirectInv, D!DropProbe \/ D!DropSession \/ D!Closed
  PROVE  ThreadsInv'
PROOF
<1> USE DEF DirectInv, ThreadsInv, InAdapter
<1>1. UNCHANGED <<adapters, queue, peer, success>> /\ pc \in {"close", "join probe", "join capture"}
  BY DEF D!DropProbe, D!DropSession, D!Closed
<1>2. worker \in [D!Workers -> D!Threads] /\ D!Session \in D!Workers /\ D!Checker \in D!Workers
      /\ index \in D!Generations
  BY <1>1, OwnWorkers DEF D!TypeOK
<1>3. adapters \in Nat /\ index \in 1..adapters /\ index \in Nat
  BY <1>1, Numbers DEF Indexed
<1>4. \A w \in D!Workers : worker'[w].at = worker[w].at /\ worker'[w].event = worker[w].event
  <2>1. CASE D!Closed
    BY <2>1 DEF D!Closed
  <2>2. ASSUME NEW v \in D!Workers, D!Stops(v)
        PROVE  \A w \in D!Workers : worker'[w].at = worker[w].at /\ worker'[w].event = worker[w].event
    BY <1>2, <2>2 DEF D!Stops, D!Threads
  <2> QED
    BY <1>2, <2>1, <2>2 DEF D!DropProbe, D!DropSession
<1>5. Pinned' /\ Sending'
  BY <1>1, <1>4 DEF Pinned, Sending
<1>6. Sent'
  <2>1. queue \in Seq(D!Event)
    BY DEF D!TypeOK
  <2> QED
    <3>1. ASSUME NEW i \in DOMAIN queue, queue[i].type = "connectivity"
          PROVE  <<"probe", queue[i].gen>> \in D!Workers
      <4>1. queue[i] \in D!Event
        BY <2>1, <3>1
      <4> QED
        BY <3>1, <4>1, PacketFields, WorkerPairs
    <3> QED
      BY <1>1, <1>4, <3>1 DEF Sent
<1>7. \A w \in D!Workers : D!Alive(w)' = D!Alive(w)
  BY <1>4 DEF D!Alive
<1>8. CASE D!DropProbe \/ D!DropSession
  <2>1. index' = index /\ pc' \in {"join probe", "join capture"}
    BY <1>8 DEF D!DropProbe, D!DropSession
  <2>2. Indexed' /\ Unspawned' /\ Checked'
    BY <1>1, <1>4, <2>1 DEF Indexed, Unspawned, Checked, D!Workers
  <2>3. Joined'
    <3>1. pc' = "join capture" => ~D!Alive(D!Checker)
      BY <1>8 DEF D!DropProbe, D!DropSession, D!Ended
    <3>2. ASSUME NEW w \in D!Workers, D!Alive(w), w[1] = "probe" PROVE pc' # "join capture"
      <4>1. w[2] = index
        BY <3>2 DEF Joined
      <4>2. w = D!Checker
        BY <3>2, <4>1 DEF D!Workers, D!Checker
      <4> QED
        BY <3>1, <3>2, <4>2
    <3> QED
      BY <1>7, <2>1, <3>2 DEF Joined
  <2> QED
    BY <1>5, <1>6, <2>2, <2>3
<1>9. CASE D!Closed
  <2>1. /\ pc = "join capture" /\ ~D!Alive(D!Session)
        /\ \/ index' = index + 1 /\ pc' = "open"
           \/ index' = index /\ pc' = "release"
    BY <1>9 DEF D!Closed, D!Ended
  <2>2. \A w \in D!Workers : ~D!Alive(w)
    <3> SUFFICES ASSUME NEW w \in D!Workers, D!Alive(w) PROVE FALSE
      OBVIOUS
    <3>1. w[2] = index /\ w[1] # "probe"
      BY <2>1 DEF Joined
    <3> QED
      BY <2>1, <3>1, WorkerPairs, WorkerParts DEF D!Session
  <2>3. Joined'
    BY <1>7, <2>2 DEF Joined
  <2>4. Indexed'
    <3>1. adapters' = adapters
      BY <1>1
    <3>2. index + 1 \in 1..adapters + 1
      BY <1>3
    <3> QED
      BY <2>1, <3>1, <3>2 DEF Indexed
  <2>5. Unspawned'
    <3>1. \A w \in D!Workers : w[2] <= index => w[2] < index + 1 /\ w[2] <= index + 1
      BY <1>3, WorkerParts
    <3> QED
      BY <1>4, <2>1, <3>1 DEF Unspawned
  <2>6. Checked'
    <3>1. CASE index' = index
      BY <1>1, <1>4, <3>1 DEF Checked, D!Workers
    <3>2. CASE index' = index + 1
      <4>1. ASSUME NEW g \in D!Generations, g = index' PROVE worker'[<<"probe", g>>].at = "none"
        BY <1>3, <1>4, <3>2, <4>1, WorkerParts DEF Unspawned, D!Workers
      <4> QED
        BY <4>1 DEF Checked
    <3> QED
      BY <2>1, <3>1, <3>2
  <2> QED
    BY <1>5, <1>6, <2>3, <2>4, <2>5, <2>6
<1> QED
  BY <1>8, <1>9

LEMMA ReleaseThreads ==
  ASSUME DirectInv, D!Release
  PROVE  ThreadsInv'
PROOF
<1>1. /\ pc' = "done" /\ queue' = <<>> /\ success' = FALSE
      /\ worker' = [w \in D!Workers |-> D!Idle]
  BY DEF D!Release
<1>2. \A w \in D!Workers : worker'[w].at = "none"
  BY <1>1 DEF D!Idle
<1>3. Indexed' /\ Pinned' /\ Sent'
  BY <1>1 DEF Indexed, InAdapter, Pinned, Sent
<1>4. Joined' /\ Unspawned' /\ Sending' /\ Checked'
  BY <1>1, <1>2 DEF Joined, D!Alive, Unspawned, Sending, Checked, D!Workers
<1> QED
  BY <1>3, <1>4 DEF ThreadsInv

\* An event is taken: a check is started at most once for an adapter.
LEMMA TakeThreads ==
  ASSUME DirectInv, D!Take
  PROVE  ThreadsInv'
PROOF
<1> USE DEF DirectInv, ThreadsInv, InAdapter
<1> DEFINE e == Head(queue)
<1>1. UNCHANGED <<adapters, index>> /\ pc = "wait" /\ queue # <<>> /\ queue' = Tail(queue)
  BY DEF D!Take
<1>2. worker \in [D!Workers -> D!Threads] /\ D!Checker \in D!Workers /\ index \in D!Generations
  BY <1>1, OwnWorkers DEF D!TypeOK
<1>3. queue \in Seq(D!Event) /\ e \in D!Event /\ peer \in Servers \cup {NoPeer} /\ success \in BOOLEAN
  BY <1>1 DEF D!TypeOK
<1>4. /\ pc' \in {"loop", "close"}
      /\ success => success'
      /\ success' => peer' # NoPeer
      /\ worker' = worker \/ (worker' = D!Spawned(D!Checker) /\ ~success /\ success')
  <2> USE DEF D!GoesOn, D!Finishes, Pinned
  <2>1. CASE D!HandlePacket(e)
    <3>1. e.frame \in D!Frame
      BY <1>3, <2>1, PacketFields DEF D!HandlePacket
    <3>2. CASE D!Exchange(e.frame)
      BY <1>3, <3>1, <3>2, ExchangeFacts DEF D!Exchange
    <3>3. CASE ~D!Exchange(e.frame)
      BY <3>3, <2>1 DEF D!HandlePacket
    <3> QED
      BY <3>2, <3>3
  <2>2. CASE D!HandleConnectivity(e) \/ D!HandleError(e) \/ D!HandleStop(e) \/ D!HandleOther(e)
    <3>1. UNCHANGED <<success, worker>> /\ (peer' = peer)
      BY <2>2 DEF D!HandleConnectivity, D!HandleError, D!HandleStop, D!HandleOther
    <3>2. pc' \in {"loop", "close"}
      BY <2>2 DEF D!HandleConnectivity, D!HandleError, D!HandleStop, D!HandleOther
    <3> QED
      BY <3>1, <3>2
  <2> QED
    BY <2>1, <2>2 DEF D!Take
<1>5. Indexed' /\ Pinned'
  BY <1>1, <1>4 DEF Indexed, Pinned
<1>6. \A i \in DOMAIN queue' : queue'[i] \in D!Event /\ i + 1 \in DOMAIN queue /\ queue'[i] = queue[i + 1]
  BY <1>1, <1>3
<1>7. CASE worker' = worker
  <2>1. Joined' /\ Unspawned' /\ Checked' /\ Sending'
    BY <1>1, <1>4, <1>7 DEF Joined, D!Alive, Unspawned, Checked, Sending
  <2>2. Sent'
    BY <1>6, <1>7 DEF Sent
  <2> QED
    BY <1>5, <2>1, <2>2
<1>8. CASE worker' = D!Spawned(D!Checker) /\ ~success /\ success'
  <2>1. \A w \in D!Workers : w # D!Checker => worker'[w] = worker[w]
    BY <1>2, <1>8 DEF D!Spawned
  <2>2. worker'[D!Checker].at = "busy"
    BY <1>2, <1>8 DEF D!Spawned, D!Idle
  <2>3. D!Checker[1] = "probe" /\ D!Checker[2] = index
    BY DEF D!Checker
  <2>4. worker[D!Checker].at = "none"
    BY <1>2, <1>8 DEF Checked, D!Checker
  <2>5. Joined'
    BY <1>1, <1>4, <2>1, <2>3 DEF Joined, D!Alive
  <2>6. Unspawned'
    <3>1. index <= index
      BY Numbers
    <3> QED
      BY <1>1, <1>4, <2>1, <2>3, <3>1 DEF Unspawned
  <2>7. Sending' /\ Checked'
    BY <1>8, <2>1, <2>2 DEF Sending, Checked
  <2>8. Sent'
    <3> SUFFICES ASSUME NEW i \in DOMAIN queue', queue'[i].type = "connectivity"
                 PROVE  worker'[<<"probe", queue'[i].gen>>].at = "done"
      BY DEF Sent
    <3> DEFINE w == <<"probe", queue'[i].gen>>
    <3>1. w \in D!Workers
      BY <1>6, PacketFields, WorkerPairs
    <3>2. worker[w].at = "done"
      BY <1>6 DEF Sent
    <3> QED
      BY <2>1, <2>4, <3>1, <3>2
  <2> QED
    BY <1>5, <2>5, <2>6, <2>7, <2>8
<1> QED
  BY <1>4, <1>7, <1>8

\* The threads that the answers in the channel are from.
LEMMA SentBy ==
  ASSUME DirectInv
  PROVE  \A i \in DOMAIN queue :
           queue[i].type = "connectivity" => <<"probe", queue[i].gen>> \in D!Workers
PROOF
<1>1. \A i \in DOMAIN queue : queue[i] \in D!Event
  <2>1. queue \in Seq(D!Event)
    BY DEF DirectInv, D!TypeOK
  <2> QED
    BY <2>1
<1> QED
  BY <1>1, PacketFields, WorkerPairs

\* A thread goes on, delivers or returns.
LEMMA WorkThreads ==
  ASSUME DirectInv, NEW w \in D!Workers, D!Work(w)
  PROVE  ThreadsInv'
PROOF
<1> USE DEF DirectInv, ThreadsInv
<1>1. UNCHANGED <<pc, adapters, index, peer, success>> /\ D!Alive(w)
  BY WorkerPairs DEF D!Work, D!Deliver, D!Hear, D!Ping, D!Alive
<1>2. worker \in [D!Workers -> D!Threads] /\ queue \in Seq(D!Event)
  BY DEF D!TypeOK
<1>3. \A v \in D!Workers : v # w => worker'[v] = worker[v]
  BY <1>2, WorkOutcomes DEF D!Deliver, D!Delivered, D!Returns, D!Delivers
<1>4. Indexed' /\ Pinned'
  BY <1>1 DEF Indexed, Pinned
<1>5. Joined' /\ Unspawned' /\ Checked'
  <2>1. worker[w].at # "none"
    BY <1>1 DEF D!Alive
  <2>2. Joined'
    BY <1>1, <1>3 DEF Joined, D!Alive
  <2>3. Unspawned'
    BY <1>1, <1>3, <2>1 DEF Unspawned
  <2>4. Checked'
    BY <1>1, <1>3, <2>1, WorkerPairs DEF Checked
  <2> QED
    BY <2>2, <2>3, <2>4
<1>6. CASE D!Deliver(w)
  <2>1. worker'[w].at \in {"busy", "done"} /\ (worker[w].event.type = "connectivity" => worker'[w].at = "done")
    <3>1. CASE D!Returns(w)
      BY <1>2, <3>1 DEF D!Returns, D!Idle
    <3>2. CASE /\ worker[w].event.type = "packet"
               /\ worker' = [worker EXCEPT ![w].at = "busy", ![w].event = None]
      BY <1>2, <3>2
    <3> QED
      BY <1>6, <3>1, <3>2 DEF D!Deliver, D!Delivered
  <2>2. Sending'
    BY <1>3, <2>1 DEF Sending
  <2>3. worker[w].at = "deliver" /\ worker[w].event \in D!Event
    BY <1>6 DEF D!Deliver, Sending
  <2>4. \A v \in D!Workers : worker[v].at = "done" => worker'[v].at = "done"
    BY <1>3, <2>3
  <2>5. \A i \in DOMAIN queue : queue[i].type = "connectivity" => <<"probe", queue[i].gen>> \in D!Workers
    BY SentBy
  <2>6. CASE queue' = queue
    <3>1. Sent'
      BY <2>4, <2>5, <2>6 DEF Sent
    <3> QED
      BY <1>4, <1>5, <2>2, <3>1
  <2>7. CASE queue' = Append(queue, worker[w].event)
    <3> SUFFICES ASSUME NEW i \in DOMAIN queue', queue'[i].type = "connectivity"
                 PROVE  worker'[<<"probe", queue'[i].gen>>].at = "done"
      BY <1>4, <1>5, <2>2 DEF Sent
    <3>1. CASE i \in DOMAIN queue /\ queue'[i] = queue[i]
      BY <2>4, <2>5, <3>1 DEF Sent
    <3>2. CASE queue'[i] = worker[w].event
      <4>1. w = <<"probe", worker[w].event.gen>>
        BY <2>3, <3>2 DEF Sending
      <4> QED
        BY <2>1, <3>2, <4>1
    <3> QED
      <4>1. i \in 1..Len(queue) + 1 /\ DOMAIN queue = 1..Len(queue)
        BY <1>2, <2>3, <2>7
      <4>2. i \in DOMAIN queue => queue'[i] = queue[i]
        BY <1>2, <2>3, <2>7, AppendProperties
      <4>3. i = Len(queue) + 1 => queue'[i] = worker[w].event
        BY <1>2, <2>3, <2>7, AppendProperties
      <4>4. i \in DOMAIN queue \/ i = Len(queue) + 1
        BY <1>2, <4>1
      <4> QED
        BY <3>1, <3>2, <4>2, <4>3, <4>4
  <2> QED
    BY <1>4, <1>5, <1>6, <2>2, <2>6, <2>7 DEF D!Deliver
<1>7. CASE ~D!Deliver(w)
  <2>1. queue' = queue
    BY <1>7, WorkOutcomes
  <2>2. worker'[w].at = "deliver" =>
          /\ worker'[w].event \in D!Event
          /\ worker'[w].event.type = "connectivity" => w = <<"probe", worker'[w].event.gen>>
    <3>1. CASE D!Returns(w)
      BY <1>2, <3>1 DEF D!Returns, D!Idle
    <3>2. ASSUME NEW e \in D!Event, D!Delivers(w, e) PROVE worker'[w].event = e
      BY <1>2, <3>2 DEF D!Delivers
    <3> QED
      BY <1>7, <3>1, <3>2, WorkOutcomes
  <2>3. Sending'
    BY <1>3, <2>2 DEF Sending
  <2>4. worker[w].at # "done"
    BY <1>1 DEF D!Alive
  <2>5. Sent'
    BY <1>3, <2>1, <2>4, SentBy DEF Sent
  <2> QED
    BY <1>4, <1>5, <2>3, <2>5
<1> QED
  BY <1>6, <1>7

LEMMA InterruptThreads ==
  ASSUME DirectInv, D!Interrupt
  PROVE  ThreadsInv'
PROOF
<1> USE DEF DirectInv, ThreadsInv
<1>1. UNCHANGED <<pc, adapters, index, peer, success, worker>>
  BY DEF D!Interrupt
<1>2. queue \in Seq(D!Event)
  BY DEF D!TypeOK
<1>3. Indexed' /\ Pinned' /\ Joined' /\ Unspawned' /\ Checked' /\ Sending'
  BY <1>1 DEF Indexed, Pinned, Joined, D!Alive, Unspawned, Checked, Sending
<1>4. Sent'
  <2>1. queue' = queue \/ queue' = Append(queue, [type |-> "stop"])
    BY DEF D!Interrupt, D!TrySend
  <2>2. ASSUME NEW i \in DOMAIN queue'
        PROVE  queue'[i].type = "stop" \/ (i \in DOMAIN queue /\ queue'[i] = queue[i])
    BY <1>2, <2>1, EventTypes
  <2> QED
    BY <1>1, <2>2 DEF Sent
<1> QED
  BY <1>3, <1>4

LEMMA ThreadsSteps == DirectInv /\ D!Next => ThreadsInv'
BY BeginThreads, OpenThreads, CloseThreads, ReleaseThreads, TakeThreads, WorkThreads, InterruptThreads
   DEF D!Next, D!Main

-----------------------------------------------------------------------------
(* Steps of the direct command: what it says, and interrupts.              *)

LEMMA DecidedSteps == DirectInv /\ D!Next => Decided'
PROOF
<1> SUFFICES ASSUME DirectInv, D!Next PROVE Decided'
  OBVIOUS
<1> USE DEF DirectInv, Decided, D!Finishes, D!GoesOn
<1>1. CASE D!Begin \/ D!NoneLeft \/ D!DirectLogoff \/ D!Open \/ D!Check \/ D!Quiet
  BY <1>1 DEF D!Begin, D!NoneLeft, D!DirectLogoff, D!Open, D!Check, D!Quiet
<1>2. CASE D!Take
  BY <1>2 DEF D!Take, D!HandlePacket, D!Exchange, D!HandleConnectivity, D!HandleError, D!HandleStop, D!HandleOther
<1>3. CASE D!DropProbe \/ D!DropSession \/ D!Closed \/ D!Release
  BY <1>3 DEF D!DropProbe, D!DropSession, D!Closed, D!Release
<1>4. CASE D!Expire \/ D!Interrupt \/ \E w \in D!Workers : D!Work(w)
  BY <1>4 DEF D!Expire, D!Interrupt, D!Work, D!Deliver, D!Hear, D!Ping
<1> QED
  BY <1>1, <1>2, <1>3, <1>4 DEF D!Next, D!Main

LEMMA HeededSteps == DirectInv /\ D!Next => Heeded'
PROOF
<1> SUFFICES ASSUME DirectInv, D!Next PROVE Heeded'
  OBVIOUS
<1>0. late \in {0, 1}
  <2>1. late \in 0..2
    BY DEF DirectInv, D!TypeOK
  <2>2. late <= 1
    BY DEF DirectInv, Heeded
  <2> QED
    BY <2>1, <2>2
<1> USE DirectConstants DEF DirectInv, Decided, Heeded, D!Finishes, D!GoesOn, D!Results
<1>1. CASE D!Begin \/ D!NoneLeft \/ D!DirectLogoff \/ D!Open \/ D!Check \/ D!Quiet
  BY <1>1 DEF D!Begin, D!NoneLeft, D!DirectLogoff, D!Open, D!Check, D!Quiet
<1>2. CASE D!Take
  <2>1. pc = "wait" /\ late' \in {0, 1} /\ (late' = 1 => interrupt) /\ interrupt' = interrupt
    BY <1>0, <1>2 DEF D!Take
  <2>2. pc' # "wait"
    BY <1>2 DEF D!Take, D!HandlePacket, D!Exchange, D!HandleConnectivity, D!HandleError, D!HandleStop, D!HandleOther
  <2> QED
    BY <2>1, <2>2
<1>3. CASE D!DropProbe \/ D!DropSession \/ D!Closed
  BY <1>3 DEF D!DropProbe, D!DropSession, D!Closed
<1>4. CASE D!Release
  BY <1>4 DEF D!Release
<1>5. CASE D!Expire \/ D!Interrupt \/ \E w \in D!Workers : D!Work(w)
  BY <1>5 DEF D!Expire, D!Interrupt, D!Work, D!Deliver, D!Hear, D!Ping
<1> QED
  BY <1>1, <1>2, <1>3, <1>4, <1>5 DEF D!Next, D!Main

LEMMA ConfirmedSteps == DirectInv /\ D!Next => Confirmed'
PROOF
<1> SUFFICES ASSUME DirectInv, D!Next, result' = "authenticated" PROVE Confirmed'
  BY DEF Confirmed
<1> USE DEF DirectInv, ThreadsInv, D!Finishes, D!GoesOn
<1>0. "authenticated" # None
  BY DirectConstants DEF D!Results
<1>1. CASE result = "authenticated"
  <2>1. pc \in {"close", "join probe", "join capture", "release"}
    BY <1>0, <1>1 DEF Decided
  <2>2. success /\ peer # NoPeer /\ worker[D!Checker].at = "done"
    BY <1>1 DEF Confirmed
  <2>3. worker \in [D!Workers -> D!Threads]
    BY DEF D!TypeOK
  <2>4. CASE D!DropProbe \/ D!DropSession \/ D!Closed
    <3>1. UNCHANGED <<success, peer>> /\ (index' = index)
      BY <1>0, <1>1, <2>4 DEF D!DropProbe, D!DropSession, D!Closed
    <3>0. D!Checker \in D!Workers /\ D!Session \in D!Workers
      BY <2>4, OwnWorkers DEF D!DropProbe, D!DropSession, D!Closed, InAdapter
    <3>2. worker'[D!Checker].at = worker[D!Checker].at
      <4>1. CASE D!Closed
        BY <4>1 DEF D!Closed
      <4>2. ASSUME NEW v \in D!Workers, D!Stops(v) PROVE worker'[D!Checker].at = worker[D!Checker].at
        BY <2>3, <3>0, <4>2 DEF D!Stops, D!Threads
      <4> QED
        BY <2>4, <3>0, <4>1, <4>2 DEF D!DropProbe, D!DropSession
    <3> QED
      BY <2>2, <3>1, <3>2 DEF Confirmed, D!Checker
  <2>5. ASSUME NEW w \in D!Workers, D!Work(w) PROVE Confirmed'
    <3>1. UNCHANGED <<success, peer, index>> /\ D!Alive(w)
      BY <2>5, WorkerPairs DEF D!Work, D!Deliver, D!Hear, D!Ping, D!Alive
    <3>2. w # D!Checker
      BY <2>2, <3>1 DEF D!Alive
    <3>3. D!Checker \in D!Workers
      BY <3>1, OwnWorkers DEF Joined
    <3>4. worker'[D!Checker] = worker[D!Checker]
      BY <2>3, <2>5, <3>2, <3>3, WorkOutcomes DEF D!Deliver, D!Delivered, D!Returns, D!Delivers
    <3> QED
      BY <2>2, <3>1, <3>4 DEF Confirmed, D!Checker
  <2>6. CASE D!Interrupt
    BY <2>2, <2>6 DEF D!Interrupt, Confirmed, D!Checker
  <2>7. ~D!Release
    BY <1>0 DEF D!Release
  <2> QED
    BY <2>1, <2>4, <2>5, <2>6, <2>7
       DEF D!Next, D!Main, D!Begin, D!DirectLogoff, D!Open, D!NoneLeft, D!Check, D!Quiet, D!Take, D!Expire
<1>2. CASE result # "authenticated"
  <2>1. D!Take
    <3>1. ~(D!Begin \/ D!DirectLogoff \/ D!Open \/ D!NoneLeft \/ D!Check \/ D!Quiet \/ D!Expire)
      BY <1>2 DEF D!Begin, D!DirectLogoff, D!Open, D!NoneLeft, D!Check, D!Quiet, D!Expire
    <3>2. ~(D!DropProbe \/ D!DropSession \/ D!Closed \/ D!Release \/ D!Interrupt)
      BY <1>0, <1>2 DEF D!DropProbe, D!DropSession, D!Closed, D!Release, D!Interrupt
    <3>3. ~(\E w \in D!Workers : D!Work(w))
      BY <1>2 DEF D!Work, D!Deliver, D!Hear, D!Ping
    <3> QED
      BY <3>1, <3>2, <3>3 DEF D!Next, D!Main
  <2> DEFINE e == Head(queue)
  <2>2. D!HandleConnectivity(e)
    BY <1>2, <2>1 DEF D!Take, D!HandlePacket, D!Exchange, D!HandleError, D!HandleStop, D!HandleOther
  <2>3. /\ e.type = "connectivity" /\ e.gen = index
        /\ UNCHANGED <<peer, success, worker, index>>
    BY <2>1, <2>2 DEF D!HandleConnectivity, D!Own, D!Take
  <2>4. index \in D!Generations
    BY <2>1, OwnWorkers DEF D!Take, InAdapter
  <2>5. worker[D!Checker].at = "done"
    <3>1. queue \in Seq(D!Event) /\ queue # <<>>
      BY <2>1 DEF D!Take, D!TypeOK
    <3>2. 1 \in DOMAIN queue /\ queue[1] = e
      BY <3>1
    <3> QED
      BY <2>3, <3>2 DEF Sent, D!Checker
  <2>6. success /\ peer # NoPeer
    BY <2>4, <2>5 DEF Checked, Pinned, D!Checker
  <2> QED
    BY <2>3, <2>5, <2>6 DEF Confirmed, D!Checker
<1> QED
  BY <1>1, <1>2

-----------------------------------------------------------------------------
(* The invariant and what follows from it.                                 *)

LEMMA DirectRests ==
  ASSUME DirectInv, UNCHANGED direct
  PROVE  D!TypeOK' /\ ThreadsInv' /\ Decided' /\ Confirmed' /\ Heeded'
PROOF
<1> USE DEF DirectInv, direct
<1>1. D!TypeOK'
  BY DEF D!TypeOK
<1>2. Indexed' /\ Pinned' /\ Sending' /\ Sent'
  BY DEF ThreadsInv, Indexed, Pinned, Sending, Sent
<1>3. Joined' /\ Unspawned' /\ Checked'
  BY DEF ThreadsInv, Joined, Unspawned, Checked, D!Alive
<1>4. Decided' /\ Confirmed' /\ Heeded'
  BY DEF Decided, Confirmed, Heeded, D!Checker
<1> QED
  BY <1>1, <1>2, <1>3, <1>4 DEF ThreadsInv

LEMMA NextInv == Inv /\ [Next]_vars => Inv'
PROOF
<1> SUFFICES ASSUME Inv, [Next]_vars PROVE Inv'
  OBVIOUS
<1>1. CASE Services
  <2>1. ServiceInv' /\ holder' \in Processes \cup {Self, NoOne} /\ (holder = Self => holder' = Self)
    BY <1>1, ServiceSteps DEF Services, Inv
  <2>2. UNCHANGED direct
    BY <1>1 DEF Services
  <2>3. D!TypeOK' /\ ThreadsInv' /\ Decided' /\ Confirmed' /\ Heeded'
    BY <2>2, DirectRests DEF Inv
  <2>4. Commanding'
    BY <2>1, <2>2 DEF Inv, DirectInv, direct, Commanding
  <2> QED
    BY <2>1, <2>3, <2>4 DEF Inv, DirectInv
<1>2. CASE D!Next /\ UNCHANGED service
  <2>1. Commanding' /\ Holding' /\ holder' \in Processes \cup {Self, NoOne}
    BY <1>2, LockSteps
  <2>2. S!TypeOK' /\ Capturing' /\ Answering'
    BY <1>2 DEF Inv, ServiceInv, service, S!TypeOK, Capturing, Answering
  <2>3. D!TypeOK' /\ ThreadsInv' /\ Decided' /\ Confirmed' /\ Heeded'
    BY <1>2, DirectTypes, ThreadsSteps, DecidedSteps, ConfirmedSteps, HeededSteps DEF Inv
  <2> QED
    BY <2>1, <2>2, <2>3 DEF Inv, ServiceInv, DirectInv
<1>3. CASE UNCHANGED vars
  <2>1. UNCHANGED <<holder, platform, phase, status, handler, stopping, capture, endpoint>>
    BY <1>3 DEF vars, service
  <2>2. UNCHANGED direct
    BY <1>3 DEF vars
  <2>3. ServiceInv'
    BY <2>1 DEF Inv, ServiceInv, S!TypeOK, Holding, Capturing, Answering
  <2>4. DirectInv'
    <3>1. Commanding'
      BY <2>1, <2>2 DEF Inv, DirectInv, direct, Commanding
    <3> QED
      BY <2>2, <3>1, DirectRests DEF Inv, DirectInv
  <2> QED
    BY <2>1, <2>3, <2>4 DEF Inv
<1> QED
  BY <1>1, <1>2, <1>3 DEF Next

\* Any number of service processes and a direct command, with any number of adapters,
\* start, capture, stop, fail and crash: there is never more than one capture or one
\* LOGOFF under way on the machine.
THEOREM CaptureIsAlone == Spec => []OneCapture
PROOF
<1>1. Inv => OneCapture
  <2> SUFFICES ASSUME Inv PROVE Cardinality(Captures) <= 1
    BY DEF OneCapture
  <2>1. ASSUME NEW x, Captures \subseteq {x} PROVE Cardinality(Captures) <= 1
    <3>1. Captures = {} \/ Captures = {x}
      BY <2>1
    <3>2. Cardinality({}) = 0 /\ Cardinality({x}) = 1
      BY FS_EmptySet, FS_Singleton, Zenon
    <3>3. Cardinality(Captures) \in {0, 1}
      BY <3>1, <3>2, Zenon
    <3> QED
      BY <3>3
  <2>2. CASE \E p \in Processes : capture[p]
    <3>1. PICK p \in Processes : capture[p]
      BY <2>2
    <3>2. holder = p /\ p # Self
      BY <3>1, Parameters DEF Inv, ServiceInv, Capturing, Holding, Locked
    <3>3. pc \in {"start", "done"}
      BY <3>2 DEF Inv, DirectInv, Commanding
    <3>4. \A w \in D!Workers : ~D!Alive(w)
      BY <3>3 DEF Inv, DirectInv, ThreadsInv, Joined, InAdapter
    <3>5. \A q \in Processes : capture[q] => q = p
      BY <3>2 DEF Inv, ServiceInv, Capturing, Holding, Locked
    <3>6. Captures \subseteq {p}
      BY <3>3, <3>4, <3>5 DEF Captures
    <3> QED
      BY <2>1, <3>6
  <2>3. CASE pc \in InAdapter
    <3>1. \A p \in Processes : ~capture[p]
      <4>1. holder = Self
        BY <2>3 DEF Inv, DirectInv, Commanding, InAdapter
      <4> QED
        BY <4>1, Parameters DEF Inv, ServiceInv, Capturing, Holding, Locked
    <3>2. \A w \in D!Workers : D!Alive(w) /\ w[1] = "capture" => w = D!Session
      BY WorkerPairs DEF Inv, DirectInv, ThreadsInv, Joined, D!Session
    <3>3. Captures \subseteq {D!Session}
      BY <2>3, <3>1, <3>2 DEF Captures, InAdapter
    <3> QED
      BY <2>1, <3>3
  <2>4. CASE pc \notin InAdapter /\ ~\E p \in Processes : capture[p]
    <3>1. \A w \in D!Workers : ~D!Alive(w)
      BY <2>4 DEF Inv, DirectInv, ThreadsInv, Joined
    <3>2. Captures \subseteq {"logoff"}
      BY <2>4, <3>1 DEF Captures
    <3> QED
      BY <2>1, <3>2
  <2> QED
    BY <2>2, <2>3, <2>4
<1> QED
  BY <1>1, InitInv, NextInv, PTL DEF Spec

\* A command that says "authenticated" was let in by the authenticator of the adapter it
\* tried, and that adapter's own check has answered.
THEOREM AnswersAreOwn == Spec => []OwnProbeOnly
PROOF
<1>1. Inv => OwnProbeOnly
  BY DEF Inv, DirectInv, Confirmed, OwnProbeOnly, D!OwnProbeOnly
<1> QED
  BY <1>1, InitInv, NextInv, PTL DEF Spec

\* After an interrupt at most one more event is handled, whatever is in the channel.
THEOREM InterruptsAreHeeded == Spec => []InterruptIsPrompt
PROOF
<1>1. Inv => InterruptIsPrompt
  BY DEF Inv, DirectInv, Heeded, InterruptIsPrompt, D!InterruptIsPrompt
<1> QED
  BY <1>1, InitInv, NextInv, PTL DEF Spec

\* On Unix whoever holds the lock and is about to serve finds no live predecessor at the
\* endpoint, only a stale name at the worst.
THEOREM EndpointsAreFree == Spec => []EndpointIsFree
PROOF
<1>1. Inv => EndpointIsFree
  BY Parameters DEF Inv, ServiceInv, Holding, Locked, Answering, EndpointIsFree, S!EndpointIsFree, S!Answered
<1> QED
  BY <1>1, InitInv, NextInv, PTL DEF Spec
=============================================================================
