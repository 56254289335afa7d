------------------------------- MODULE Engine -------------------------------
(***************************************************************************)
(* The authentication engine of the service: src/src/engine.rs, with the   *)
(* capture sessions (platform/mod.rs Session) and the reachability probes  *)
(* (connectivity.rs Probe) it owns.                                        *)
(*                                                                         *)
(* The engine is one thread that takes events from a bounded queue.  Its   *)
(* fields are the record eng; the operators of the first half are its      *)
(* methods, each mapping an engine to the SET of engines (or of outcomes,  *)
(* for the methods that return Result) it may leave behind: enumeration,   *)
(* opening a capture, sending and spawning may each fail.  The actions of  *)
(* the second half are the steps of run()/handle()/tick() and those of the *)
(* other threads: capture readers, probes, the notifiers and clients.      *)
(*                                                                         *)
(* Deadlines are "off", "armed" or "expired": tick() reads the clock once, *)
(* and a deadline armed after that reading is not due in the same tick.    *)
(***************************************************************************)
EXTENDS Authentication, Naturals, Sequences, FiniteSets

CONSTANTS
  Adapters,    \* wired adapters the machine may have
  Rank,        \* Adapter.score and enumeration order: higher is tried first
  None,        \* no adapter, no session, no probe
  Configs,     \* configurations a client or the disk may provide
  Calls,       \* control calls clients make, a subset of Call
  Frames,      \* frames an open capture may see, a subset of Frame
  Powers,      \* power notifications the platform sends, a subset of PowerEvent
  Faults,      \* whether system calls may fail
  SpillMax,    \* bound: frames a capture delivers before its first send fails
  QueueCap,    \* capacity of the event queue (256 in service.rs)
  MaxAttempt,  \* retry_attempt saturates here (the code's delay does at 12)
  MaxGen       \* bound: no new input once generation has come this far

AutoIface == "auto"
States == {"Idle", "Authenticating", "Authenticated", "Failed", "Stopped"}
PowerEvent == {"suspend", "resume"}
Deadline == {"off", "armed", "expired"}

\* Config: "complete" stands for what validate_auth() requires.
Config == [auto_auth : BOOLEAN, account : STRING, complete : BOOLEAN,
           iface : Adapters \cup {AutoIface}]

\* The control actions that change the engine's state.
Call == [action : {"authenticate", "logoff", "interfaces"}]
          \cup [action : {"set_config", "connect"}, config : Configs]

\* u64 in the code: it never wraps in the life of a process.
Generation == Nat
Attempt == 0..MaxAttempt

\* What the reader of a capture delivers.
Reports == [type : {"packet"}, gen : Generation, frame : Frames]
            \cup [type : {"capture_error"}, gen : Generation]
Event == Reports
          \cup [type : {"connectivity"}, gen : Generation, up : BOOLEAN]
          \cup [type : {"network", "power", "stop"}]
          \cup [type : {"call"}, call : Calls]

\* What the engine holds of a capture and of a probe: when it was begun, and how
\* far it is.
Session == [adapter : Adapters, gen : Generation, reader : {"running", "closed"}]
Probe == [gen : Generation, result : {"running", "up", "down"}]

\* The events of readers and probes, which belong to one attempt.
Callbacks == {"packet", "capture_error", "connectivity"}

ASSUME EngineAssumption ==
  /\ None \notin Adapters \cup Session \cup Probe
  /\ AutoIface \notin Adapters
  /\ IsFiniteSet(Adapters)
  /\ Rank \in [Adapters -> Nat]
  /\ \A a, b \in Adapters : Rank[a] = Rank[b] => a = b
  /\ Configs \subseteq Config /\ Configs # {}
  /\ Calls \subseteq Call
  /\ Frames \subseteq Frame
  /\ Powers \subseteq PowerEvent
  /\ Faults \in BOOLEAN
  /\ SpillMax \in Nat /\ MaxAttempt \in Nat /\ MaxGen \in Nat
  /\ QueueCap \in Nat \ {0}

\* validate_auth() looks at the account, the adapter choice, and what validate() asks of
\* every configuration that is loaded or saved.
ASSUME CompleteAssumption ==
  \A c, d \in Configs : c.account = d.account /\ c.iface = d.iface => c.complete = d.complete

VARIABLES
  eng,      \* the fields of Engine
  queue,    \* the engine's bounded channel
  power,    \* PowerNotifier.pending
  network,  \* Signal.pending of the network notifier
  stop,     \* Signal.pending of the stop notifier
  link,     \* world: adapters that are up, as an enumeration would show
  pc,       \* where Engine::run is
  event     \* the event being handled

vars == <<eng, queue, power, network, stop, link, pc, event>>

EngineState ==
  [state : States, internet : BOOLEAN, suspended : BOOLEAN,
   manual_disconnect : BOOLEAN, config : Config,
   adapter : Adapters \cup {None}, adapters : SUBSET Adapters,
   candidates : SUBSET Adapters, cache : Adapters \cup {None},
   session : Session \cup {None}, probe : Probe \cup {None},
   peer : Servers \cup {NoPeer}, generation : Generation,
   retry : Deadline, retry_attempt : Attempt,
   handshake : Deadline, start : Deadline, reconcile : Deadline,
   spill : Seq(Reports)]

-----------------------------------------------------------------------------
(* Methods of Engine.                                                      *)

\* Result<()> of a method, with the engine it leaves.
Ok(e) == [eng |-> e, ok |-> TRUE]
Err(e) == [eng |-> e, ok |-> FALSE]

ValidAuth(c) == c.complete

\* Leaving Authenticated clears the fields that describe the online session.
Status(e, s) ==
  [e EXCEPT !.state = s, !.internet = @ /\ s = "Authenticated"]

\* Everything that belongs to the current attempt ends; callbacks become stale.
Invalidate(e) ==
  [e EXCEPT !.generation = @ + 1, !.probe = None, !.session = None,
            !.peer = NoPeer, !.handshake = "off", !.start = "off"]

\* Mutant: a resume forgets the manual disconnect.
DrainPower_Manual(e, pending) ==
  IF pending = "none" THEN e
  ELSE Status([Invalidate(e) EXCEPT
                 !.candidates = {}, !.adapter = None, !.retry_attempt = 0,
                 !.suspended = (pending = "suspend"),
                 !.retry = IF pending = "resume" /\ e.config.auto_auth
                           THEN "armed" ELSE "off"], "Idle")

DrainPower(e, pending) ==
  LET quiet == [Invalidate(e) EXCEPT !.candidates = {}, !.adapter = None,
                                     !.retry = "off", !.retry_attempt = 0]
      wanted == e.config.auto_auth /\ ~e.manual_disconnect
  IN CASE pending = "suspend" -> Status([quiet EXCEPT !.suspended = TRUE], "Idle")
       [] pending = "resume" ->
            Status([quiet EXCEPT !.suspended = FALSE,
                                 !.retry = IF wanted THEN "armed" ELSE "off"], "Idle")
       [] OTHER -> e

\* refresh_adapters(): the scan shows what is up now, or fails.
RefreshAdapters(e) ==
  {Ok([e EXCEPT !.adapters = link])} \cup (IF Faults THEN {Err(e)} ELSE {})

Select(e) == {a \in e.adapters : e.config.iface \in {AutoIface, a}}

\* select() sorts by the cached last success, then by score.
Precedes(e, a, b) ==
  \/ a = e.cache /\ b # e.cache
  \/ b # e.cache /\ Rank[a] > Rank[b]

\* What a capture of generation g delivers between its opening and the failure of the
\* first send, after which it is dropped: frames, and the error that ends its reader.
Spills(g) ==
  LET heard == UNION {[1..n -> [type : {"packet"}, gen : {g}, frame : Frames]] :
                        n \in 0..SpillMax}
  IN heard \cup {Append(s, [type |-> "capture_error", gen |-> g]) : s \in heard}

\* next_candidate(): candidate a is reached because the opens before it failed.
Reach(e, a) ==
  LET before == {b \in e.candidates : Precedes(e, b, a)}
  IN [Invalidate(e) EXCEPT !.generation = @ + Cardinality(before),
                           !.candidates = @ \ (before \cup {a})]

\* Mutant: the handshake is not timed.
Opened_Untimed(e, a) ==
  Status([e EXCEPT !.adapter = a, !.start = "armed",
                   !.session = [adapter |-> a, gen |-> e.generation, reader |-> "running"]],
         "Authenticating")

Opened(e, a) ==
  Status([e EXCEPT !.adapter = a,
                   !.session = [adapter |-> a, gen |-> e.generation, reader |-> "running"],
                   !.handshake = "armed", !.start = "armed"], "Authenticating")

NoneOpened(e) ==
  [Invalidate(e) EXCEPT !.generation = e.generation + Cardinality(e.candidates),
                        !.candidates = {}]

\* The candidate that is reached when no open fails.
First(e) == {a \in e.candidates : \A b \in e.candidates \ {a} : Precedes(e, a, b)}

Spilled(e, s) == [e EXCEPT !.spill = @ \o s]

\* The capture of candidate a is open, and its first send fails.
SendFails(e, a) ==
  {Err(Spilled(Reach(e, a), s)) : s \in Spills(Reach(e, a).generation)}

NoCandidate(e) == Status([Invalidate(e) EXCEPT !.adapter = None], "Idle")

NextCandidate(e) ==
  IF e.candidates = {}
  THEN {Ok(NoCandidate(e))}
  ELSE {Ok(Opened(Reach(e, a), a)) : a \in IF Faults THEN e.candidates ELSE First(e)}
         \cup (IF Faults
               THEN {Err(NoneOpened(e))} \cup UNION {SendFails(e, a) : a \in e.candidates}
               ELSE {})

\* failed() once there is no other candidate: stop here, or arm the retry.
GiveUp(e) ==
  IF e.manual_disconnect \/ e.suspended \/ ~e.config.auto_auth \/ ~ValidAuth(e.config)
  THEN Status(e, "Failed")
  ELSE Status([e EXCEPT !.retry = "armed",
                        !.retry_attempt = IF @ < MaxAttempt THEN @ + 1 ELSE @], "Idle")

\* An online session that is lost starts over with the configured adapters.
EndAttempt(e) ==
  LET online == e.state = "Authenticated"
  IN [Invalidate(e) EXCEPT !.retry = "off",
                           !.retry_attempt = IF online THEN 0 ELSE @,
                           !.candidates = IF online THEN {} ELSE @]

Failed(e) ==
  LET ended == EndAttempt(e)
  IN IF ended.candidates = {} THEN {GiveUp(ended)}
     ELSE {IF o.ok THEN o.eng ELSE GiveUp(o.eng) : o \in NextCandidate(ended)}

\* The callers that answer an Err with failed().
OrFailed(outcomes) ==
  UNION {IF o.ok THEN {o.eng} ELSE Failed(o.eng) : o \in outcomes}

\* Mutant: every attempt starts the back-off anew.
BeginAttempt_Resets(e) ==
  [Invalidate(e) EXCEPT !.retry = "off", !.candidates = {}, !.retry_attempt = 0]

BeginAttempt(e) == [Invalidate(e) EXCEPT !.retry = "off", !.candidates = {}]

\* The candidates of a scan are tried.
TryCandidates(e) == NextCandidate([e EXCEPT !.candidates = Select(e)])

Authenticate(e) ==
  IF e.suspended THEN {Err(e)}
  ELSE IF ~ValidAuth(e.config) THEN {Err(BeginAttempt(e))}
  ELSE UNION {IF r.ok THEN TryCandidates(r.eng) ELSE {r} :
                r \in RefreshAdapters(BeginAttempt(e))}

Start(e) ==
  OrFailed(UNION {IF r.ok /\ e.config.auto_auth THEN Authenticate(r.eng) ELSE {r} :
                    r \in RefreshAdapters(e)})

\* What a successful scan changes; "seen" are the adapters known before.
Scanned(e, seen) ==
  LET fresh == [e EXCEPT !.retry_attempt =
                           IF seen = {} /\ e.adapters # {} THEN 0 ELSE @]
  IN IF e.adapter \in e.adapters \cup {None} THEN fresh
     ELSE Status([Invalidate(fresh) EXCEPT !.adapter = None, !.retry = "off"], "Idle")

Reconnect(e) ==
  IF /\ e.session = None /\ e.retry = "off" /\ ~e.manual_disconnect
     /\ e.config.auto_auth /\ ValidAuth(e.config)
  THEN Authenticate(e)
  ELSE {Ok(e)}

\* Mutant: a failed scan is taken for a lost link.
NetworkChanged_Strict(e) ==
  IF e.suspended THEN {Ok(e)}
  ELSE UNION {IF r.ok THEN Reconnect(Scanned(r.eng, e.adapters)) ELSE {r} :
                r \in RefreshAdapters(e)}

NetworkChanged(e) ==
  IF e.suspended THEN {Ok(e)}
  ELSE UNION {IF r.ok THEN Reconnect(Scanned(r.eng, e.adapters)) ELSE {Ok(e)} :
                r \in RefreshAdapters(e)}

DrainNetwork(e, pending) ==
  IF pending THEN OrFailed(NetworkChanged(e)) ELSE {e}

Heard(e, f, online) ==
  [e EXCEPT !.peer = PeerAfter(e.peer, f, online)]

\* EAP is done: the handshake is no longer timed.
Granted(e) == [e EXCEPT !.handshake = "off", !.start = "off"]

Probing(e) ==
  [Status(Granted(e), "Authenticating") EXCEPT
     !.probe = [gen |-> e.generation, result |-> "running"]]

Packet(e, g, f) ==
  LET online == e.state = "Authenticated" \/ e.probe # None
      result == Receive(e.peer, f, online)
  IN IF g # e.generation \/ e.adapter = None \/ result = "ignore" THEN {e}
     ELSE CASE result = "response" ->
                 {[Heard(e, f, online) EXCEPT !.start = "off"]}
                   \cup (IF Faults /\ e.session # None
                         THEN Failed(Heard(e, f, online)) ELSE {})
            [] result = "success" ->
                 IF online THEN {Granted(e)}
                 ELSE {Probing(e)} \cup
                      (IF Faults THEN Failed(Status(Granted(e), "Authenticating")) ELSE {})
            [] OTHER -> Failed(e)   \* "failure" and "error"

CaptureError(e, g) == IF g = e.generation THEN Failed(e) ELSE {e}

\* Mutant: the other candidates stay on the list.
Online_KeepsCandidates(e) ==
  [e EXCEPT !.probe = None, !.retry_attempt = 0, !.retry = "off",
            !.state = "Authenticated", !.internet = TRUE]

\* The attempt has succeeded; its adapter is remembered for the next one.
Online(e) ==
  [e EXCEPT !.probe = None, !.candidates = {}, !.retry_attempt = 0, !.retry = "off",
            !.cache = IF e.adapter = None THEN @ ELSE e.adapter,
            !.state = "Authenticated", !.internet = TRUE]

\* Mutant: the answer of an abandoned probe counts.
Connectivity_AnyProbe(e, g, up) ==
  IF up THEN {r.eng : r \in RefreshAdapters(Online(e))}
  ELSE Failed([e EXCEPT !.probe = None])

Connectivity(e, g, up) ==
  IF g # e.generation THEN {e}
  ELSE IF up THEN {r.eng : r \in RefreshAdapters(Online(e))}
  ELSE Failed([e EXCEPT !.probe = None])

\* Mutant: a new adapter choice does not end the session.
Configured_KeepsSession(e, c) ==
  [e EXCEPT !.config = c, !.retry = IF c.auto_auth THEN @ ELSE "off"]

\* apply_config() up to its automatic attempt.
Configured(e, c) ==
  LET changed == e.config.account # c.account \/ e.config.iface # c.iface
      enabled == ~e.config.auto_auth /\ c.auto_auth
      set == [e EXCEPT !.config = c,
                       !.retry_attempt = IF enabled THEN 0 ELSE @,
                       !.retry = IF c.auto_auth THEN @ ELSE "off"]
  IN IF changed
     THEN Status([Invalidate(set) EXCEPT !.retry = "off", !.retry_attempt = 0], "Idle")
     ELSE set

ApplyConfig(e, c) ==
  LET changed == e.config.account # c.account \/ e.config.iface # c.iface
      enabled == ~e.config.auto_auth /\ c.auto_auth
  IN IF /\ changed \/ (enabled /\ e.state # "Authenticated")
        /\ c.auto_auth /\ ~e.manual_disconnect /\ ~e.suspended
     THEN OrFailed(Authenticate(Configured(e, c)))
     ELSE {Configured(e, c)}

\* Mutant: a connect is attempted during suspend.
Connect_Suspended(e) ==
  {IF o.ok THEN o.eng ELSE Status(o.eng, "Failed") :
     o \in Authenticate([e EXCEPT !.manual_disconnect = FALSE])}

\* connect(): an error of the attempt is shown, and no retry is armed; the generation and
\* the candidates that are left stay as they are.
Connect(e) ==
  LET asked == [e EXCEPT !.manual_disconnect = FALSE, !.retry_attempt = 0]
  IN IF e.suspended THEN {e}
     ELSE {IF o.ok THEN o.eng ELSE Status(o.eng, "Failed") : o \in Authenticate(asked)}

\* Mutant: the fail-over list survives the disconnect.
Logoff_KeepsCandidates(e) ==
  Status([Invalidate(e) EXCEPT !.manual_disconnect = TRUE, !.retry = "off"], "Idle")

Logoff(e) ==
  Status([Invalidate(e) EXCEPT !.manual_disconnect = TRUE, !.retry = "off",
                               !.candidates = {}], "Idle")

\* The calls whose work may be refused (invalid configuration, failed save, failed
\* scan) also leave the engine as it was.
HandleCall(e, c) ==
  CASE c.action = "authenticate" -> Connect(e)
    [] c.action = "logoff"       -> {Logoff(e)}
    [] c.action = "interfaces"   -> {r.eng : r \in RefreshAdapters(e)}
    [] c.action = "set_config"   -> ApplyConfig(e, c.config) \cup {e}
    [] c.action = "connect"      ->
         {e} \cup IF e.suspended THEN {} ELSE Connect([e EXCEPT !.config = c.config])

-----------------------------------------------------------------------------
(* Notifiers: a latch, then an attempt to queue a wake-up.                 *)

HasRoom == Len(queue) < QueueCap

TrySend(q, ev) == IF Len(q) < QueueCap THEN Append(q, ev) ELSE q

\* The model asks for nothing new past MaxGen; what has begun always goes on.
MayAsk == eng.generation < MaxGen /\ pc # "done"

\* Mutant: the latch is set and nothing wakes the engine.
PowerNotify_Silent(p) ==
  /\ MayAsk
  /\ power' = p
  /\ UNCHANGED <<eng, queue, network, stop, link, pc, event>>

PowerNotify(p) ==
  /\ MayAsk
  /\ power' = p
  /\ queue' = TrySend(queue, [type |-> "power"])
  /\ UNCHANGED <<eng, network, stop, link, pc, event>>

NetworkNotify ==
  /\ MayAsk /\ ~network
  /\ network' = TRUE
  /\ queue' = TrySend(queue, [type |-> "network"])
  /\ UNCHANGED <<eng, power, stop, link, pc, event>>

\* Mutant: the same for the stop latch.
StopNotify_Silent ==
  /\ pc # "done" /\ ~stop
  /\ stop' = TRUE
  /\ UNCHANGED <<eng, queue, power, network, link, pc, event>>

StopNotify ==
  /\ pc # "done" /\ ~stop
  /\ stop' = TRUE
  /\ queue' = TrySend(queue, [type |-> "stop"])
  /\ UNCHANGED <<eng, power, network, link, pc, event>>

\* A cable or adapter comes or goes; the notification may come later, or never.
LinkChange(a) ==
  /\ MayAsk
  /\ link' = IF a \in link THEN link \ {a} ELSE link \cup {a}
  /\ UNCHANGED <<eng, queue, power, network, stop, pc, event>>

\* A client's call; a full queue is refused as "service busy".
ClientCall(c) ==
  /\ MayAsk /\ HasRoom
  /\ queue' = Append(queue, [type |-> "call", call |-> c])
  /\ UNCHANGED <<eng, power, network, stop, link, pc, event>>

\* deliver(): a reader or probe waits for room; one that is dropped meanwhile
\* delivers nothing.
Deliver(ev) == HasRoom /\ queue' = Append(queue, ev)

Capture(f) ==
  /\ eng.session # None /\ eng.session.reader = "running"
  /\ Deliver([type |-> "packet", gen |-> eng.session.gen, frame |-> f])
  /\ UNCHANGED <<eng, power, network, stop, link, pc, event>>

CaptureFails ==
  /\ Faults
  /\ eng.session # None /\ eng.session.reader = "running"
  /\ Deliver([type |-> "capture_error", gen |-> eng.session.gen])
  /\ eng' = [eng EXCEPT !.session.reader = "closed"]
  /\ UNCHANGED <<power, network, stop, link, pc, event>>

ProbeEnds(up) ==
  /\ eng.probe # None /\ eng.probe.result = "running"
  /\ Deliver([type |-> "connectivity", gen |-> eng.probe.gen, up |-> up])
  /\ eng' = [eng EXCEPT !.probe.result = IF up THEN "up" ELSE "down"]
  /\ UNCHANGED <<power, network, stop, link, pc, event>>

-----------------------------------------------------------------------------
(* The engine thread.                                                      *)

\* The engine that a step leaves; what its dropped captures delivered is queued.
Become(e, q) ==
  /\ eng' = [e EXCEPT !.spill = <<>>]
  /\ queue' = LET both == q \o e.spill
              IN IF Len(both) > QueueCap
                 THEN SubSeq(both, 1, QueueCap) ELSE both

Stopping(q) ==
  /\ eng' = Status(Invalidate(eng), "Stopped")
  /\ queue' = q
  /\ stop' = FALSE
  /\ pc' = "done"
  /\ UNCHANGED <<power, network, link, event>>

\* run() before its loop.
BootStopped == pc = "boot" /\ stop /\ Stopping(queue)

Boot ==
  /\ pc = "boot" /\ ~stop
  /\ LET e == DrainPower(eng, power)
     IN \E s \in IF e.suspended \/ e.retry # "off" THEN {e} ELSE Start(e) :
          Become(s, queue)
  /\ power' = "none"
  /\ pc' = "wait"
  /\ UNCHANGED <<network, stop, link, event>>

\* handle(): the stop latch outranks the event that was received.
TakeStopped == pc = "wait" /\ queue # <<>> /\ stop /\ Stopping(Tail(queue))

\* handle() up to its match: the latches are applied before the event.
TakeEvent ==
  /\ pc = "wait" /\ queue # <<>> /\ ~stop
  /\ LET scan == network /\ Head(queue).type # "network"
     IN /\ \E e \in DrainNetwork(DrainPower(eng, power), scan) : Become(e, Tail(queue))
        /\ network' = (network /\ ~scan)
  /\ power' = "none"
  /\ event' = Head(queue)
  /\ pc' = "dispatch"
  /\ UNCHANGED <<stop, link>>

\* recv_timeout() ran out; a suspended engine waits for an event only.
Timeout ==
  /\ pc = "wait" /\ queue = <<>> /\ ~eng.suspended
  /\ pc' = "tick"
  /\ UNCHANGED <<eng, queue, power, network, stop, link, event>>

Dispatch(type, engines) ==
  /\ pc = "dispatch" /\ event.type = type
  /\ \E e \in engines : Become(e, queue)
  /\ event' = None
  /\ pc' = "tick"
  /\ UNCHANGED <<power, stop, link>>

HandlePacket == Dispatch("packet", Packet(eng, event.gen, event.frame)) /\ UNCHANGED network
HandleCaptureError == Dispatch("capture_error", CaptureError(eng, event.gen)) /\ UNCHANGED network
HandleConnectivity ==
  Dispatch("connectivity", Connectivity(eng, event.gen, event.up)) /\ UNCHANGED network
HandleControl == Dispatch("call", HandleCall(eng, event.call)) /\ UNCHANGED network
HandlePower == Dispatch("power", {eng}) /\ UNCHANGED network
HandleNetwork == Dispatch("network", OrFailed(NetworkChanged(eng))) /\ network' = FALSE

\* tick(): nothing is done while a stop is pending; a suspended engine stops here.
TickStopped ==
  /\ pc = "tick" /\ stop
  /\ pc' = "wait"
  /\ UNCHANGED <<eng, queue, power, network, stop, link, event>>

Expire(e, due) ==
  [e EXCEPT !.retry = IF "retry" \in due /\ @ = "armed" THEN "expired" ELSE @,
            !.handshake = IF "handshake" \in due /\ @ = "armed" THEN "expired" ELSE @,
            !.start = IF "start" \in due /\ @ = "armed" THEN "expired" ELSE @,
            !.reconcile = IF "reconcile" \in due THEN "expired" ELSE @]

\* Which deadlines can be past when the clock is read: any; the ones that begin
\* something new only below MaxGen.
Dues == SUBSET ({"handshake", "start"}
                 \cup IF MayAsk THEN {"retry", "reconcile"} ELSE {})

SomeDue(e) == "expired" \in {e.reconcile, e.handshake, e.start, e.retry}

TickDrain(due) ==
  /\ pc = "tick" /\ ~stop
  /\ \E e \in DrainNetwork(DrainPower(eng, power), network) :
       LET now == IF e.suspended THEN e ELSE Expire(e, due)
       IN Become(now, queue) /\ pc' = IF SomeDue(now) THEN "due" ELSE "wait"
  /\ power' = "none" /\ network' = FALSE
  /\ UNCHANGED <<stop, link, event>>

\* The rest of tick(), one deadline at a time in the order of the code.
Due(engines) ==
  /\ pc = "due"
  /\ \E e \in engines :
       Become(e, queue) /\ pc' = IF SomeDue(e) THEN "due" ELSE "wait"
  /\ UNCHANGED <<power, network, stop, link, event>>

\* Mutant: the periodic step reloads the settings and does not look at the links.
Reconcile_ConfigOnly ==
  /\ eng.reconcile = "expired"
  /\ Due({[eng EXCEPT !.reconcile = "armed"]})

\* The configuration file is as it was, or holds another valid configuration.
Reconcile ==
  /\ eng.reconcile = "expired"
  /\ LET quiet == [eng EXCEPT !.reconcile = "armed"]
         reloaded == {quiet} \cup UNION {ApplyConfig(quiet, c) : c \in Configs \ {eng.config}}
     IN Due(UNION {OrFailed(NetworkChanged(e)) : e \in reloaded})

HandshakeTimeout ==
  /\ eng.reconcile # "expired" /\ eng.handshake = "expired"
  /\ Due(Failed(eng))

ResendStart ==
  /\ "expired" \notin {eng.reconcile, eng.handshake} /\ eng.start = "expired"
  /\ Due({[eng EXCEPT !.start = "armed"]}
           \cup IF Faults /\ eng.session # None THEN Failed(eng) ELSE {})

RetryNow ==
  /\ "expired" \notin {eng.reconcile, eng.handshake, eng.start} /\ eng.retry = "expired"
  /\ Due(OrFailed(Authenticate([eng EXCEPT !.retry = "off"])))

Finished == pc = "done" /\ UNCHANGED vars

-----------------------------------------------------------------------------
Init ==
  /\ \E c \in Configs, a \in Adapters \cup {None} :
       eng = [state |-> "Idle", internet |-> FALSE, suspended |-> FALSE,
              manual_disconnect |-> FALSE, config |-> c, adapter |-> None,
              adapters |-> {}, candidates |-> {}, cache |-> a, session |-> None,
              probe |-> None, peer |-> NoPeer, generation |-> 0, retry |-> "off",
              retry_attempt |-> 0, handshake |-> "off", start |-> "off",
              reconcile |-> "armed", spill |-> <<>>]
  /\ queue = <<>> /\ power = "none" /\ network = FALSE /\ stop = FALSE
  /\ link \in SUBSET Adapters
  /\ pc = "boot" /\ event = None

World ==
  \/ \E p \in Powers : PowerNotify(p)
  \/ NetworkNotify
  \/ StopNotify
  \/ \E a \in Adapters : LinkChange(a)
  \/ \E c \in Calls : ClientCall(c)

Workers ==
  \/ \E f \in Frames : Capture(f)
  \/ CaptureFails
  \/ \E up \in BOOLEAN : ProbeEnds(up)

Thread ==
  \/ BootStopped
  \/ Boot
  \/ TakeStopped
  \/ TakeEvent
  \/ Timeout
  \/ HandlePacket
  \/ HandleCaptureError
  \/ HandleConnectivity
  \/ HandleControl
  \/ HandlePower
  \/ HandleNetwork
  \/ TickStopped
  \/ \E due \in Dues : TickDrain(due)
  \/ Reconcile
  \/ HandshakeTimeout
  \/ ResendStart
  \/ RetryNow

Next == World \/ Workers \/ Thread \/ Finished

Spec == Init /\ [][Next]_vars

\* The engine thread runs; a probe ends, for check_with() makes three rounds of
\* bounded pings and deliver() then retries every 10 ms, so that a queue that has
\* room again and again has it at such a moment (strong fairness); and the clock
\* advances, so a deadline that stays armed is found past by some tick().
TickFinds(d) ==
  /\ eng[d] = "armed"
  /\ \E due \in Dues : d \in due /\ TickDrain(due)

Fairness ==
  /\ WF_vars(Thread)
  /\ SF_vars(\E up \in BOOLEAN : ProbeEnds(up))
  /\ \A d \in {"handshake", "start", "retry", "reconcile"} : SF_vars(TickFinds(d))

FairSpec == Spec /\ Fairness

-----------------------------------------------------------------------------
(* Properties.                                                             *)

TypeOK ==
  /\ eng \in EngineState /\ eng.spill = <<>>
  /\ queue \in Seq(Event) /\ Len(queue) <= QueueCap
  /\ power \in PowerEvent \cup {"none"}
  /\ network \in BOOLEAN /\ stop \in BOOLEAN
  /\ link \subseteq Adapters
  /\ pc \in {"boot", "wait", "dispatch", "tick", "due", "done"}
  /\ event \in Event \cup {None}
  /\ pc = "dispatch" => event \in Event

\* A manual disconnect holds (docs/ARCHITECTURE.md:9): whatever arrives later -
\* old callbacks, a new configuration, a resume, a link change, a deadline -
\* nothing of an attempt is left and nothing begins one.
ManualStaysOff ==
  eng.manual_disconnect =>
    /\ eng.session = None /\ eng.probe = None /\ eng.candidates = {}
    /\ eng.retry = "off" /\ eng.handshake = "off"
    /\ eng.state \in {"Idle", "Failed", "Stopped"}

\* A suspended machine keeps no capture, probe or timer, so that the engine,
\* which then waits without a timeout, misses nothing that was due.
SuspendedIsQuiet ==
  eng.suspended =>
    /\ eng.session = None /\ eng.probe = None /\ eng.adapter = None
    /\ {eng.retry, eng.handshake, eng.start} = {"off"}
    /\ eng.state \in {"Idle", "Stopped"}

\* "Authenticating" is always on its way out: a handshake that is timed, on the
\* adapter shown, or a probe that will answer.
NeverStuckAuthenticating ==
  eng.state = "Authenticating" =>
    \/ eng.handshake # "off" /\ eng.session # None
    \/ eng.probe # None /\ eng.handshake = "off"

\* Online nothing of the attempt is left behind: no fail-over candidate, no timer
\* that would tear the session down, no second probe.  Only then is there Internet.
OnlineIsSettled ==
  /\ eng.internet <=> eng.state = "Authenticated"
  /\ eng.state = "Authenticated" =>
       /\ eng.probe = None /\ eng.candidates = {}
       /\ {eng.retry, eng.handshake, eng.start} = {"off"}

\* The running capture is the current attempt's, on the adapter that is shown, and
\* on one the configuration in force allows; nothing queued is from the future.
SessionIsCurrent ==
  /\ eng.session # None =>
       /\ eng.session.gen = eng.generation
       /\ eng.session.adapter = eng.adapter
       /\ eng.config.iface \in {AutoIface, eng.adapter}
       /\ eng.retry = "off"
  /\ eng.probe # None => eng.probe.gen = eng.generation
  /\ \A i \in DOMAIN queue : queue[i].type \in Callbacks => queue[i].gen <= eng.generation

\* With automatic authentication off no retry is ever pending.
NoRetryUnasked == ~eng.config.auto_auth => eng.retry = "off"

\* A handshake is with one authenticator: the peer changes while a session goes on
\* only online, when another authenticator sends a request.
PeerIsPinned ==
  [][/\ eng.peer # NoPeer /\ eng'.peer # NoPeer /\ eng'.peer # eng.peer
     => /\ eng.state = "Authenticated" \/ eng.probe # None
        /\ event.type = "packet" /\ event.frame.kind = "request"]_vars

\* Authenticated is entered only on the answer of the probe of this very attempt,
\* never on that of an attempt that was abandoned.
OnlineByOwnProbe ==
  [][eng.state # "Authenticated" /\ eng'.state = "Authenticated"
     => eng.probe # None /\ eng.probe.result = "up" /\ ~eng.suspended]_vars

\* What is handled is the late word of a capture of this attempt that is gone since its
\* first send failed.
LateWord ==
  /\ pc = "dispatch" /\ event.type \in {"packet", "capture_error"}
  /\ event.gen = eng.generation /\ eng.session = None

\* The next of the attempt's other candidates is tried: while the attempt is shown, or,
\* once its failure has been reported (engine.rs:654), on such a late word.
FailOver ==
  /\ eng'.session.adapter \in eng.candidates
  /\ eng.state = "Authenticating" \/ LateWord

\* A capture is opened only for a user's connect, automatically where that is enabled, or
\* by fail-over of an attempt to the candidates it has left; one whose failure was reported
\* goes on only if the capture that failed still has something to say.
OpenedOnlyIfWanted ==
  [][eng'.session # None /\ eng'.generation # eng.generation
     => /\ ~eng'.manual_disconnect /\ ~eng'.suspended /\ ValidAuth(eng'.config)
        /\ \/ eng'.config.auto_auth
           \/ pc = "dispatch" /\ event.type = "call"
                /\ event.call.action \in {"authenticate", "connect"}
           \/ FailOver]_vars

\* A renewal does not cost the session: while online, the capture is dropped only
\* for a reason - the call of a user, a power or stop notification, a changed
\* configuration, a failure or error on the wire, or a scan that misses the adapter.
SessionKept ==
  [][eng.state = "Authenticated" /\ eng.session # None /\ eng'.session # eng.session
     => \/ eng'.session # None /\ eng'.session.reader = "closed"
        \/ eng.adapter \notin eng'.adapters
        \/ power # "none" \/ stop
        \/ pc = "dispatch" /\ event.type \in {"call", "capture_error"}
        \/ pc = "dispatch" /\ event.type = "packet"
             /\ event.frame.kind \in {"failure", "malformed", "request"}
        \/ pc = "due" /\ eng.reconcile = "expired" /\ eng'.config # eng.config]_vars

\* The wait before a retry shrinks only for a reason: an attempt that succeeded or
\* a session that was lost, a user's connect, a changed configuration, a power
\* event, or the first cable that is plugged in.
BackoffIsKept ==
  [][eng'.retry_attempt < eng.retry_attempt
     => \/ "Authenticated" \in {eng.state, eng'.state}
        \/ pc = "dispatch" /\ event.type = "call"
             /\ event.call.action \in {"authenticate", "connect", "set_config"}
        \/ eng'.config # eng.config
        \/ power # "none"
        \/ eng.adapters = {} /\ eng'.adapters # {}]_vars

\* Online, the session that was authenticated is still open (docs/ARCHITECTURE.md:7).
OnlineHasSession == eng.state = "Authenticated" => eng.session # None

\* No attempt stays on "Authenticating" for ever, even against an authenticator
\* that keeps asking and never decides.
AttemptEnds == eng.state = "Authenticating" ~> eng.state # "Authenticating"

\* A stop request ends the engine, also when the queue had no room for its wake-up.
StopIsServed == stop ~> pc = "done"

\* A power notification is applied, or replaced by a later one.
PowerIsApplied ==
  \A p \in Powers :
    power = p ~> power # p \/ pc = "done"

\* Whatever is latched is served, also when its wake-up found the queue full.
LatchesAreServed == StopIsServed /\ PowerIsApplied

\* With automatic authentication wanted and a usable adapter up, a session is opened
\* or retried even if the notification of the link was lost, or something changes;
\* provided that the scans of the reconciliation do not fail for ever.
Wanted ==
  /\ eng.config.auto_auth /\ ValidAuth(eng.config)
  /\ ~eng.manual_disconnect /\ ~eng.suspended /\ eng.session = None
  /\ \E a \in link : eng.config.iface \in {AutoIface, a}
  /\ MayAsk

Tried == eng.session # None \/ eng.retry # "off"

NoForgottenLink == SF_vars(Reconcile /\ Tried') => (Wanted ~> ~Wanted \/ Tried)
=============================================================================
