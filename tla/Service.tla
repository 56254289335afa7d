------------------------------- MODULE Service -------------------------------
(***************************************************************************)
(* The life of the processes that run the service: run() of                *)
(* src/src/service.rs, started by the service control manager of Windows   *)
(* or on Unix, with the handlers that ask it to stop, the instance lock    *)
(* and the control endpoint.                                               *)
(*                                                                         *)
(* A process that fails to start and one that is told to stop leave in the *)
(* order in which Rust drops the variables of run().  The engine is        *)
(* reduced to the capture it may have open and the stop latch it obeys.    *)
(***************************************************************************)
EXTENDS InstanceLock

CONSTANTS
  Processes,  \* bound: processes of the service that exist over time, old and new
  Stale,      \* a socket's file that is left over
  Unfit       \* whether a step of the start may fail

\* Assumed where the constants get their values.
ServiceParameters == {NoOne, Stale} \cap Processes = {} /\ NoOne # Stale /\ Unfit \in BOOLEAN

VARIABLES
  platform,  \* "unix" or "windows"
  phase,     \* how far each process is
  status,    \* the state it last reported to the control manager
  handler,   \* where the control handler is
  stopping,  \* Signal.pending of its stop notifier
  capture,   \* whether its engine has a capture open
  endpoint   \* who answers under the endpoint's name

own == <<phase, status, handler, stopping, capture>>
vars == <<platform, own, endpoint, holder>>

Phases == {"off", "locked", "built", "stoppable", "serving", "running",
           "ended", "unserved", "released", "reported"}

\* The stop notifier is registered and its latch still matters: a stop that comes after
\* the engine's end changes nothing.
Stoppable == {"stoppable", "serving", "running"}
Unregistered == {"locked", "built"}

\* The control manager runs the service on Windows.
Managed == platform = "windows"

Goes(p, to) == phase' = [phase EXCEPT ![p] = to]
Reports(p, s) == status' = IF Managed THEN [status EXCEPT ![p] = s] ELSE status

\* What the system takes back from a process that is gone.
Gone(p) ==
  /\ Goes(p, "off")
  /\ status' = [status EXCEPT ![p] = "stopped"]
  /\ handler' = [handler EXCEPT ![p] = "idle"]
  /\ stopping' = [stopping EXCEPT ![p] = FALSE]
  /\ capture' = [capture EXCEPT ![p] = FALSE]
  /\ Released(p)
  /\ endpoint' = IF endpoint # p THEN endpoint ELSE IF Managed THEN NoOne ELSE Stale

-----------------------------------------------------------------------------
(* run()                                                                   *)

\* A process starts and tries for the lock before it touches anything else: one that is
\* refused leaves at once, and has the control manager to tell.  The manager starts no
\* second process of a service that is not stopped.
Start(p) ==
  /\ phase[p] = "off"
  /\ \/ Acquired(p) /\ Goes(p, "locked")
     \/ Refused /\ Goes(p, "released")
  /\ Managed => \A q \in Processes : status[q] = "stopped"
  /\ Reports(p, "start pending")
  /\ UNCHANGED <<platform, handler, stopping, capture, endpoint>>

\* The directories and Engine::new().  Mutant: the control manager is told here already
\* that the service runs.
Build_Ready(p) ==
  /\ phase[p] = "locked" /\ Goes(p, "built") /\ Reports(p, "running")
  /\ UNCHANGED <<platform, handler, stopping, capture, endpoint, holder>>

Build(p) ==
  /\ phase[p] = "locked"
  /\ \/ Goes(p, "built")
     \/ Unfit /\ Goes(p, "unserved")
  /\ UNCHANGED <<platform, status, handler, stopping, capture, endpoint, holder>>

\* signal_thread(), register_stop_notifier().
Register(p) ==
  /\ phase[p] = "built"
  /\ \/ Goes(p, "stoppable")
     \/ platform = "unix" /\ Unfit /\ Goes(p, "unserved")
  /\ UNCHANGED <<platform, status, handler, stopping, capture, endpoint, holder>>

\* Whether somebody answers at the endpoint: a listener lives as long as its process.
Answered == endpoint \in Processes

\* ipc::start(): a socket that nobody answers is removed; one that is bound in vain stays.
Serve(p) ==
  /\ phase[p] = "stoppable"
  /\ \/ ~Answered /\ endpoint' = p /\ Goes(p, "serving")
     \/ (Answered \/ Unfit) /\ endpoint' = endpoint /\ Goes(p, "unserved")
     \/ ~Answered /\ ~Managed /\ Unfit /\ endpoint' = Stale /\ Goes(p, "unserved")
  /\ UNCHANGED <<platform, status, handler, stopping, capture, holder>>

\* The monitor, which may fail, the power notifier and service_ready().
Ready(p) ==
  /\ phase[p] = "serving" /\ Goes(p, "running") /\ Reports(p, "running")
  /\ UNCHANGED <<platform, handler, stopping, capture, endpoint, holder>>

\* Engine::run(): captures come and go until it sees the latch.
Run(p) ==
  /\ phase[p] = "running" /\ ~stopping[p]
  /\ capture' = [capture EXCEPT ![p] = ~@]
  /\ UNCHANGED <<platform, phase, status, handler, stopping, endpoint, holder>>

\* Mutant: the lock goes with the engine.
Leave_Unlocks(p) ==
  /\ phase[p] = "running" /\ stopping[p] /\ Goes(p, "ended") /\ Released(p)
  /\ stopping' = [stopping EXCEPT ![p] = FALSE]
  /\ capture' = [capture EXCEPT ![p] = FALSE]
  /\ UNCHANGED <<platform, status, handler, endpoint>>

Leave(p) ==
  /\ phase[p] = "running" /\ stopping[p] /\ Goes(p, "ended")
  /\ stopping' = [stopping EXCEPT ![p] = FALSE]
  /\ capture' = [capture EXCEPT ![p] = FALSE]
  /\ UNCHANGED <<platform, status, handler, endpoint, holder>>

\* Server::drop(): on Unix the socket's file is removed, whoever's it is; a pipe stays
\* as long as its process.
DropServer(p) ==
  /\ phase[p] = "ended" /\ Goes(p, "unserved")
  /\ endpoint' = IF platform = "unix" THEN NoOne ELSE endpoint
  /\ UNCHANGED <<platform, status, handler, stopping, capture, holder>>

\* _guard is dropped last.
Unlock(p) ==
  /\ phase[p] = "unserved" /\ Goes(p, "released") /\ Released(p)
  /\ stopping' = [stopping EXCEPT ![p] = FALSE]
  /\ UNCHANGED <<platform, status, handler, capture, endpoint>>

\* service_main() reports STOPPED; the process ends a moment later.
Stopped(p) ==
  /\ phase[p] = "released" /\ Managed /\ Goes(p, "reported") /\ Reports(p, "stopped")
  /\ UNCHANGED <<platform, handler, stopping, capture, endpoint, holder>>

Exit(p) ==
  /\ phase[p] = "reported" \/ (phase[p] = "released" /\ ~Managed)
  /\ Gone(p) /\ UNCHANGED platform

-----------------------------------------------------------------------------
(* Requests to stop                                                        *)

\* control() is called: only a service that reported RUNNING accepts STOP.
Control(p) ==
  /\ status[p] = "running" /\ handler[p] = "idle"
  /\ handler' = [handler EXCEPT ![p] = "entered"]
  /\ UNCHANGED <<platform, phase, status, stopping, capture, endpoint, holder>>

ControlReports(p) ==
  /\ handler[p] = "entered" /\ handler' = [handler EXCEPT ![p] = "reported"]
  /\ Reports(p, "stop pending")
  /\ UNCHANGED <<platform, phase, stopping, capture, endpoint, holder>>

\* A notifier that is not registered yet cannot be told.
ControlNotifies(p) ==
  /\ handler[p] = "reported" /\ handler' = [handler EXCEPT ![p] = "idle"]
  /\ stopping' = [stopping EXCEPT ![p] = @ \/ phase[p] \in Stoppable]
  /\ UNCHANGED <<platform, phase, status, capture, endpoint, holder>>

\* SIGINT, SIGTERM: before anybody waits for it, it ends the process.
Signal(p) ==
  \/ /\ ~Managed /\ phase[p] \in Stoppable /\ ~stopping[p]
     /\ stopping' = [stopping EXCEPT ![p] = TRUE]
     /\ UNCHANGED <<platform, phase, status, handler, capture, endpoint, holder>>
  \/ ~Managed /\ phase[p] \in Unregistered /\ Gone(p) /\ UNCHANGED platform

Crash(p) == phase[p] # "off" /\ Gone(p) /\ UNCHANGED platform

-----------------------------------------------------------------------------

Init ==
  /\ platform \in {"unix", "windows"}
  /\ phase = [p \in Processes |-> "off"]
  /\ status = [p \in Processes |-> "stopped"] /\ handler = [p \in Processes |-> "idle"]
  /\ stopping = [p \in Processes |-> FALSE] /\ capture = [p \in Processes |-> FALSE]
  /\ endpoint = NoOne

Step(p) ==
  \/ Build(p) \/ Register(p) \/ Serve(p) \/ Ready(p)
  \/ Leave(p) \/ DropServer(p) \/ Unlock(p) \/ Stopped(p) \/ Exit(p)

Handler(p) == ControlReports(p) \/ ControlNotifies(p)

Next == \E p \in Processes :
  Start(p) \/ Step(p) \/ Run(p) \/ Control(p) \/ Handler(p) \/ Signal(p) \/ Crash(p)

\* Both threads run; captures need not come and go, nobody has to start or to stop it.
Fairness == \A p \in Processes : WF_vars(Step(p)) /\ WF_vars(Handler(p))

-----------------------------------------------------------------------------
(* Properties.                                                             *)

TypeOK ==
  /\ platform \in {"unix", "windows"}
  /\ phase \in [Processes -> Phases]
  /\ status \in [Processes -> {"stopped", "start pending", "running", "stop pending"}]
  /\ handler \in [Processes -> {"idle", "entered", "reported"}]
  /\ stopping \in [Processes -> BOOLEAN] /\ capture \in [Processes -> BOOLEAN]
  /\ endpoint \in Processes \cup {NoOne, Stale}

\* On Unix the process that holds the lock never finds a predecessor still answering at
\* the endpoint, so a start that follows a stop or a crash does not fail on it.
EndpointIsFree ==
  platform = "unix" => \A p \in Processes : phase[p] = "stoppable" => ~Answered

\* A stop that the control manager or a signal asked for is carried out, wherever in
\* its start or in its end the service is.
StopIsHonoured == \A p \in Processes : handler[p] # "idle" \/ stopping[p] ~> phase[p] = "off"
=============================================================================
