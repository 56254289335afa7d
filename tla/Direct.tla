-------------------------------- MODULE Direct --------------------------------
(***************************************************************************)
(* Direct authentication, probing and logoff from the command line:        *)
(* direct() and LOGOFF of src/src/bin/cli.rs, with the two kinds of worker threads it owns: the   *)
(* reader of a capture (platform/mod.rs Session) and the reachability      *)
(* check (connectivity.rs Probe), and the signal thread.                   *)
(*                                                                         *)
(* The adapters that match are tried one after the other; the generation   *)
(* of an adapter's events is its place in that order.                      *)
(***************************************************************************)
EXTENDS Authentication, InstanceLock, Naturals, Sequences

CONSTANTS
  Self,         \* this process
  MaxAdapters,  \* bound: connected Ethernet adapters that match
  Frames,       \* frames an open capture may see, a subset of Frame
  QueueCap,     \* capacity of the event queue (256)
  None,         \* no result yet, nothing to deliver
  Faults        \* whether system calls may fail

\* What direct() can report.
Results == {"error", "failed", "interrupted", "server", "authenticated", "logoff"}

\* Assumed where the constants get their values.
DirectParameters ==
  /\ Self # NoOne /\ MaxAdapters \in Nat /\ NoPeer \notin Servers /\ Frames \subseteq Frame
  /\ QueueCap \in Nat \ {0} /\ Faults \in BOOLEAN /\ None \notin Results

VARIABLES
  pc,        \* where direct() is
  mode,      \* "probe", "authenticate" or "logoff"
  adapters,  \* how many adapters match
  index,     \* the adapter that is tried: the generation
  queue,     \* the channel
  interrupt, \* Signal.pending
  expired,   \* whether the adapter's deadline has passed
  peer,      \* the pinned authenticator
  success,   \* eap_success
  result,    \* what direct() returns once it is known
  worker,    \* the threads
  late       \* history: events handled while an interrupt was pending, at most 2

state == <<mode, adapters, index, queue, interrupt, expired, peer, success, result, worker, late>>
vars == <<pc, state, holder>>

Modes == {"probe", "authenticate", "logoff"}
Generations == 1..MaxAdapters
Event == [type : {"packet"}, gen : Generations, frame : Frames]
          \cup [type : {"capture_error"}, gen : Generations]
          \cup [type : {"connectivity"}, gen : Generations, up : BOOLEAN]
          \cup [type : {"stop"}]

\* A reader is busy receiving, a check is busy with its pings; each may be delivering.
Workers == {"capture", "probe"} \X Generations
Idle == [at |-> "none", stop |-> FALSE, event |-> None]
Threads == [at : {"none", "busy", "deliver", "done"}, stop : BOOLEAN,
            event : Event \cup {None}]

Alive(w) == worker[w].at \in {"busy", "deliver"}
Session == <<"capture", index>>
Checker == <<"probe", index>>

TrySend(e) == IF Len(queue) < QueueCap THEN Append(queue, e) ELSE queue

-----------------------------------------------------------------------------
(* The workers                                                             *)

\* Session::open() and Probe::start() spawn.
Spawned(w) == [worker EXCEPT ![w] = [Idle EXCEPT !.at = "busy"]]

Becomes(w, at) == worker' = [worker EXCEPT ![w].at = at]

Returns(w) == worker' = [worker EXCEPT ![w] = [Idle EXCEPT !.at = "done"]]

Delivers(w, e) == worker' = [worker EXCEPT ![w].at = "deliver", ![w].event = e]

\* Capture::receive(): a stop goes before a frame; an error ends the reader.
Hear(g) ==
  LET w == <<"capture", g>>
  IN /\ worker[w].at = "busy"
     /\ \/ worker[w].stop /\ Returns(w)
        \/ ~worker[w].stop /\ \E f \in Frames :
             Delivers(w, [type |-> "packet", gen |-> g, frame |-> f])
        \/ ~worker[w].stop /\ Faults /\ Delivers(w, [type |-> "capture_error", gen |-> g])
     /\ UNCHANGED <<pc, mode, adapters, index, queue, interrupt, expired, peer, success, result,
                    late, holder>>

\* ping(): a stop wakes the wait for the echo, which then has failed.
Answers(w) == IF worker[w].stop THEN {FALSE} ELSE BOOLEAN

\* check_with(): rounds of pings until one is answered.  A check that was stopped, in a
\* ping or in the pause between two rounds, delivers nothing.
Ping(g) ==
  LET w == <<"probe", g>>
  IN /\ worker[w].at = "busy"
     /\ \E up \in Answers(w) :
          IF worker[w].stop THEN Returns(w)
          ELSE Delivers(w, [type |-> "connectivity", gen |-> g, up |-> up])
     /\ UNCHANGED <<pc, mode, adapters, index, queue, interrupt, expired, peer, success, result,
                    late, holder>>

\* Once its event is in the queue a reader goes on, unless the event was an error.
Delivered(w) ==
  IF worker[w].event.type = "packet"
  THEN worker' = [worker EXCEPT ![w].at = "busy", ![w].event = None]
  ELSE Returns(w)

\* deliver(): room is tried for before the stop is looked at.  Mutant: it waits for
\* room whatever happens.
Deliver_Unstopped(w) ==
  /\ worker[w].at = "deliver" /\ Len(queue) < QueueCap
  /\ queue' = Append(queue, worker[w].event) /\ Delivered(w)
  /\ UNCHANGED <<pc, mode, adapters, index, interrupt, expired, peer, success, result, late, holder>>

Deliver(w) ==
  /\ worker[w].at = "deliver"
  /\ \/ Len(queue) < QueueCap /\ queue' = Append(queue, worker[w].event) /\ Delivered(w)
     \/ Len(queue) = QueueCap /\ worker[w].stop /\ queue' = queue /\ Returns(w)
  /\ UNCHANGED <<pc, mode, adapters, index, interrupt, expired, peer, success, result, late, holder>>

\* SIGINT, SIGTERM or a console event: the latch, then an event if there is room.
Interrupt ==
  /\ pc \notin {"start", "logoff", "done"} /\ ~interrupt
  /\ interrupt' = TRUE /\ queue' = TrySend([type |-> "stop"])
  /\ UNCHANGED <<pc, mode, adapters, index, expired, peer, success, result, worker, late, holder>>

-----------------------------------------------------------------------------
(* direct()                                                                *)

\* Mutant: the events of any adapter.
Own_Any(e) == TRUE
Own(e) == e.gen = index

Finishes(r) == result' = r /\ pc' = "close"

\* The lock, then the adapters; the number of those that match is up to the machine.
Begin ==
  /\ pc = "start"
  /\ \/ Acquired(Self) /\ adapters > 0 /\ index' = 1 /\ result' = result
        /\ pc' = IF mode = "logoff" THEN "logoff" ELSE "open"
     \/ Acquired(Self) /\ (adapters = 0 \/ Faults) /\ index' = index /\ pc' = "release"
        /\ result' = "error"
     \/ Refused /\ index' = index /\ pc' = "done" /\ result' = result
  /\ UNCHANGED <<mode, adapters, queue, interrupt, expired, peer, success, worker, late>>

\* Session::open() and the first START.  An adapter that cannot be opened is passed
\* over; a START that cannot be sent ends the command.
Open ==
  /\ pc = "open" /\ index <= adapters
  /\ \/ /\ worker' = Spawned(Session) /\ index' = index
        /\ expired' = FALSE /\ peer' = NoPeer /\ success' = FALSE
        /\ \/ pc' = "loop" /\ result' = result
           \/ Faults /\ Finishes("error")
     \/ /\ Faults /\ index' = index + 1
        /\ UNCHANGED <<pc, expired, peer, success, result, worker>>
  /\ UNCHANGED <<mode, adapters, queue, interrupt, late, holder>>

NoneLeft ==
  /\ pc = "open" /\ index > adapters
  /\ pc' = "release" /\ result' = "failed"
  /\ UNCHANGED <<mode, adapters, index, queue, interrupt, expired, peer, success, worker, late, holder>>

\* LOGOFF with an adapter: it is opened for one frame.
DirectLogoff ==
  /\ pc = "logoff" /\ pc' = "release"
  /\ result' \in {"logoff"} \cup (IF Faults THEN {"error"} ELSE {})
  /\ UNCHANGED <<mode, adapters, index, queue, interrupt, expired, peer, success, worker, late, holder>>

\* The clock.
Expire ==
  /\ pc \in {"loop", "wait"} /\ ~expired /\ expired' = TRUE
  /\ UNCHANGED <<pc, mode, adapters, index, queue, interrupt, peer, success, result, worker, late,
                 holder>>

\* The head of the loop.  Mutant: only the event in the queue interrupts.
Check_NoTake ==
  /\ pc = "loop"
  /\ IF expired THEN pc' = "close" /\ UNCHANGED <<result, interrupt>>
     ELSE pc' = "wait" /\ UNCHANGED <<result, interrupt>>
  /\ UNCHANGED <<mode, adapters, index, queue, expired, peer, success, worker, late, holder>>

Check ==
  /\ pc = "loop"
  /\ IF expired THEN pc' = "close" /\ UNCHANGED <<result, interrupt>>
     ELSE IF interrupt THEN Finishes("interrupted") /\ interrupt' = FALSE
     ELSE pc' = "wait" /\ UNCHANGED <<result, interrupt>>
  /\ UNCHANGED <<mode, adapters, index, queue, expired, peer, success, worker, late, holder>>

\* The tail of the loop: START is sent again while no authenticator has answered.
GoesOn == \/ pc' = "loop" /\ result' = result
          \/ Faults /\ peer' = NoPeer /\ Finishes("error")

\* recv_timeout() returns without an event: after a second, or at the deadline.
Quiet ==
  /\ pc = "wait" /\ queue = <<>> /\ (peer = NoPeer \/ expired)
  /\ peer' = peer /\ GoesOn
  /\ UNCHANGED <<mode, adapters, index, queue, interrupt, expired, success, worker, late, holder>>

\* An answer to a request; a send that fails ends the command.
Exchange(f) ==
  LET outcome == Receive(peer, f, success)
  IN /\ peer' = PeerAfter(peer, f, success)
     /\ \/ outcome \in {"ignore", "response"} /\ GoesOn /\ UNCHANGED <<success, worker>>
        \/ /\ outcome = "error" \/ (Faults /\ outcome = "response")
           /\ Finishes("error") /\ UNCHANGED <<success, worker>>
        \/ outcome = "failure" /\ pc' = "close" /\ UNCHANGED <<result, success, worker>>
        \/ outcome = "success" /\ success /\ GoesOn /\ UNCHANGED <<success, worker>>
        \/ /\ outcome = "success" /\ ~success /\ success' = TRUE
           /\ \/ worker' = Spawned(Checker) /\ GoesOn
              \/ Faults /\ worker' = worker /\ Finishes("error")

\* The request of any authenticator is what a probe was looking for.
HandlePacket(e) ==
  /\ e.type = "packet" /\ Own(e)
  /\ IF mode = "probe" /\ e.frame.here /\ IsRequest(e.frame)
     THEN Finishes("server") /\ UNCHANGED <<peer, success, worker>>
     ELSE Exchange(e.frame)

HandleConnectivity(e) ==
  /\ e.type = "connectivity" /\ Own(e)
  /\ IF e.up THEN Finishes("authenticated") ELSE pc' = "close" /\ result' = result
  /\ UNCHANGED <<peer, success, worker>>

HandleError(e) ==
  /\ e.type = "capture_error" /\ Own(e)
  /\ pc' = "close" /\ UNCHANGED <<result, peer, success, worker>>

HandleStop(e) ==
  /\ e.type = "stop" /\ Finishes("interrupted") /\ UNCHANGED <<peer, success, worker>>

HandleOther(e) ==
  /\ e.type # "stop" /\ ~Own(e)
  /\ UNCHANGED <<peer, success, worker>> /\ GoesOn

Take ==
  /\ pc = "wait" /\ queue # <<>>
  /\ queue' = Tail(queue)
  /\ late' = IF interrupt /\ late < 2 THEN late + 1 ELSE late
  /\ LET e == Head(queue)
     IN \/ HandlePacket(e) \/ HandleConnectivity(e) \/ HandleError(e) \/ HandleStop(e) \/ HandleOther(e)
  /\ UNCHANGED <<mode, adapters, index, interrupt, expired, holder>>

\* Probe::drop(), then Session::drop(): stop and join.  Mutant: the thread of the
\* capture is left to itself.
Ended(w) == ~Alive(w)
Stops(w) == worker' = [worker EXCEPT ![w].stop = Alive(w)]

DropProbe ==
  /\ pc = "close" /\ Stops(Checker) /\ pc' = "join probe"
  /\ UNCHANGED <<mode, adapters, index, queue, interrupt, expired, peer, success, result, late, holder>>

DropSession ==
  /\ pc = "join probe" /\ Ended(Checker) /\ Stops(Session) /\ pc' = "join capture"
  /\ UNCHANGED <<mode, adapters, index, queue, interrupt, expired, peer, success, result, late, holder>>

Closed_Detached ==
  /\ pc = "join capture"
  /\ IF result = None THEN index' = index + 1 /\ pc' = "open" ELSE index' = index /\ pc' = "release"
  /\ UNCHANGED <<mode, adapters, queue, interrupt, expired, peer, success, result, worker, late, holder>>

Closed ==
  /\ pc = "join capture" /\ Ended(Session)
  /\ IF result = None THEN index' = index + 1 /\ pc' = "open" ELSE index' = index /\ pc' = "release"
  /\ UNCHANGED <<mode, adapters, queue, interrupt, expired, peer, success, result, worker, late, holder>>

\* The process ends, and with it everything it kept.
Release ==
  /\ pc = "release" /\ pc' = "done" /\ Released(Self)
  /\ index' = 0 /\ queue' = <<>> /\ interrupt' = FALSE /\ expired' = FALSE
  /\ peer' = NoPeer /\ success' = FALSE /\ result' = None
  /\ worker' = [w \in Workers |-> Idle] /\ late' = 0
  /\ UNCHANGED <<mode, adapters>>

-----------------------------------------------------------------------------

Init ==
  /\ pc = "start" /\ mode \in Modes /\ adapters \in 0..MaxAdapters
  /\ index = 0 /\ queue = <<>> /\ interrupt = FALSE /\ expired = FALSE
  /\ peer = NoPeer /\ success = FALSE /\ result = None
  /\ worker = [w \in Workers |-> Idle] /\ late = 0

Main ==
  \/ Begin \/ DirectLogoff \/ Open \/ NoneLeft \/ Check \/ Quiet \/ Take
  \/ DropProbe \/ DropSession \/ Closed \/ Release

Work(w) ==
  \/ Deliver(w)
  \/ w[1] = "capture" /\ Hear(w[2])
  \/ w[1] = "probe" /\ Ping(w[2])

Next == Main \/ Expire \/ Interrupt \/ \E w \in Workers : Work(w)

\* Threads run and the clock goes on; nobody has to interrupt, and a command
\* need not be given.
Fairness ==
  /\ WF_vars(Main /\ pc # "start") /\ WF_vars(Expire) /\ \A w \in Workers : WF_vars(Work(w))

-----------------------------------------------------------------------------
(* Properties.                                                             *)

TypeOK ==
  /\ pc \in {"start", "logoff", "open", "loop", "wait", "close", "join probe", "join capture", "release", "done"}
  /\ mode \in Modes
  /\ adapters \in 0..MaxAdapters /\ index \in 0..MaxAdapters + 1
  /\ queue \in Seq(Event) /\ Len(queue) <= QueueCap
  /\ interrupt \in BOOLEAN /\ expired \in BOOLEAN /\ success \in BOOLEAN
  /\ peer \in Servers \cup {NoPeer}
  /\ result \in Results \cup {None}
  /\ worker \in [Workers -> Threads] /\ late \in 0..2

\* "Authenticated" is said of the adapter whose own exchange succeeded and whose own
\* check then reached the Internet, also when the answer of an earlier adapter's check
\* was still in the queue.
OwnProbeOnly ==
  result = "authenticated" =>
    success /\ peer # NoPeer /\ worker[Checker].at \in {"deliver", "done"}

\* An interrupt is heeded after one event at the most, also when the queue was full and
\* its wake-up was lost.
InterruptIsPrompt == late <= 1

\* Every command ends: joining a worker never waits for a worker that waits for room
\* in the queue only this thread empties.
Ends == pc # "start" ~> pc = "done"
=============================================================================
