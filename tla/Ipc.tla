--------------------------------- MODULE Ipc ---------------------------------
(***************************************************************************)
(* The control channel: start() and serve() of src/src/ipc.rs, and what    *)
(* the engine does with calls and subscriptions, call() and publish() of   *)
(* src/src/engine.rs.                                                      *)
(*                                                                         *)
(* A connection carries one request; a watch then receives every snapshot. *)
(* Snapshots are numbered.  A connection has a thread that serves it and,  *)
(* once it watches, a second that waits for the peer to go away.           *)
(***************************************************************************)
EXTENDS Naturals, Sequences, FiniteSetsExt

CONSTANTS
  Clients,     \* connections that are made
  Eof,         \* the None that wakes a watch up
  None,        \* no reply, nothing being written
  MaxClients,  \* 16
  QueueCap,    \* capacity of the engine's queue (256)
  UpdatesCap,  \* snapshots kept for a watcher (8)
  MaxSnapshot, \* bound: snapshots that are published
  SpawnFails,  \* whether a thread may fail to be created
  AcceptFails  \* whether accept() may fail

ASSUME IpcAssumption ==
  /\ MaxClients \in Nat \ {0} /\ QueueCap \in Nat \ {0} /\ UpdatesCap \in Nat \ {0}
  /\ MaxSnapshot \in Nat /\ SpawnFails \in BOOLEAN /\ AcceptFails \in BOOLEAN
  /\ {Eof, None} \cap (0..MaxSnapshot) = {}

VARIABLES
  at,       \* where the connection and the thread that serves it are
  watch,    \* whether its request is a watch
  peer,     \* whether the peer keeps the connection
  reader,   \* the thread that waits for the peer's end
  alive,    \* Subscription.alive
  reply,    \* the reply channel, of one place
  updates,  \* the snapshots kept for it, of UpdatesCap places
  item,     \* the snapshot being written
  seen,     \* the last snapshot the peer was sent
  listener, \* whether the listener waits for a peer, prepares for the next, or is gone
  pipes,    \* the ends of connections the service has open, the listener's own included
  active,   \* the listener's count of clients
  calls,    \* the calls in the engine's queue
  snapshot, \* the engine's snapshot
  subscribers, \* Engine.subscribers
  left,     \* those publish() has not visited yet
  full      \* those found full or dead whose alive is still to be cleared

accepting == <<listener, pipes>>
client == <<at, watch, peer, reader, reply, item, seen>>
shared == <<alive, updates>>
engine == <<snapshot, subscribers, left, full>>
vars == <<client, shared, accepting, active, calls, engine>>

Waiting == {"off", "backlog"}
Watching == {"check", "recv", "write", "closing"}
Places == Waiting \cup Watching \cup {"reading", "calling", "leaving", "done"}

\* A client's thread exists.
Served == {c \in Clients : at[c] \notin Waiting \cup {"done"}}

Goes(c, place) == at' = [at EXCEPT ![c] = place]

\* serve() returns: the stream is dropped with it, Count after it.
Ends(c) == Goes(c, "leaving") /\ pipes' = pipes - 1
Stays == pipes' = pipes

-----------------------------------------------------------------------------
(* start(): the listener                                                   *)

Connect(c) ==
  /\ at[c] = "off" /\ Goes(c, IF listener = "gone" THEN "done" ELSE "backlog")
  /\ watch' \in {[watch EXCEPT ![c] = w] : w \in BOOLEAN}
  /\ UNCHANGED <<accepting, peer, reader, reply, item, seen, shared, active, calls, engine>>

\* The loop ends, and with it every connection that was not accepted yet.
ListenerEnds ==
  /\ listener' = "gone" /\ pipes' = IF listener = "waiting" THEN pipes - 1 ELSE pipes
  /\ at' = [c \in Clients |-> IF at[c] = "backlog" THEN "done" ELSE at[c]]
  /\ UNCHANGED <<watch, peer, reader, reply, item, seen, shared, active, calls, engine>>

\* The pipe has an instance for every client and one for the listener.
Full == pipes > MaxClients

\* An error of accept(), also one of a single peer, or of the next instance.
AcceptFailed ==
  /\ listener # "gone"
  /\ AcceptFails \/ (listener = "creating" /\ Full)
  /\ ListenerEnds

\* Mutant: one more is admitted.
HasPlace_Inclusive == active <= MaxClients
HasPlace == active < MaxClients

Accept(c) ==
  /\ at[c] = "backlog" /\ listener = "waiting" /\ listener' = "creating"
  /\ \/ ~HasPlace /\ Goes(c, "done") /\ active' = active /\ pipes' = pipes - 1
     \/ HasPlace /\ Goes(c, "reading") /\ active' = active + 1 /\ Stays
     \/ HasPlace /\ SpawnFails /\ Goes(c, "done") /\ active' = active + 1 /\ pipes' = pipes - 1
  /\ UNCHANGED <<watch, peer, reader, reply, item, seen, shared, calls, engine>>

\* The next instance of the pipe.
Create ==
  /\ listener = "creating" /\ ~Full
  /\ listener' = "waiting" /\ pipes' = pipes + 1
  /\ UNCHANGED <<client, shared, active, calls, engine>>

-----------------------------------------------------------------------------
(* serve()                                                                 *)

\* The request is read and queued; a full queue is "service busy".
Call(c) ==
  /\ at[c] = "reading"
  /\ IF Len(calls) < QueueCap
     THEN calls' = Append(calls, c) /\ Goes(c, "calling") /\ Stays
     ELSE calls' = calls /\ Ends(c)
  /\ UNCHANGED <<listener, active, watch, peer, reader, reply, item, seen, shared, engine>>

\* The peer has gone, sends nothing for five seconds, or speaks another version.
NoRequest(c) ==
  /\ at[c] = "reading" /\ Ends(c)
  /\ UNCHANGED <<listener, active, watch, peer, reader, reply, item, seen, shared, calls, engine>>

\* After eight seconds; the call stays in the queue.
TimedOut(c) ==
  /\ at[c] = "calling" /\ reply[c] = None /\ Ends(c)
  /\ UNCHANGED <<listener, active, watch, peer, reader, reply, item, seen, shared, calls, engine>>

Respond(c) ==
  /\ at[c] = "calling" /\ reply[c] # None
  /\ reply' = [reply EXCEPT ![c] = None]
  /\ \/ /\ watch[c] /\ seen' = [seen EXCEPT ![c] = reply[c]]
        /\ reader' = [reader EXCEPT ![c] = "reading"] /\ Goes(c, "check") /\ Stays
     \/ /\ ~watch[c] \/ SpawnFails
        /\ seen' = [seen EXCEPT ![c] = reply[c]] /\ reader' = reader /\ Ends(c)
     \/ /\ seen' = seen /\ reader' = reader /\ Ends(c)
  /\ UNCHANGED <<listener, active, watch, peer, item, shared, calls, engine>>

Check(c) ==
  /\ at[c] = "check"
  /\ Goes(c, IF alive[c] THEN "recv" ELSE "closing")
  /\ UNCHANGED <<accepting, watch, peer, reader, reply, item, seen, shared, active, calls, engine>>

Recv(c) ==
  /\ at[c] = "recv" /\ updates[c] # <<>>
  /\ updates' = [updates EXCEPT ![c] = Tail(@)]
  /\ IF Head(updates[c]) = Eof
     THEN Goes(c, "closing") /\ item' = item
     ELSE Goes(c, "write") /\ item' = [item EXCEPT ![c] = Head(updates[c])]
  /\ UNCHANGED <<accepting, watch, peer, reader, reply, seen, alive, active, calls, engine>>

\* A write fails when the peer has gone or takes nothing for five seconds.
Write(c) ==
  /\ at[c] = "write" /\ item' = [item EXCEPT ![c] = None]
  /\ \/ peer[c] /\ seen' = [seen EXCEPT ![c] = item[c]] /\ Goes(c, "check")
     \/ seen' = seen /\ Goes(c, "closing")
  /\ UNCHANGED <<accepting, watch, peer, reader, reply, shared, active, calls, engine>>

\* The stream is shut down, which ends the reader; it is joined.
Join(c) ==
  /\ at[c] = "closing" /\ reader[c] = "done" /\ Ends(c)
  /\ UNCHANGED <<listener, active, watch, peer, reader, reply, item, seen, shared, calls, engine>>

\* Count::drop().  Mutant: the place is not given back.
Leave_Counted(c) ==
  /\ at[c] = "leaving" /\ Goes(c, "done") /\ active' = active
  /\ UNCHANGED <<accepting, watch, peer, reader, reply, item, seen, shared, calls, engine>>

Leave(c) ==
  /\ at[c] = "leaving" /\ Goes(c, "done") /\ active' = active - 1
  /\ UNCHANGED <<accepting, watch, peer, reader, reply, item, seen, shared, calls, engine>>

\* The reader: end of file, then alive, then a place in the channel if there is one.
\* Mutant: the watch is not woken.
ReaderEof(c) ==
  /\ reader[c] = "reading" /\ (~peer[c] \/ at[c] = "closing")
  /\ reader' = [reader EXCEPT ![c] = "eof"] /\ alive' = [alive EXCEPT ![c] = FALSE]
  /\ UNCHANGED <<accepting, at, watch, peer, reply, item, seen, updates, active, calls, engine>>

ReaderWakes_Not(c) ==
  /\ reader[c] = "eof" /\ reader' = [reader EXCEPT ![c] = "done"]
  /\ UNCHANGED <<accepting, at, watch, peer, reply, item, seen, shared, active, calls, engine>>

ReaderWakes(c) ==
  /\ reader[c] = "eof" /\ reader' = [reader EXCEPT ![c] = "done"]
  /\ updates' = [updates EXCEPT ![c] = IF Len(@) < UpdatesCap THEN Append(@, Eof) ELSE @]
  /\ UNCHANGED <<accepting, at, watch, peer, reply, item, seen, alive, active, calls, engine>>

\* The peer closes the connection.
PeerGoes(c) ==
  /\ at[c] \notin {"off", "done"} /\ peer[c]
  /\ peer' = [peer EXCEPT ![c] = FALSE]
  /\ UNCHANGED <<accepting, at, watch, reader, reply, item, seen, shared, active, calls, engine>>

-----------------------------------------------------------------------------
(* The engine's thread                                                     *)

Publishing == left # {} \/ full # {}

\* call(): a watch is subscribed with the reply, also when no one waits for it any
\* more.
TakeCall ==
  /\ ~Publishing /\ calls # <<>>
  /\ LET c == Head(calls)
     IN /\ reply' = [reply EXCEPT ![c] = IF at[c] = "calling" THEN snapshot ELSE @]
        /\ subscribers' = IF watch[c] THEN {s \in subscribers : alive[s]} \cup {c}
                          ELSE subscribers
  /\ calls' = Tail(calls)
  /\ UNCHANGED <<accepting, at, watch, peer, reader, item, seen, shared, active, snapshot, left, full>>

\* Something happens, or a call changes something: publish().
Publish ==
  /\ ~Publishing /\ snapshot < MaxSnapshot
  /\ snapshot' = snapshot + 1 /\ left' = subscribers
  /\ UNCHANGED <<accepting, client, shared, active, calls, subscribers, full>>

\* Whether try_send() finds the channel, and a place in it.
Takes(s) == at[s] # "done" /\ Len(updates[s]) < UpdatesCap

\* Mutants: a full channel ends the round; it only costs the one snapshot.
Visit_Stops(s) ==
  /\ s \in left /\ full = {}
  /\ IF alive[s] /\ Takes(s)
     THEN updates' = [updates EXCEPT ![s] = Append(@, snapshot)] /\ full' = full /\ left' = left \ {s}
     ELSE updates' = updates /\ full' = {s} /\ left' = {}
  /\ UNCHANGED <<accepting, client, alive, active, calls, snapshot, subscribers>>

Visit_Skips(s) ==
  /\ s \in left /\ left' = left \ {s}
  /\ updates' = [updates EXCEPT ![s] = IF Takes(s) THEN Append(@, snapshot) ELSE @]
  /\ full' = full
  /\ UNCHANGED <<accepting, client, alive, active, calls, snapshot, subscribers>>

Visit(s) ==
  /\ s \in left /\ left' = left \ {s} /\ full = {}
  /\ IF alive[s] /\ Takes(s)
     THEN updates' = [updates EXCEPT ![s] = Append(@, snapshot)] /\ full' = full
     ELSE updates' = updates /\ full' = {s}
  /\ UNCHANGED <<accepting, client, alive, active, calls, snapshot, subscribers>>

Unsubscribe(s) ==
  /\ s \in full /\ full' = {}
  /\ alive' = [alive EXCEPT ![s] = FALSE] /\ subscribers' = subscribers \ {s}
  /\ UNCHANGED <<accepting, client, updates, active, calls, snapshot, left>>

-----------------------------------------------------------------------------

Init ==
  /\ at = [c \in Clients |-> "off"]
  /\ watch = [c \in Clients |-> FALSE]
  /\ peer = [c \in Clients |-> TRUE]
  /\ reader = [c \in Clients |-> "none"]
  /\ alive = [c \in Clients |-> TRUE]
  /\ reply = [c \in Clients |-> None]
  /\ updates = [c \in Clients |-> <<>>]
  /\ item = [c \in Clients |-> None]
  /\ seen = [c \in Clients |-> 0]
  /\ listener = "waiting" /\ pipes = 1 /\ active = 0 /\ calls = <<>> /\ snapshot = 0
  /\ subscribers = {} /\ left = {} /\ full = {}

Serve(c) ==
  \/ Call(c) \/ NoRequest(c) \/ TimedOut(c) \/ Respond(c)
  \/ Check(c) \/ Recv(c) \/ Write(c) \/ Join(c) \/ Leave(c)

Reader(c) == ReaderEof(c) \/ ReaderWakes(c)

Engine == TakeCall \/ \E s \in Clients : Visit(s) \/ Unsubscribe(s)

Next ==
  \/ \E c \in Clients : Connect(c) \/ Accept(c) \/ Serve(c) \/ Reader(c) \/ PeerGoes(c)
  \/ AcceptFailed \/ Create \/ Engine \/ Publish

Spec == Init /\ [][Next]_vars

\* Threads go on: reads of a request, replies and writes have time limits of
\* seconds.  Nothing makes a peer go.
FairSpec ==
  /\ Spec /\ WF_vars(Engine) /\ WF_vars(Create)
  /\ \A c \in Clients : WF_vars(Accept(c)) /\ WF_vars(Serve(c)) /\ WF_vars(Reader(c))

-----------------------------------------------------------------------------
(* Properties.                                                             *)

TypeOK ==
  /\ at \in [Clients -> Places]
  /\ watch \in [Clients -> BOOLEAN] /\ peer \in [Clients -> BOOLEAN]
  /\ reader \in [Clients -> {"none", "reading", "eof", "done"}]
  /\ alive \in [Clients -> BOOLEAN]
  /\ reply \in [Clients -> 0..MaxSnapshot \cup {None}]
  /\ item \in [Clients -> 0..MaxSnapshot \cup {None}]
  /\ seen \in [Clients -> 0..MaxSnapshot]
  /\ updates \in [Clients -> Seq(0..MaxSnapshot \cup {Eof})]
  /\ \A c \in Clients : Len(updates[c]) <= UpdatesCap
  /\ listener \in {"waiting", "creating", "gone"} /\ pipes \in Nat /\ active \in Nat
  /\ calls \in Seq(Clients) /\ Len(calls) <= QueueCap
  /\ snapshot \in 0..MaxSnapshot
  /\ subscribers \subseteq Clients /\ left \subseteq subscribers /\ full \subseteq subscribers

\* What a watcher is to the service: given up as soon as its channel is found full or
\* its end is noticed.
Standing(c) ==
  IF at[c] \notin Watching \ {"closing"} THEN "closed"
  ELSE IF alive[c] /\ c \notin full THEN "open" ELSE "cut"

Promise == INSTANCE Feed WITH
  Watchers <- Clients, published <- snapshot,
  feed <- [c \in Clients |-> Standing(c)],
  shown <- [c \in Clients |-> IF Standing(c) = "closed" THEN 0 ELSE seen[c]]

\* The channel implements Feed: through the reply and the subscription, taken in two
\* steps, the two threads, the bounded channel and publish(), a watcher is shown every
\* snapshot after its first one, in order, and in the end the newest, until it is given
\* up (ipc.rs:184-222, engine.rs:264-276, 615-617).
ImplementsFeed == Promise!Spec

\* The count of clients is the number of threads that serve them, and while it is kept
\* an instance of the pipe is left for the next client.
ActiveIsServed ==
  /\ active = Cardinality(Served)
  /\ listener = "creating" => ~Full

\* A connection ends, and gives its place back, once its peer has gone; one that
\* is not a watch ends in any case.
ConnectionEnds ==
  \A c \in Clients : at[c] # "off" /\ (~peer[c] \/ ~watch[c]) ~> at[c] = "done"
=============================================================================
