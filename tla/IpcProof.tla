------------------------------- MODULE IpcProof -------------------------------
(***************************************************************************)
(* The safety of Ipc for any number of connections and snapshots: the      *)
(* count of clients and of the instances of the pipe, and that what a      *)
(* watcher is shown is what Feed promises.                                 *)
(***************************************************************************)
EXTENDS Ipc, FiniteSetTheorems, SequenceTheorems, TLAPS

\* A connection that the service holds open: the thread still is in serve().
Opened == {c \in Served : at[c] # "leaving"}

\* The listener's own instance.
Own == IF listener = "waiting" THEN 1 ELSE 0

\* A place is counted for every thread, and more only when a thread could not be created.
Counted ==
  /\ IsFiniteSet(Served) /\ Cardinality(Served) <= active /\ active <= MaxClients
  /\ ~SpawnFails => active = Cardinality(Served)
  /\ pipes = Cardinality(Opened) + Own

\* A call is in the queue once, and before its reply.
InQueue(c) ==
  at[c] \in {"calling", "leaving", "done"} /\ (at[c] = "calling" => reply[c] = None)
Queued ==
  /\ \A i \in DOMAIN calls, j \in DOMAIN calls : calls[i] = calls[j] => i = j
  /\ \A i \in DOMAIN calls : InQueue(calls[i])

\* publish() is busy with one subscriber at a time, which it has visited.
Visiting == left \cap full = {} /\ \A s \in full, t \in full : s = t

\* Until the engine has seen its call, a connection has no subscription.
Early == Waiting \cup {"reading", "calling"}
Fresh(c) ==
  /\ at[c] \in Waiting \cup {"reading"} => reply[c] = None
  /\ at[c] \in Early => reader[c] = "none"
  /\ at[c] \in Early /\ reply[c] = None => alive[c] /\ c \notin subscribers /\ updates[c] = <<>>

Noticed(c) == reader[c] \in {"eof", "done"} => ~alive[c]

\* A watcher that has its first snapshot, in the reply or already.
Joined(c) ==
  \/ at[c] = "calling" /\ reply[c] # None /\ watch[c]
  \/ at[c] \in {"check", "recv", "write"}

\* The snapshot before the first one that is kept for it.
Base(c) ==
  IF at[c] = "calling" THEN reply[c] ELSE IF at[c] = "write" THEN item[c] ELSE seen[c]

Kept(c) ==
  \A i \in DOMAIN updates[c] :
    \/ updates[c][i] = Base(c) + i /\ Base(c) + i <= snapshot
    \/ updates[c][i] = Eof /\ i = Len(updates[c]) /\ reader[c] = "done"

\* Nothing is missing between what is kept and the newest.
UpToDate(c) ==
  alive[c] =>
    /\ c \in subscribers
    /\ c \notin full => Base(c) + Len(updates[c]) + (IF c \in left THEN 1 ELSE 0) = snapshot

Following(c) ==
  /\ Base(c) \in 0..snapshot
  /\ at[c] = "write" => item[c] = seen[c] + 1
  /\ Kept(c) /\ UpToDate(c)

Watched(c) == Fresh(c) /\ Noticed(c) /\ (Joined(c) => Following(c))

FeedInv == Queued /\ Visiting /\ \A c \in Clients : Watched(c)

Inv == TypeOK /\ Counted /\ FeedInv

-----------------------------------------------------------------------------
(* The places.                                                             *)

LEMMA Constants ==
  /\ MaxClients \in Nat \ {0} /\ QueueCap \in Nat \ {0} /\ UpdatesCap \in Nat \ {0}
  /\ MaxSnapshot \in Nat /\ SpawnFails \in BOOLEAN
  /\ Eof \notin 0..MaxSnapshot /\ None \notin 0..MaxSnapshot
BY IpcAssumption

\* One element more or less in a finite set.
LEMMA OneElement ==
  ASSUME NEW S, IsFiniteSet(S), NEW x
  PROVE  /\ IsFiniteSet(S \cup {x}) /\ IsFiniteSet(S \ {x}) /\ Cardinality(S) \in Nat
         /\ x \notin S => Cardinality(S \cup {x}) = Cardinality(S) + 1
         /\ x \in S => Cardinality(S \ {x}) = Cardinality(S) - 1 /\ Cardinality(S) > 0
PROOF
<1>1. IsFiniteSet(S \cup {x}) /\ IsFiniteSet(S \ {x}) /\ Cardinality(S) \in Nat
  BY FS_AddElement, FS_RemoveElement, FS_CardinalityType
<1>2. x \notin S => Cardinality(S \cup {x}) = Cardinality(S) + 1
  BY FS_AddElement
<1>3. x \in S => Cardinality(S \ {x}) = Cardinality(S) - 1
  BY FS_RemoveElement
<1>4. x \in S => Cardinality(S) > 0
  <2>1. Cardinality(S) = 0 => S = {}
    BY FS_EmptySet
  <2> QED
    BY <1>1, <2>1
<1> QED
  BY <1>1, <1>2, <1>3, <1>4

\* What a connection's move does to the threads and to the streams.
LEMMA Moved ==
  ASSUME at \in [Clients -> Places], IsFiniteSet(Served), NEW c \in Clients, NEW to \in Places, Goes(c, to)
  PROVE  /\ IsFiniteSet(Served') /\ Cardinality(Served) \in Nat /\ Cardinality(Opened) \in Nat
         /\ c \in Served => Cardinality(Served) > 0
         /\ c \in Opened => Cardinality(Opened) > 0
         /\ Cardinality(Served') =
              IF c \in Served THEN IF to \in Waiting \cup {"done"} THEN Cardinality(Served) - 1 ELSE Cardinality(Served)
              ELSE IF to \in Waiting \cup {"done"} THEN Cardinality(Served) ELSE Cardinality(Served) + 1
         /\ Cardinality(Opened') =
              IF c \in Opened
              THEN IF to \in Waiting \cup {"leaving", "done"} THEN Cardinality(Opened) - 1 ELSE Cardinality(Opened)
              ELSE IF to \in Waiting \cup {"leaving", "done"} THEN Cardinality(Opened) ELSE Cardinality(Opened) + 1
PROOF
<1>1. at' = [at EXCEPT ![c] = to]
  BY DEF Goes
<1>2. Served' = IF to \in Waiting \cup {"done"} THEN Served \ {c} ELSE Served \cup {c}
  BY <1>1 DEF Served
<1>3. Opened' = IF to \in Waiting \cup {"leaving", "done"} THEN Opened \ {c} ELSE Opened \cup {c}
  BY <1>1 DEF Served, Opened
<1>4. IsFiniteSet(Opened)
  BY FS_Subset DEF Opened
<1>5. c \in Served => Served \cup {c} = Served
  OBVIOUS
<1>6. c \notin Served => Served \ {c} = Served
  OBVIOUS
<1>7. c \in Opened => Opened \cup {c} = Opened
  OBVIOUS
<1>8. c \notin Opened => Opened \ {c} = Opened
  OBVIOUS
<1>9. /\ IsFiniteSet(Served') /\ Cardinality(Served) \in Nat
      /\ c \in Served => Cardinality(Served) > 0
      /\ Cardinality(Served') =
           IF c \in Served THEN IF to \in Waiting \cup {"done"} THEN Cardinality(Served) - 1 ELSE Cardinality(Served)
           ELSE IF to \in Waiting \cup {"done"} THEN Cardinality(Served) ELSE Cardinality(Served) + 1
  BY <1>2, <1>5, <1>6, OneElement
<1>10. /\ Cardinality(Opened) \in Nat
       /\ c \in Opened => Cardinality(Opened) > 0
       /\ Cardinality(Opened') =
            IF c \in Opened
            THEN IF to \in Waiting \cup {"leaving", "done"} THEN Cardinality(Opened) - 1 ELSE Cardinality(Opened)
            ELSE IF to \in Waiting \cup {"leaving", "done"} THEN Cardinality(Opened) ELSE Cardinality(Opened) + 1
  BY <1>3, <1>4, <1>7, <1>8, OneElement
<1> QED
  BY <1>9, <1>10

\* What the steps of a thread do to the counts: it stays in serve(), it leaves serve(), it ends.
LEMMA ServeMoves ==
  ASSUME at \in [Clients -> Places], NEW c \in Clients, Serve(c)
  PROVE  /\ UNCHANGED listener
         /\ \/ /\ UNCHANGED <<active, pipes>> /\ c \in Opened
               /\ \E to \in Places \ (Waiting \cup {"leaving", "done"}) : Goes(c, to)
            \/ UNCHANGED active /\ c \in Opened /\ Goes(c, "leaving") /\ pipes' = pipes - 1
            \/ UNCHANGED pipes /\ at[c] = "leaving" /\ Goes(c, "done") /\ active' = active - 1
PROOF
<1> USE DEF Places, Waiting, Watching, Opened, Served, Ends, Stays, accepting
<1>1. CASE Call(c) \/ NoRequest(c) \/ TimedOut(c)
  BY <1>1 DEF Call, NoRequest, TimedOut
<1>2. CASE Respond(c)
  BY <1>2 DEF Respond
<1>3. CASE Check(c)
  <2>1. at[c] = "check" /\ UNCHANGED <<listener, active, pipes>> /\ (Goes(c, "recv") \/ Goes(c, "closing"))
    BY <1>3 DEF Check
  <2> QED
    BY <2>1
<1>4. CASE Recv(c)
  <2>1. at[c] = "recv" /\ UNCHANGED <<listener, active, pipes>> /\ (Goes(c, "write") \/ Goes(c, "closing"))
    BY <1>4 DEF Recv
  <2> QED
    BY <2>1
<1>5. CASE Write(c)
  <2>1. at[c] = "write" /\ UNCHANGED <<listener, active, pipes>> /\ (Goes(c, "check") \/ Goes(c, "closing"))
    BY <1>5 DEF Write
  <2> QED
    BY <2>1
<1>6. CASE Join(c) \/ Leave(c)
  BY <1>6 DEF Join, Leave
<1> QED
  BY <1>1, <1>2, <1>3, <1>4, <1>5, <1>6 DEF Serve

LEMMA CountSteps ==
  ASSUME TypeOK, Counted, Next
  PROVE  Counted' /\ active' \in Nat /\ pipes' \in Nat
PROOF
<1> DEFINE Fine == Counted /\ active \in Nat /\ pipes \in Nat
<1> USE DEF Own, Counted
<1>0. /\ at \in [Clients -> Places] /\ IsFiniteSet(Served) /\ active \in Nat /\ pipes \in Nat
      /\ MaxClients \in Nat /\ SpawnFails \in BOOLEAN /\ listener \in {"waiting", "creating", "gone"}
  BY Constants DEF TypeOK
<1>b. Cardinality(Served) \in Nat /\ Cardinality(Opened) \in Nat
  <2>1. IsFiniteSet(Opened)
    BY <1>0, FS_Subset DEF Opened
  <2> QED
    BY <1>0, <2>1, FS_CardinalityType
<1>1. CASE UNCHANGED <<at, active, pipes, listener>>
  <2>1. Served' = Served /\ Opened' = Opened
    BY <1>1 DEF Served, Opened
  <2> QED
    BY <1>0, <1>1, <2>1
<1>2. ASSUME NEW c \in Clients, Serve(c) PROVE Fine'
  <2>1. CASE /\ UNCHANGED <<active, pipes>> /\ c \in Opened
             /\ \E to \in Places \ (Waiting \cup {"leaving", "done"}) : Goes(c, to)
    <3>1. c \in Served
      BY <2>1 DEF Opened
    <3>2. Cardinality(Served') = Cardinality(Served) /\ Cardinality(Opened') = Cardinality(Opened) /\ IsFiniteSet(Served')
      BY <1>0, <2>1, <3>1, Moved
    <3> QED
      BY <1>0, <1>2, <2>1, <3>2, ServeMoves
  <2>2. CASE UNCHANGED active /\ c \in Opened /\ Goes(c, "leaving") /\ pipes' = pipes - 1
    <3>1. c \in Served /\ "leaving" \in Places \ (Waiting \cup {"done"})
      BY <2>2 DEF Opened, Places, Waiting
    <3>2. /\ Cardinality(Served') = Cardinality(Served) /\ IsFiniteSet(Served')
          /\ Cardinality(Opened') = Cardinality(Opened) - 1 /\ Cardinality(Opened) > 0
      BY <1>0, <2>2, <3>1, Moved
    <3> QED
      BY <1>0, <1>2, <1>b, <2>2, <3>2, ServeMoves
  <2>3. CASE UNCHANGED pipes /\ at[c] = "leaving" /\ Goes(c, "done") /\ active' = active - 1
    <3>1. c \in Served /\ c \notin Opened /\ "done" \in Places
      BY <2>3 DEF Served, Opened, Places, Waiting
    <3>2. /\ Cardinality(Served') = Cardinality(Served) - 1 /\ IsFiniteSet(Served')
          /\ Cardinality(Opened') = Cardinality(Opened) /\ Cardinality(Served) > 0
      BY <1>0, <2>3, <3>1, Moved
    <3> QED
      BY <1>0, <1>2, <1>b, <2>3, <3>2, ServeMoves
  <2> QED
    BY <1>0, <1>2, <2>1, <2>2, <2>3, ServeMoves
<1>3. ASSUME NEW c \in Clients, Connect(c) PROVE Fine'
  <2>1. UNCHANGED <<active, pipes, listener>> /\ at[c] = "off"
    BY <1>3 DEF Connect, accepting
  <2>2. \E to \in {"backlog", "done"} : Goes(c, to)
    BY <1>3 DEF Connect
  <2>3. c \notin Served /\ c \notin Opened
    BY <2>1 DEF Served, Opened, Waiting
  <2>4. Cardinality(Served') = Cardinality(Served) /\ Cardinality(Opened') = Cardinality(Opened) /\ IsFiniteSet(Served')
    BY <1>0, <2>2, <2>3, Moved DEF Places, Waiting
  <2> QED
    BY <1>0, <2>1, <2>4
<1>4. ASSUME NEW c \in Clients, Accept(c) PROVE Fine'
  <2>1. at[c] = "backlog" /\ listener = "waiting" /\ listener' = "creating"
    BY <1>4 DEF Accept
  <2>2. c \notin Served /\ c \notin Opened /\ "done" \in Places /\ "reading" \in Places \ (Waiting \cup {"leaving", "done"})
    BY <2>1 DEF Served, Opened, Places, Waiting
  <2>3. CASE Goes(c, "reading") /\ HasPlace /\ active' = active + 1 /\ pipes' = pipes
    <3>1. /\ Cardinality(Served') = Cardinality(Served) + 1 /\ IsFiniteSet(Served')
          /\ Cardinality(Opened') = Cardinality(Opened) + 1
      BY <1>0, <2>2, <2>3, Moved
    <3> QED
      BY <1>0, <1>b, <2>1, <2>3, <3>1 DEF HasPlace
  <2>4. CASE /\ Goes(c, "done") /\ pipes' = pipes - 1
             /\ active' = active \/ (SpawnFails /\ HasPlace /\ active' = active + 1)
    <3>1. /\ Cardinality(Served') = Cardinality(Served) /\ IsFiniteSet(Served')
          /\ Cardinality(Opened') = Cardinality(Opened)
      BY <1>0, <2>2, <2>4, Moved
    <3> QED
      BY <1>0, <1>b, <2>1, <2>4, <3>1 DEF HasPlace
  <2> QED
    BY <1>4, <2>3, <2>4 DEF Accept, Stays
<1>5. CASE Create
  <2>1. Served' = Served /\ Opened' = Opened
    BY <1>5 DEF Create, client, Served, Opened
  <2> QED
    BY <1>0, <1>b, <1>5, <2>1 DEF Create
<1>6. CASE AcceptFailed
  <2>1. Served' = Served /\ Opened' = Opened
    BY <1>0, <1>6 DEF AcceptFailed, ListenerEnds, Served, Opened, Waiting
  <2> QED
    BY <1>0, <1>b, <1>6, <2>1 DEF AcceptFailed, ListenerEnds
<1>7. ASSUME NEW c \in Clients, Reader(c) \/ PeerGoes(c) PROVE UNCHANGED <<at, active, pipes, listener>>
  BY <1>7 DEF Reader, ReaderEof, ReaderWakes, PeerGoes, accepting
<1>8. Engine \/ Publish => UNCHANGED <<at, active, pipes, listener>>
  BY DEF Engine, TakeCall, Visit, Unsubscribe, Publish, accepting, client
<1> QED
  BY <1>1, <1>2, <1>3, <1>4, <1>5, <1>6, <1>7, <1>8 DEF Next

-----------------------------------------------------------------------------
(* Types.                                                                  *)

\* The queue of a watch keeps its type and its capacity.
Items == 0..MaxSnapshot \cup {Eof}

LEMMA UpdatesTypes ==
  ASSUME updates \in [Clients -> Seq(Items)], \A d \in Clients : Len(updates[d]) <= UpdatesCap,
         NEW c \in Clients
  PROVE  /\ \A x \in Items : Len(updates[c]) < UpdatesCap =>
              /\ [updates EXCEPT ![c] = Append(@, x)] \in [Clients -> Seq(Items)]
              /\ \A d \in Clients : Len([updates EXCEPT ![c] = Append(@, x)][d]) <= UpdatesCap
         /\ updates[c] # <<>> =>
              /\ [updates EXCEPT ![c] = Tail(@)] \in [Clients -> Seq(Items)]
              /\ \A d \in Clients : Len([updates EXCEPT ![c] = Tail(@)][d]) <= UpdatesCap
              /\ Head(updates[c]) \in Items
PROOF
<1>0. updates[c] \in Seq(Items) /\ UpdatesCap \in Nat
  BY Constants
<1>1. ASSUME NEW x \in Items, Len(updates[c]) < UpdatesCap
      PROVE  /\ [updates EXCEPT ![c] = Append(@, x)] \in [Clients -> Seq(Items)]
             /\ \A d \in Clients : Len([updates EXCEPT ![c] = Append(@, x)][d]) <= UpdatesCap
  <2>1. Append(updates[c], x) \in Seq(Items) /\ Len(Append(updates[c], x)) <= UpdatesCap
    BY <1>0, <1>1
  <2> QED
    BY <2>1
<1>2. ASSUME updates[c] # <<>>
      PROVE  /\ [updates EXCEPT ![c] = Tail(@)] \in [Clients -> Seq(Items)]
             /\ \A d \in Clients : Len([updates EXCEPT ![c] = Tail(@)][d]) <= UpdatesCap
             /\ Head(updates[c]) \in Items
  <2>1. Tail(updates[c]) \in Seq(Items) /\ Len(Tail(updates[c])) <= UpdatesCap /\ Head(updates[c]) \in Items
    BY <1>0, <1>2
  <2> QED
    BY <2>1
<1> QED
  BY <1>1, <1>2

LEMMA CallsTypes ==
  ASSUME calls \in Seq(Clients), Len(calls) <= QueueCap, NEW c \in Clients
  PROVE  /\ Len(calls) < QueueCap =>
              Append(calls, c) \in Seq(Clients) /\ Len(Append(calls, c)) <= QueueCap
         /\ calls # <<>> =>
              /\ Tail(calls) \in Seq(Clients) /\ Len(Tail(calls)) <= QueueCap
              /\ Head(calls) \in Clients
BY Constants

LEMMA TypeSteps ==
  ASSUME Inv, Next
  PROVE  TypeOK'
PROOF
<1>0. active' \in Nat /\ pipes' \in Nat
  BY CountSteps DEF Inv
<1>c. MaxSnapshot \in Nat /\ QueueCap \in Nat \ {0} /\ UpdatesCap \in Nat \ {0}
  BY Constants
<1>t. TypeOK
  BY DEF Inv
<1>u. /\ updates \in [Clients -> Seq(Items)] /\ \A d \in Clients : Len(updates[d]) <= UpdatesCap
      /\ calls \in Seq(Clients)
  BY DEF Inv, TypeOK, Items
<1> USE <1>t DEF TypeOK, Goes, Places, Waiting, Watching, accepting, client, shared, engine
<1>1. ASSUME NEW c \in Clients, Connect(c) \/ Accept(c) PROVE TypeOK'
  <2>1. CASE Connect(c)
    BY <1>0, <2>1 DEF Connect
  <2>2. CASE Accept(c)
    BY <1>0, <2>2 DEF Accept
  <2> QED
    BY <1>1, <2>1, <2>2
<1>2. ASSUME NEW c \in Clients, Call(c) PROVE TypeOK'
  <2>1. calls' \in Seq(Clients) /\ Len(calls') <= QueueCap
    <3>1. calls' = calls \/ (Len(calls) < QueueCap /\ calls' = Append(calls, c))
      BY <1>2 DEF Call
    <3>2. Len(calls) <= QueueCap
      OBVIOUS
    <3> HIDE <1>t DEF TypeOK
    <3> QED
      BY <1>u, <3>1, <3>2, CallsTypes
  <2> QED
    BY <1>0, <1>2, <2>1 DEF Call, Ends
<1>3. ASSUME NEW c \in Clients, Respond(c) PROVE TypeOK'
  BY <1>0, <1>c, <1>3 DEF Respond, Ends
<1>4. ASSUME NEW c \in Clients, NoRequest(c) \/ TimedOut(c) \/ Check(c) \/ Join(c) \/ Leave(c) PROVE TypeOK'
  BY <1>0, <1>c, <1>4 DEF NoRequest, TimedOut, Check, Join, Leave, Ends
<1>5. ASSUME NEW c \in Clients, Recv(c) PROVE TypeOK'
  <2>1. /\ updates' \in [Clients -> Seq(Items)] /\ \A d \in Clients : Len(updates'[d]) <= UpdatesCap
        /\ Head(updates[c]) \in Items
    BY <1>u, <1>5, UpdatesTypes DEF Recv
  <2>2. item' \in [Clients -> 0..MaxSnapshot \cup {None}]
    <3>1. item' = item \/ (Head(updates[c]) # Eof /\ item' = [item EXCEPT ![c] = Head(updates[c])])
      BY <1>5 DEF Recv
    <3>2. item \in [Clients -> 0..MaxSnapshot \cup {None}]
      OBVIOUS
    <3> HIDE <1>t DEF TypeOK
    <3> QED
      BY <2>1, <3>1, <3>2 DEF Items
  <2> QED
    BY <1>0, <1>5, <2>1, <2>2 DEF Recv, Items
<1>6. ASSUME NEW c \in Clients, Write(c) PROVE TypeOK'
  <2>1. item[c] \in 0..MaxSnapshot
    BY <1>6, <1>c DEF Inv, FeedInv, Watched, Following, Joined, Base, Write
  <2>2. seen' \in [Clients -> 0..MaxSnapshot] /\ item' \in [Clients -> 0..MaxSnapshot \cup {None}]
    BY <1>6, <2>1 DEF Write
  <2> QED
    BY <1>0, <1>6, <2>2 DEF Write
<1>7. ASSUME NEW c \in Clients, Reader(c) \/ PeerGoes(c) PROVE TypeOK'
  <2>1. CASE ReaderWakes(c)
    <3>1. updates' \in [Clients -> Seq(Items)] /\ \A d \in Clients : Len(updates'[d]) <= UpdatesCap
      BY <1>u, <2>1, UpdatesTypes DEF ReaderWakes, Items
    <3> QED
      BY <1>0, <2>1, <3>1 DEF ReaderWakes, Items
  <2>2. CASE ReaderEof(c) \/ PeerGoes(c)
    BY <1>0, <2>2 DEF ReaderEof, PeerGoes
  <2> QED
    BY <1>7, <2>1, <2>2 DEF Reader
<1>8. CASE AcceptFailed \/ Create
  BY <1>0, <1>c, <1>8 DEF AcceptFailed, ListenerEnds, Create
<1>9. CASE TakeCall
  <2>1. Head(calls) \in Clients /\ calls' \in Seq(Clients) /\ Len(calls') <= QueueCap
    BY <1>c, <1>u, <1>9 DEF TakeCall
  <2>2. subscribers' \subseteq Clients /\ left' \subseteq subscribers' /\ full' \subseteq subscribers'
    BY <1>9, <2>1 DEF TakeCall, Publishing
  <2> QED
    BY <1>0, <1>9, <2>1, <2>2 DEF TakeCall
<1>10. CASE Publish
  BY <1>0, <1>c, <1>10 DEF Publish
<1>11. ASSUME NEW s \in Clients, Visit(s) PROVE TypeOK'
  <2>1. updates' \in [Clients -> Seq(Items)] /\ \A d \in Clients : Len(updates'[d]) <= UpdatesCap
    <3>1. \/ updates' = updates
          \/ Len(updates[s]) < UpdatesCap /\ updates' = [updates EXCEPT ![s] = Append(@, snapshot)]
      BY <1>11 DEF Visit, Takes
    <3>2. snapshot \in Items
      BY DEF Items
    <3> HIDE <1>t DEF TypeOK
    <3>3. CASE updates' = updates
      BY <1>u, <3>3
    <3>4. CASE Len(updates[s]) < UpdatesCap /\ updates' = [updates EXCEPT ![s] = Append(@, snapshot)]
      BY <1>u, <3>2, <3>4, UpdatesTypes
    <3> QED
      BY <3>1, <3>3, <3>4
  <2>2. full' \subseteq subscribers /\ left' \subseteq subscribers
    BY <1>11 DEF Visit
  <2> QED
    BY <1>0, <1>11, <2>1, <2>2 DEF Visit, Items
<1>12. ASSUME NEW s \in Clients, Unsubscribe(s) PROVE TypeOK'
  <2>1. left' \subseteq subscribers'
    BY <1>12 DEF Unsubscribe, Inv, FeedInv, Visiting
  <2> QED
    BY <1>0, <1>12, <2>1 DEF Unsubscribe
<1> QED
  BY <1>1, <1>2, <1>3, <1>4, <1>5, <1>6, <1>7, <1>8, <1>9, <1>10, <1>11, <1>12 DEF Next, Engine, Serve

-----------------------------------------------------------------------------
(* What a watcher has been sent.                                           *)

\* What concerns a connection is what it does, its queue, and its place in a round.
Same(c) ==
  /\ at'[c] = at[c] /\ watch'[c] = watch[c] /\ reader'[c] = reader[c] /\ reply'[c] = reply[c]
  /\ item'[c] = item[c] /\ seen'[c] = seen[c] /\ alive'[c] = alive[c] /\ updates'[c] = updates[c]

Subscribed(c) ==
  /\ c \in subscribers' => c \in subscribers
  /\ c \in subscribers /\ alive[c] => c \in subscribers'

LEMMA Untouched ==
  ASSUME NEW c \in Clients, Watched(c), Same(c), Subscribed(c), UNCHANGED snapshot,
         c \in left' <=> c \in left, c \in full => c \in full'
  PROVE  Watched(c)'
PROOF
<1> USE DEF Same, Subscribed
<1>1. Fresh(c)' /\ Noticed(c)'
  BY DEF Watched, Fresh, Early, Noticed
<1>2. Joined(c)' => Joined(c) /\ Base(c)' = Base(c)
  BY DEF Joined, Base
<1>3. ASSUME Joined(c)' PROVE Following(c)'
  BY <1>2, <1>3 DEF Watched, Following, Kept, UpToDate
<1> QED
  BY <1>1, <1>3 DEF Watched

\* A connection that is not a watch any more, or not yet, and of which the engine has not heard.
LEMMA Apart ==
  ASSUME NEW c \in Clients, Fresh(c)', Noticed(c)', ~Joined(c)'
  PROVE  Watched(c)'
BY DEF Watched

LEMMA QueueKept ==
  ASSUME TypeOK, Queued, UNCHANGED calls, \A c \in Clients : InQueue(c) => InQueue(c)'
  PROVE  Queued'
PROOF
<1>1. \A i \in DOMAIN calls : calls[i] \in Clients
  BY DEF TypeOK
<1> QED
  BY <1>1 DEF Queued, InQueue

\* The variables of the connections, as functions.
LEMMA Functions ==
  ASSUME TypeOK
  PROVE  /\ at \in [Clients -> Places] /\ watch \in [Clients -> BOOLEAN]
         /\ reader \in [Clients -> {"none", "reading", "eof", "done"}]
         /\ alive \in [Clients -> BOOLEAN]
         /\ reply \in [Clients -> 0..MaxSnapshot \cup {None}]
         /\ item \in [Clients -> 0..MaxSnapshot \cup {None}]
         /\ seen \in [Clients -> 0..MaxSnapshot]
         /\ updates \in [Clients -> Seq(Items)]
         /\ snapshot \in 0..MaxSnapshot /\ MaxSnapshot \in Nat
         /\ calls \in Seq(Clients) /\ subscribers \subseteq Clients /\ left \subseteq subscribers
         /\ full \subseteq subscribers
BY Constants DEF TypeOK, Items

\* A step of one connection that leaves the engine alone.
LEMMA OneMoves ==
  ASSUME Inv, NEW c \in Clients, UNCHANGED <<calls, engine>>,
         \A d \in Clients \ {c} : Same(d), InQueue(c) => InQueue(c)', Watched(c)'
  PROVE  FeedInv'
PROOF
<1>1. \A d \in Clients \ {c} : Watched(d)'
  BY Untouched DEF Inv, FeedInv, engine, Subscribed
<1>2. Queued'
  <2>1. \A d \in Clients : InQueue(d) => InQueue(d)'
    BY DEF InQueue, Same
  <2> QED
    BY <2>1, QueueKept DEF Inv, FeedInv
<1>3. Visiting'
  BY DEF Inv, FeedInv, Visiting, engine
<1> QED
  BY <1>1, <1>2, <1>3 DEF FeedInv

LEMMA ListenerFeed ==
  ASSUME Inv, NEW c \in Clients, Connect(c) \/ Accept(c) \/ PeerGoes(c)
  PROVE  FeedInv'
PROOF
<1>1. TypeOK /\ Watched(c)
  BY DEF Inv, FeedInv
<1>2. CASE Connect(c) \/ Accept(c)
  <2>1. UNCHANGED <<calls, engine, reader, reply, item, seen, alive, updates>>
    BY <1>2 DEF Connect, Accept, shared, client
  <2>2. /\ at[c] \in Waiting /\ at'[c] \in {"backlog", "reading", "done"}
        /\ \A d \in Clients \ {c} : at'[d] = at[d] /\ watch'[d] = watch[d]
    BY <1>1, <1>2, Functions DEF Connect, Accept, Goes, Waiting
  <2>3. \A d \in Clients \ {c} : Same(d)
    BY <2>1, <2>2 DEF Same
  <2>4. Watched(c)'
    BY <1>1, <2>1, <2>2 DEF Watched, Fresh, Early, Noticed, Joined, Waiting, engine
  <2>5. ~InQueue(c)
    BY <2>2 DEF InQueue, Waiting
  <2> QED
    BY <2>1, <2>3, <2>4, <2>5, OneMoves
<1>3. CASE PeerGoes(c)
  <2>1. UNCHANGED <<at, watch, reader, reply, item, seen, alive, updates, calls, engine>>
    BY <1>3 DEF PeerGoes, shared
  <2>2. \A d \in Clients : Same(d)
    BY <2>1 DEF Same
  <2>3. Watched(c)' /\ InQueue(c)' = InQueue(c)
    BY <1>1, <2>1, <2>2, Untouched DEF engine, Subscribed, InQueue
  <2> QED
    BY <2>1, <2>2, <2>3, OneMoves
<1> QED
  BY <1>2, <1>3

LEMMA AcceptFeed ==
  ASSUME Inv, AcceptFailed \/ Create
  PROVE  FeedInv'
PROOF
<1>1. UNCHANGED <<watch, reader, reply, item, seen, alive, updates, calls, engine>>
  BY DEF AcceptFailed, ListenerEnds, Create, client, shared
<1>2. \A d \in Clients : at'[d] = at[d] \/ (at[d] = "backlog" /\ at'[d] = "done")
  BY DEF AcceptFailed, ListenerEnds, Create, client
<1>3. ASSUME NEW d \in Clients PROVE Watched(d)' /\ (InQueue(d) => InQueue(d)')
  <2>1. Watched(d)
    BY DEF Inv, FeedInv
  <2>2. CASE at'[d] = at[d]
    <3>1. Watched(d)'
      BY <1>1, <2>1, <2>2, Untouched DEF Same, Subscribed, engine
    <3> QED
      BY <1>1, <2>2, <3>1 DEF InQueue
  <2>3. CASE at[d] = "backlog" /\ at'[d] = "done"
    BY <1>1, <2>1, <2>3 DEF Watched, Fresh, Early, Waiting, Noticed, Joined, InQueue
  <2> QED
    BY <1>2, <2>2, <2>3
<1>4. Queued'
  BY <1>1, <1>3, QueueKept DEF Inv, FeedInv
<1>5. Visiting'
  BY <1>1 DEF Inv, FeedInv, Visiting, engine
<1> QED
  BY <1>3, <1>4, <1>5 DEF FeedInv

\* A thread's own steps.
LEMMA ServeFeed ==
  ASSUME Inv, NEW c \in Clients, Serve(c) \/ Reader(c)
  PROVE  FeedInv'
PROOF
<1>1. TypeOK /\ Watched(c)
  BY DEF Inv, FeedInv
<1> USE <1>1, Functions, Constants
<1>2. CASE Call(c)
  <2>1. UNCHANGED <<engine, watch, reader, reply, item, seen, alive, updates>>
    BY <1>2 DEF Call, shared
  <2>2. /\ at[c] = "reading"
        /\ \/ at'[c] = "calling" /\ calls' = Append(calls, c)
           \/ at'[c] = "leaving" /\ calls' = calls
        /\ \A d \in Clients \ {c} : at'[d] = at[d]
    BY <1>2 DEF Call, Goes, Ends
  <2>3. Watched(c)'
    BY <2>1, <2>2 DEF Watched, Fresh, Early, Noticed, Joined, Waiting, engine
  <2>4. \A d \in Clients \ {c} : Watched(d)'
    BY <2>1, <2>2, Untouched DEF Inv, FeedInv, Same, Subscribed, engine
  <2>5. Queued'
    <3>1. \A i \in DOMAIN calls : calls[i] \in Clients /\ calls[i] # c /\ InQueue(calls[i])
      BY <2>2 DEF Inv, FeedInv, Queued, InQueue
    <3>2. \A d \in Clients \ {c} : InQueue(d) => InQueue(d)'
      BY <2>1, <2>2 DEF InQueue
    <3>3. CASE calls' = calls
      BY <3>1, <3>2, <3>3 DEF Inv, FeedInv, Queued
    <3>4. CASE at'[c] = "calling" /\ calls' = Append(calls, c)
      <4>1. InQueue(c)'
        BY <2>1, <2>2, <3>4 DEF InQueue, Watched, Fresh
      <4>2. \A i \in DOMAIN calls' :
              \/ i = Len(calls) + 1 /\ calls'[i] = c
              \/ i \in DOMAIN calls /\ calls'[i] = calls[i]
        <5>1. calls \in Seq(Clients) /\ c \in Clients
          OBVIOUS
        <5>2. /\ DOMAIN calls' = 1..Len(calls) + 1 /\ DOMAIN calls = 1..Len(calls) /\ Len(calls) \in Nat
              /\ \A i \in DOMAIN calls : calls'[i] = calls[i]
              /\ calls'[Len(calls) + 1] = c
          BY <3>4, <5>1, AppendProperties
        <5> QED
          BY ONLY <5>2
      <4>3. \A i \in DOMAIN calls', j \in DOMAIN calls' : calls'[i] = calls'[j] => i = j
        <5>1. \A i \in DOMAIN calls, j \in DOMAIN calls : calls[i] = calls[j] => i = j
          BY DEF Inv, FeedInv, Queued
        <5> QED
          BY <3>1, <4>2, <5>1
      <4>4. \A i \in DOMAIN calls' : calls'[i] = c \/ (calls'[i] \in Clients \ {c} /\ InQueue(calls'[i]))
        BY <3>1, <4>2
      <4> QED
        BY <3>2, <4>1, <4>3, <4>4 DEF Queued, InQueue
    <3> QED
      BY <2>2, <3>3, <3>4
  <2>6. Visiting'
    BY <2>1 DEF Inv, FeedInv, Visiting, engine
  <2> QED
    BY <2>3, <2>4, <2>5, <2>6 DEF FeedInv
<1>3. CASE NoRequest(c) \/ TimedOut(c) \/ Join(c) \/ Leave(c)
  <2>1. UNCHANGED <<calls, engine, watch, reader, reply, item, seen, alive, updates>>
    BY <1>3 DEF NoRequest, TimedOut, Join, Leave, shared
  <2>2. at'[c] \in {"leaving", "done"} /\ \A d \in Clients \ {c} : at'[d] = at[d]
    BY <1>3 DEF NoRequest, TimedOut, Join, Leave, Goes, Ends
  <2>3. \A d \in Clients \ {c} : Same(d)
    BY <2>1, <2>2 DEF Same
  <2>4. Watched(c)' /\ InQueue(c)'
    BY <2>1, <2>2 DEF Watched, Fresh, Early, Noticed, Joined, Waiting, engine, InQueue
  <2> QED
    BY <2>1, <2>3, <2>4, OneMoves
<1>4. CASE Respond(c)
  <2>1. UNCHANGED <<calls, engine, watch, item, alive, updates>>
    BY <1>4 DEF Respond, shared
  <2>2. /\ at[c] = "calling" /\ reply[c] # None /\ reply'[c] = None
        /\ \/ at'[c] = "check" /\ seen'[c] = reply[c] /\ reader'[c] = "reading" /\ watch[c]
           \/ at'[c] = "leaving" /\ reader'[c] = reader[c]
        /\ \A d \in Clients \ {c} :
             at'[d] = at[d] /\ reply'[d] = reply[d] /\ seen'[d] = seen[d] /\ reader'[d] = reader[d]
    BY <1>4 DEF Respond, Goes, Ends
  <2>3. \A d \in Clients \ {c} : Same(d)
    BY <2>1, <2>2 DEF Same
  <2>4. ~InQueue(c)
    BY <2>2 DEF InQueue
  <2>5. Watched(c)'
    <3>1. Fresh(c)' /\ Noticed(c)'
      BY <2>1, <2>2 DEF Watched, Fresh, Early, Waiting, Noticed
    <3>2. ASSUME Joined(c)' PROVE Following(c)'
      <4>1. Joined(c) /\ at'[c] = "check" /\ reader[c] = "none" /\ Base(c)' = Base(c)
        BY <2>2, <3>2 DEF Joined, Base, Watched, Fresh, Early
      <4>2. Kept(c)'
        BY <2>1, <4>1 DEF Watched, Following, Kept, engine
      <4>3. UpToDate(c)'
        BY <2>1, <4>1 DEF Watched, Following, UpToDate, engine
      <4> QED
        BY <2>1, <4>1, <4>2, <4>3 DEF Watched, Following, engine
    <3> QED
      BY <3>1, <3>2 DEF Watched
  <2> QED
    BY <2>1, <2>3, <2>4, <2>5, OneMoves
<1>5. CASE Check(c)
  <2>1. UNCHANGED <<calls, engine, watch, reader, reply, item, seen, alive, updates>>
    BY <1>5 DEF Check, shared
  <2>2. at[c] = "check" /\ at'[c] \in {"recv", "closing"} /\ \A d \in Clients \ {c} : at'[d] = at[d]
    BY <1>5 DEF Check, Goes
  <2>3. \A d \in Clients \ {c} : Same(d)
    BY <2>1, <2>2 DEF Same
  <2>4. ~InQueue(c)
    BY <2>2 DEF InQueue
  <2>5. Watched(c)'
    <3>1. Fresh(c)' /\ Noticed(c)'
      BY <2>1, <2>2 DEF Watched, Fresh, Early, Waiting, Noticed
    <3>2. Joined(c) /\ Base(c)' = Base(c) /\ at'[c] # "write"
      BY <2>1, <2>2 DEF Joined, Base
    <3>3. Following(c)'
      BY <2>1, <3>2 DEF Watched, Following, Kept, UpToDate, engine
    <3> QED
      BY <3>1, <3>3 DEF Watched
  <2> QED
    BY <2>1, <2>3, <2>4, <2>5, OneMoves
<1>6. CASE Recv(c)
  <2>1. UNCHANGED <<calls, engine, watch, reader, reply, seen, alive>>
    BY <1>6 DEF Recv
  <2>2. /\ at[c] = "recv" /\ updates[c] # <<>> /\ updates'[c] = Tail(updates[c])
        /\ \/ at'[c] = "closing"
           \/ at'[c] = "write" /\ Head(updates[c]) # Eof /\ item'[c] = Head(updates[c])
        /\ \A d \in Clients \ {c} : at'[d] = at[d] /\ item'[d] = item[d] /\ updates'[d] = updates[d]
    BY <1>6 DEF Recv, Goes
  <2>3. \A d \in Clients \ {c} : Same(d)
    BY <2>1, <2>2 DEF Same
  <2>4. ~InQueue(c)
    BY <2>2 DEF InQueue
  <2>5. Watched(c)'
    <3>1. Fresh(c)' /\ Noticed(c)'
      BY <2>1, <2>2 DEF Watched, Fresh, Early, Waiting, Noticed
    <3>2. ASSUME at'[c] = "write" PROVE Following(c)'
      <4>1. Following(c) /\ Base(c) = seen[c] /\ seen[c] \in Nat
        BY <2>2 DEF Watched, Joined, Base
      <4>2. item'[c] = seen[c] + 1 /\ seen[c] + 1 <= snapshot
        <5>1. updates[c] \in Seq(Items) /\ 1 \in DOMAIN updates[c] /\ Head(updates[c]) = updates[c][1]
          BY <2>2
        <5> QED
          BY <2>2, <3>2, <4>1, <5>1 DEF Following, Kept
      <4>3. Base(c)' = Base(c) + 1 /\ Base(c)' \in 0..snapshot
        BY <3>2, <4>1, <4>2 DEF Base
      <4>4. /\ Len(updates'[c]) = Len(updates[c]) - 1
            /\ \A i \in DOMAIN updates'[c] :
                 i \in Nat /\ i + 1 \in DOMAIN updates[c] /\ updates'[c][i] = updates[c][i + 1]
        BY <2>2
      <4>5. Kept(c)'
        <5>0. Len(updates[c]) \in Nat
          BY <2>2
        <5> SUFFICES ASSUME NEW i \in DOMAIN updates'[c]
                     PROVE  \/ updates'[c][i] = Base(c)' + i /\ Base(c)' + i <= snapshot'
                            \/ updates'[c][i] = Eof /\ i = Len(updates'[c]) /\ reader'[c] = "done"
          BY DEF Kept
        <5>1. /\ i \in Nat /\ Base(c) \in Nat /\ snapshot' = snapshot
              /\ \/ updates[c][i + 1] = Base(c) + (i + 1) /\ Base(c) + (i + 1) <= snapshot
                 \/ updates[c][i + 1] = Eof /\ i + 1 = Len(updates[c]) /\ reader[c] = "done"
          BY <2>1, <4>1, <4>4 DEF Following, Kept, engine
        <5>2. (Base(c) + 1) + i = Base(c) + (i + 1)
          BY <5>1
        <5>3. updates'[c][i] = updates[c][i + 1] /\ reader'[c] = reader[c]
          BY <2>1, <4>4
        <5>4. CASE updates[c][i + 1] = Base(c) + (i + 1) /\ Base(c) + (i + 1) <= snapshot
          BY <4>3, <5>1, <5>2, <5>3, <5>4
        <5>5. CASE updates[c][i + 1] = Eof /\ i + 1 = Len(updates[c]) /\ reader[c] = "done"
          <6>1. i = Len(updates'[c])
            BY <4>4, <5>0, <5>1, <5>5
          <6> QED
            BY <5>3, <5>5, <6>1
        <5> QED
          BY <5>1, <5>4, <5>5
      <4>6. UpToDate(c)'
        BY <2>1, <4>1, <4>3, <4>4 DEF Following, UpToDate, engine
      <4> QED
        BY <2>1, <4>2, <4>3, <4>5, <4>6 DEF Following, engine
    <3> QED
      BY <2>2, <3>1, <3>2 DEF Watched, Joined
  <2> QED
    BY <2>1, <2>3, <2>4, <2>5, OneMoves
<1>7. CASE Write(c)
  <2>1. UNCHANGED <<calls, engine, watch, reader, reply, alive, updates>>
    BY <1>7 DEF Write, shared
  <2>2. /\ at[c] = "write"
        /\ \/ at'[c] = "check" /\ seen'[c] = item[c]
           \/ at'[c] = "closing"
        /\ \A d \in Clients \ {c} : at'[d] = at[d] /\ item'[d] = item[d] /\ seen'[d] = seen[d]
    BY <1>7 DEF Write, Goes
  <2>3. \A d \in Clients \ {c} : Same(d)
    BY <2>1, <2>2 DEF Same
  <2>4. ~InQueue(c)
    BY <2>2 DEF InQueue
  <2>5. Watched(c)'
    <3>1. Fresh(c)' /\ Noticed(c)'
      BY <2>1, <2>2 DEF Watched, Fresh, Early, Waiting, Noticed
    <3>2. ASSUME at'[c] = "check" PROVE Following(c)'
      <4>1. Following(c) /\ Base(c)' = Base(c)
        BY <2>2, <3>2 DEF Watched, Joined, Base
      <4> QED
        BY <2>1, <3>2, <4>1 DEF Following, Kept, UpToDate, engine
    <3> QED
      BY <2>2, <3>1, <3>2 DEF Watched, Joined
  <2> QED
    BY <2>1, <2>3, <2>4, <2>5, OneMoves
<1>8. CASE ReaderEof(c)
  <2>1. UNCHANGED <<calls, engine, at, watch, reply, item, seen, updates>>
    BY <1>8 DEF ReaderEof
  <2>2. /\ reader[c] = "reading" /\ reader'[c] = "eof" /\ alive'[c] = FALSE
        /\ \A d \in Clients \ {c} : reader'[d] = reader[d] /\ alive'[d] = alive[d]
    BY <1>8 DEF ReaderEof
  <2>3. \A d \in Clients \ {c} : Same(d)
    BY <2>1, <2>2 DEF Same
  <2>4. InQueue(c)' = InQueue(c)
    BY <2>1 DEF InQueue
  <2>5. Watched(c)'
    <3>1. Fresh(c)' /\ Noticed(c)'
      BY <2>1, <2>2 DEF Watched, Fresh, Early, Waiting, Noticed
    <3>2. Joined(c)' = Joined(c) /\ Base(c)' = Base(c)
      BY <2>1 DEF Joined, Base
    <3>3. Joined(c) => Following(c)'
      BY <2>1, <2>2, <3>2 DEF Watched, Following, Kept, UpToDate, engine
    <3> QED
      BY <3>1, <3>2, <3>3 DEF Watched
  <2> QED
    BY <2>1, <2>3, <2>4, <2>5, OneMoves
<1>9. CASE ReaderWakes(c)
  <2>1. UNCHANGED <<calls, engine, at, watch, reply, item, seen, alive>>
    BY <1>9 DEF ReaderWakes
  <2>2. /\ reader[c] = "eof" /\ reader'[c] = "done"
        /\ updates'[c] = updates[c] \/ updates'[c] = Append(updates[c], Eof)
        /\ \A d \in Clients \ {c} : reader'[d] = reader[d] /\ updates'[d] = updates[d]
    BY <1>9 DEF ReaderWakes
  <2>3. \A d \in Clients \ {c} : Same(d)
    BY <2>1, <2>2 DEF Same
  <2>4. InQueue(c)' = InQueue(c)
    BY <2>1 DEF InQueue
  <2>5. Watched(c)'
    <3>1. Fresh(c)' /\ Noticed(c)'
      BY <2>1, <2>2 DEF Watched, Fresh, Early, Waiting, Noticed
    <3>2. Joined(c)' = Joined(c) /\ Base(c)' = Base(c) /\ alive'[c] = FALSE
      BY <2>1, <2>2 DEF Joined, Base, Watched, Noticed
    <3>3. ASSUME Joined(c) PROVE Kept(c)'
      <4>1. \A i \in DOMAIN updates[c] : updates[c][i] = Base(c) + i /\ Base(c) + i <= snapshot
        BY <2>2, <3>3 DEF Watched, Following, Kept
      <4>2. \A i \in DOMAIN updates'[c] :
              \/ i \in DOMAIN updates[c] /\ updates'[c][i] = updates[c][i]
              \/ i = Len(updates'[c]) /\ updates'[c][i] = Eof
        <5>1. updates[c] \in Seq(Items) /\ Eof \in Items
          BY DEF Items
        <5>2. CASE updates'[c] = updates[c]
          BY <5>2
        <5>3. CASE updates'[c] = Append(updates[c], Eof)
          BY <5>1, <5>3, AppendProperties
        <5> QED
          BY <2>2, <5>2, <5>3
      <4> QED
        BY <2>1, <2>2, <3>2, <4>1, <4>2 DEF Kept, engine
    <3>4. Joined(c) => Following(c)'
      BY <2>1, <3>2, <3>3 DEF Watched, Following, UpToDate, engine
    <3> QED
      BY <3>1, <3>2, <3>4 DEF Watched
  <2> QED
    BY <2>1, <2>3, <2>4, <2>5, OneMoves
<1> QED
  BY <1>2, <1>3, <1>4, <1>5, <1>6, <1>7, <1>8, <1>9 DEF Serve, Reader

\* The engine takes a call: reply and subscription are of the same snapshot.
LEMMA TakeCallFeed ==
  ASSUME Inv, TakeCall
  PROVE  FeedInv'
PROOF
<1> USE Functions, Constants
<1>1. TypeOK /\ left = {} /\ full = {}
  BY DEF Inv, TakeCall, Publishing
<1>a. PICK c \in Clients : c = Head(calls)
  BY <1>1 DEF TakeCall
<1>2. /\ calls # <<>> /\ calls' = Tail(calls)
      /\ UNCHANGED <<at, watch, reader, item, seen, alive, updates, snapshot, left, full>>
  BY DEF TakeCall, shared
<1>3. calls \in Seq(Clients) /\ c \in Clients /\ 1 \in DOMAIN calls /\ calls[1] = c
  BY <1>1, <1>2, <1>a
<1>4. /\ \A d \in Clients \ {c} : reply'[d] = reply[d] /\ Subscribed(d)
      /\ reply'[c] = IF at[c] = "calling" THEN snapshot ELSE reply[c]
      /\ watch[c] => c \in subscribers'
  BY <1>1, <1>3, <1>a DEF TakeCall, Subscribed
<1>5. InQueue(c) /\ Watched(c)
  BY <1>3 DEF Inv, FeedInv, Queued
<1>6. \A d \in Clients \ {c} : Watched(d)' /\ InQueue(d)' = InQueue(d)
  <2>1. \A d \in Clients \ {c} : Same(d)
    BY <1>2, <1>4 DEF Same
  <2> QED
    BY <1>2, <1>4, <2>1, Untouched DEF Inv, FeedInv, InQueue, Same
<1>7. Watched(c)'
  <2>1. CASE at[c] = "calling"
    <3>1. reply[c] = None /\ alive[c] /\ updates[c] = <<>> /\ reader[c] = "none"
      BY <1>5, <2>1 DEF InQueue, Watched, Fresh, Early
    <3>2. reply'[c] = snapshot /\ snapshot \in Nat /\ reply'[c] # None
      BY <1>1, <1>4, <2>1
    <3>3. Fresh(c)' /\ Noticed(c)'
      BY <1>2, <2>1, <3>1, <3>2 DEF Fresh, Early, Waiting, Noticed
    <3>4. ASSUME Joined(c)' PROVE Following(c)'
      <4>1. watch[c] /\ Base(c)' = snapshot
        BY <1>2, <2>1, <3>2, <3>4 DEF Joined, Base
      <4>2. updates'[c] = <<>> /\ Len(updates'[c]) = 0 /\ DOMAIN updates'[c] = {}
        BY <1>2, <3>1
      <4>3. c \notin left' /\ c \in subscribers'
        BY <1>1, <1>2, <1>4, <4>1
      <4> QED
        BY <1>2, <2>1, <3>2, <4>1, <4>2, <4>3 DEF Following, Kept, UpToDate
    <3> QED
      BY <3>3, <3>4 DEF Watched
  <2>2. CASE at[c] \in {"leaving", "done"}
    BY <1>2, <1>5, <2>2 DEF Watched, Fresh, Early, Waiting, Noticed, Joined
  <2> QED
    BY <1>5, <2>1, <2>2 DEF InQueue
<1>8. Queued'
  <2>1. \A i \in DOMAIN calls' : i \in Nat /\ i > 0 /\ i + 1 \in DOMAIN calls /\ calls'[i] = calls[i + 1]
    BY <1>2, <1>3
  <2>2. \A i \in DOMAIN calls' : calls'[i] \in Clients \ {c} /\ InQueue(calls'[i])
    <3> SUFFICES ASSUME NEW i \in DOMAIN calls' PROVE calls'[i] \in Clients \ {c} /\ InQueue(calls'[i])
      OBVIOUS
    <3>1. i + 1 # 1 /\ i + 1 \in DOMAIN calls /\ calls'[i] = calls[i + 1]
      BY <2>1
    <3>2. calls[i + 1] # calls[1] /\ InQueue(calls[i + 1])
      BY <1>3, <3>1 DEF Inv, FeedInv, Queued
    <3>3. calls[i + 1] \in Clients
      BY <1>3, <3>1
    <3> QED
      BY <1>3, <3>1, <3>2, <3>3
  <2>3. \A i \in DOMAIN calls', j \in DOMAIN calls' : calls'[i] = calls'[j] => i = j
    <3> SUFFICES ASSUME NEW i \in DOMAIN calls', NEW j \in DOMAIN calls', calls'[i] = calls'[j] PROVE i = j
      OBVIOUS
    <3>1. i + 1 = j + 1
      BY <2>1 DEF Inv, FeedInv, Queued
    <3> QED
      BY <2>1, <3>1
  <2>4. \A d \in Clients \ {c} : InQueue(d) => at'[d] = at[d] /\ reply'[d] = reply[d]
    BY <1>2, <1>4
  <2> QED
    BY <2>2, <2>3, <2>4 DEF Queued, InQueue
<1>9. Visiting'
  BY <1>1, <1>2 DEF Visiting
<1> QED
  BY <1>3, <1>6, <1>7, <1>8, <1>9 DEF FeedInv

\* A new snapshot: every subscriber misses one until it is visited.
LEMMA PublishFeed ==
  ASSUME Inv, Publish
  PROVE  FeedInv'
PROOF
<1>1. TypeOK /\ left = {} /\ full = {} /\ snapshot \in Nat
  BY Functions DEF Inv, Publish, Publishing
<1>2. /\ snapshot' = snapshot + 1 /\ left' = subscribers
      /\ UNCHANGED <<calls, at, watch, reader, reply, item, seen, alive, updates, subscribers, full>>
  BY DEF Publish, client, shared
<1>3. ASSUME NEW c \in Clients PROVE Watched(c)' /\ InQueue(c)' = InQueue(c)
  <2>1. Watched(c)
    BY DEF Inv, FeedInv
  <2>2. Fresh(c)' /\ Noticed(c)' /\ InQueue(c)' = InQueue(c) /\ Joined(c)' = Joined(c) /\ Base(c)' = Base(c)
    BY <1>2, <2>1 DEF Watched, Fresh, Early, Noticed, InQueue, Joined, Base
  <2>3. ASSUME Following(c) PROVE Following(c)'
    <3>1. Base(c) \in 0..snapshot /\ updates[c] \in Seq(Items)
      BY <1>1, <2>3, Functions DEF Following
    <3>2. Base(c)' \in 0..snapshot' /\ Kept(c)'
      BY <1>1, <1>2, <2>2, <2>3, <3>1 DEF Following, Kept
    <3>3. UpToDate(c)'
      <4>1. Len(updates[c]) \in Nat /\ Base(c) \in Nat
        BY <1>1, <3>1
      <4> QED
        BY <1>1, <1>2, <2>2, <2>3, <4>1 DEF Following, UpToDate
    <3> QED
      BY <1>2, <2>3, <3>2, <3>3 DEF Following
  <2> QED
    BY <2>1, <2>2, <2>3 DEF Watched
<1>4. Queued'
  BY <1>1, <1>2, <1>3, QueueKept DEF Inv, FeedInv
<1>5. Visiting'
  BY <1>1, <1>2 DEF Visiting
<1> QED
  BY <1>3, <1>4, <1>5 DEF FeedInv

LEMMA VisitFeed ==
  ASSUME Inv, NEW c \in Clients, Visit(c) \/ Unsubscribe(c)
  PROVE  FeedInv'
PROOF
<1>1. TypeOK /\ Watched(c)
  BY DEF Inv, FeedInv
<1>2. UNCHANGED <<calls, at, watch, reader, reply, item, seen, snapshot>> /\ c \in subscribers
  BY <1>1 DEF Visit, Unsubscribe, client, TypeOK
<1>3. Queued'
  BY <1>1, <1>2, QueueKept DEF Inv, FeedInv, InQueue
<1>4. Fresh(c)
  BY <1>1 DEF Watched
<1>5. Joined(c)' = Joined(c) /\ Base(c)' = Base(c)
  BY <1>2 DEF Joined, Base
<1>6. CASE Visit(c)
  <2>1. /\ c \in left /\ left' = left \ {c} /\ full = {} /\ UNCHANGED <<alive, subscribers>>
        /\ \/ alive[c] /\ updates'[c] = Append(updates[c], snapshot) /\ full' = {}
           \/ updates' = updates /\ full' = {c}
        /\ \A d \in Clients \ {c} : updates'[d] = updates[d]
    BY <1>1, <1>6, Functions DEF Visit
  <2>2. \A d \in Clients \ {c} : Watched(d)'
    BY <1>2, <2>1, Untouched DEF Inv, FeedInv, Same, Subscribed
  <2>3. Visiting'
    BY <2>1 DEF Visiting
  <2>4. Fresh(c)' /\ Noticed(c)'
    BY <1>1, <1>2, <2>1 DEF Watched, Fresh, Early, Noticed
  <2>5. ASSUME Joined(c) PROVE Following(c)'
    <3>1. Following(c) /\ Base(c) \in Nat /\ snapshot \in Nat /\ updates[c] \in Seq(Items) /\ snapshot \in Items
      BY <1>1, <2>5, Functions DEF Watched, Following, Items
    <3>2. CASE updates' = updates /\ full' = {c}
      BY <1>2, <1>5, <2>1, <3>1, <3>2 DEF Following, Kept, UpToDate
    <3>3. CASE alive[c] /\ updates'[c] = Append(updates[c], snapshot) /\ full' = {}
      <4>1. ~(reader[c] = "done")
        BY <1>1, <3>3 DEF Watched, Noticed
      <4>2. c \in subscribers /\ Base(c) + Len(updates[c]) + 1 = snapshot
        BY <2>1, <3>1, <3>3 DEF Following, UpToDate
      <4>3. /\ Len(updates'[c]) = Len(updates[c]) + 1 /\ Len(updates[c]) \in Nat
            /\ \A i \in DOMAIN updates'[c] :
                 \/ i \in DOMAIN updates[c] /\ updates'[c][i] = updates[c][i]
                 \/ i = Len(updates[c]) + 1 /\ updates'[c][i] = snapshot
        BY <3>1, <3>3, AppendProperties
      <4>4. Kept(c)'
        <5> SUFFICES ASSUME NEW i \in DOMAIN updates'[c]
                     PROVE  updates'[c][i] = Base(c)' + i /\ Base(c)' + i <= snapshot'
          BY DEF Kept
        <5>1. CASE i \in DOMAIN updates[c] /\ updates'[c][i] = updates[c][i]
          BY <1>2, <1>5, <3>1, <4>1, <5>1 DEF Following, Kept
        <5>2. CASE i = Len(updates[c]) + 1 /\ updates'[c][i] = snapshot
          <6>1. Base(c) + i = snapshot
            BY <3>1, <4>2, <4>3, <5>2
          <6> QED
            BY <1>2, <1>5, <3>1, <5>2, <6>1
        <5> QED
          BY <4>3, <5>1, <5>2
      <4>5. UpToDate(c)'
        BY <1>2, <1>5, <2>1, <3>1, <4>2, <4>3 DEF UpToDate
      <4> QED
        BY <1>2, <1>5, <3>1, <4>4, <4>5 DEF Following
    <3> QED
      BY <2>1, <3>2, <3>3
  <2> QED
    BY <1>3, <1>5, <2>2, <2>3, <2>4, <2>5 DEF FeedInv, Watched
<1>7. CASE Unsubscribe(c)
  <2>1. /\ c \in full /\ full' = {} /\ UNCHANGED <<updates, left>> /\ alive'[c] = FALSE
        /\ subscribers' = subscribers \ {c}
        /\ \A d \in Clients \ {c} : alive'[d] = alive[d] /\ d \notin full
    BY <1>1, <1>7, Functions DEF Unsubscribe, Inv, FeedInv, Visiting
  <2>2. \A d \in Clients \ {c} : Watched(d)'
    BY <1>2, <2>1, Untouched DEF Inv, FeedInv, Same, Subscribed
  <2>3. Visiting'
    BY <2>1 DEF Visiting
  <2>4. Fresh(c)' /\ Noticed(c)'
    BY <1>1, <1>2, <2>1 DEF Watched, Fresh, Early, Noticed
  <2>5. ASSUME Joined(c) PROVE Following(c)'
    BY <1>1, <1>2, <1>5, <2>1, <2>5 DEF Watched, Following, Kept, UpToDate
  <2> QED
    BY <1>3, <1>5, <2>2, <2>3, <2>4, <2>5 DEF FeedInv, Watched
<1> QED
  BY <1>6, <1>7

-----------------------------------------------------------------------------
(* The invariant and what follows from it.                                 *)

LEMMA InitInv == Init => Inv
PROOF
<1> SUFFICES ASSUME Init PROVE Inv
  OBVIOUS
<1> USE Constants DEF Init
<1>1. TypeOK
  BY DEF TypeOK, Places, Waiting
<1>2. Counted
  <2>1. Served = {} /\ Opened = {}
    BY DEF Served, Opened, Waiting
  <2> QED
    BY <2>1, FS_EmptySet DEF Counted, Own
<1>3. FeedInv
  BY DEF FeedInv, Queued, Visiting, Watched, Fresh, Early, Waiting, Noticed, Joined
<1> QED
  BY <1>1, <1>2, <1>3 DEF Inv

LEMMA NextInv == Inv /\ [Next]_vars => Inv'
PROOF
<1>1. ASSUME Inv, Next PROVE Inv'
  <2>1. FeedInv'
    BY <1>1, ListenerFeed, AcceptFeed, ServeFeed, TakeCallFeed, PublishFeed, VisitFeed DEF Next, Engine
  <2> QED
    BY <1>1, <2>1, TypeSteps, CountSteps DEF Inv
<1>2. ASSUME Inv, UNCHANGED vars PROVE Inv'
  <2>1. UNCHANGED <<client, shared, accepting, active, calls, engine>>
    BY <1>2 DEF vars
  <2>2. TypeOK'
    BY <1>2, <2>1 DEF Inv, TypeOK, client, shared, accepting, engine
  <2>3. Counted'
    BY <1>2, <2>1 DEF Inv, Counted, Served, Opened, Own, client, accepting
  <2>4. FeedInv'
    <3>1. \A c \in Clients : Watched(c)'
      BY <1>2, <2>1, Untouched DEF Inv, FeedInv, Same, Subscribed, client, shared, engine
    <3>2. Queued' /\ Visiting'
      BY <1>2, <2>1 DEF Inv, FeedInv, Queued, InQueue, Visiting, client, engine
    <3> QED
      BY <3>1, <3>2 DEF FeedInv
  <2> QED
    BY <2>2, <2>3, <2>4 DEF Inv
<1> QED
  BY <1>1, <1>2

\* Never are more threads counted out than there are, and while the listener goes on an
\* instance of the pipe is left for the next client, also when threads could not be
\* created.
PlacesKept == Cardinality(Served) <= active /\ (listener = "creating" => ~Full)

LEMMA InvPlaces == Inv => PlacesKept
PROOF
<1> SUFFICES ASSUME Inv PROVE PlacesKept
  OBVIOUS
<1>1. IsFiniteSet(Served) /\ Cardinality(Served) <= active /\ active <= MaxClients /\ pipes = Cardinality(Opened) + Own
  BY DEF Inv, Counted
<1>2. Cardinality(Opened) <= Cardinality(Served) /\ Cardinality(Opened) \in Nat /\ Cardinality(Served) \in Nat
  BY <1>1, FS_Subset, FS_CardinalityType DEF Opened
<1>3. active \in Nat /\ MaxClients \in Nat
  BY Constants DEF Inv, TypeOK
<1> QED
  BY <1>1, <1>2, <1>3 DEF PlacesKept, Full, Own

THEOREM PlacesAreKept == Spec => []PlacesKept
BY InvPlaces, InitInv, NextInv, PTL DEF Spec

\* As long as threads can be created, the count is exact: no place is lost.
THEOREM CountIsExact ==
  ASSUME ~SpawnFails
  PROVE  Spec => []ActiveIsServed
PROOF
<1>1. Inv => ActiveIsServed
  BY InvPlaces DEF Inv, Counted, PlacesKept, ActiveIsServed
<1> QED
  BY <1>1, InitInv, NextInv, PTL DEF Spec

-----------------------------------------------------------------------------
(* The channel implements the safety of Feed.                              *)

Shown(c) == IF Standing(c) = "closed" THEN 0 ELSE seen[c]
StandsStill(c) == Standing(c)' = Standing(c) /\ Shown(c)' = Shown(c)

LEMMA NothingShown ==
  ASSUME UNCHANGED snapshot, \A c \in Clients : StandsStill(c)
  PROVE  UNCHANGED Promise!vars
BY DEF Promise!vars, StandsStill, Shown

\* What one connection's step is to a watcher.
Opens(c) == Standing(c) = "closed" /\ Standing(c)' \in {"open", "cut"} /\ Shown(c)' \in 0..snapshot
Advances(c) ==
  /\ Standing(c) \in {"open", "cut"} /\ Standing(c)' = Standing(c)
  /\ Shown(c) < snapshot /\ Shown(c)' = Shown(c) + 1
IsCut(c) == Standing(c) = "open" /\ Standing(c)' = "cut" /\ Shown(c)' = Shown(c)
Closes(c) == Standing(c) \in {"open", "cut"} /\ Standing(c)' = "closed"

LEMMA OneShown ==
  ASSUME UNCHANGED snapshot, NEW c \in Clients, \A d \in Clients \ {c} : StandsStill(d),
         StandsStill(c) \/ Opens(c) \/ Advances(c) \/ IsCut(c) \/ Closes(c)
  PROVE  [Promise!Next]_(Promise!vars)
PROOF
<1> DEFINE feed == [d \in Clients |-> Standing(d)]
           shown == [d \in Clients |-> IF Standing(d) = "closed" THEN 0 ELSE seen[d]]
<1>1. /\ feed[c] = Standing(c) /\ shown[c] = Shown(c)
      /\ feed' = [feed EXCEPT ![c] = Standing(c)'] /\ shown' = [shown EXCEPT ![c] = Shown(c)']
  BY DEF StandsStill, Shown
<1>2. CASE StandsStill(c)
  BY <1>2, NothingShown
<1>3. CASE Opens(c)
  <2>1. Promise!Open(c)
    BY <1>1, <1>3 DEF Opens, Promise!Open
  <2> QED
    BY <2>1 DEF Promise!Next
<1>4. CASE Advances(c)
  <2>1. Promise!Show(c)
    BY <1>1, <1>4 DEF Advances, Promise!Show
  <2> QED
    BY <2>1 DEF Promise!Next
<1>5. CASE IsCut(c)
  <2>1. Promise!Cut(c)
    BY <1>1, <1>5 DEF IsCut, Promise!Cut
  <2> QED
    BY <2>1 DEF Promise!Next
<1>6. CASE Closes(c)
  <2>1. Shown(c)' = 0
    BY <1>6 DEF Closes, Shown
  <2>2. Promise!Close(c)
    BY <1>1, <1>6, <2>1 DEF Closes, Promise!Close
  <2> QED
    BY <2>2 DEF Promise!Next
<1> QED
  BY <1>2, <1>3, <1>4, <1>5, <1>6

\* A connection whose place, end and channel do not change stands where it stood.
LEMMA Still ==
  ASSUME NEW c \in Clients, at'[c] = at[c], alive'[c] = alive[c], c \in full' <=> c \in full,
         Standing(c) # "closed" => seen'[c] = seen[c]
  PROVE  StandsStill(c)
BY DEF StandsStill, Standing, Shown

\* The steps that no watcher sees.
LEMMA QuietSteps ==
  ASSUME Inv,
         \/ \E c \in Clients :
              \/ Connect(c) \/ Accept(c) \/ Call(c) \/ NoRequest(c) \/ TimedOut(c) \/ Join(c) \/ Leave(c)
              \/ ReaderWakes(c) \/ PeerGoes(c)
         \/ AcceptFailed \/ Create \/ TakeCall
  PROVE  UNCHANGED Promise!vars
PROOF
<1> USE DEF Waiting, Watching
<1>0. at \in [Clients -> Places]
  BY Functions DEF Inv
<1>1. UNCHANGED <<alive, full, seen, snapshot>>
  BY DEF Connect, Accept, Call, NoRequest, TimedOut, Join, Leave, ReaderWakes, PeerGoes, AcceptFailed,
     ListenerEnds, Create, TakeCall, shared, engine, client
<1>2. \A d \in Clients :
        \/ at'[d] = at[d]
        \/ at[d] \notin Watching \ {"closing"} /\ at'[d] \notin Watching \ {"closing"}
  <2>1. CASE \E c \in Clients : Connect(c) \/ Accept(c)
    BY <1>0, <2>1 DEF Connect, Accept, Goes
  <2>2. CASE \E c \in Clients : Call(c) \/ NoRequest(c) \/ TimedOut(c)
    BY <1>0, <2>2 DEF Call, NoRequest, TimedOut, Goes, Ends
  <2>3. CASE \E c \in Clients : Join(c) \/ Leave(c)
    BY <1>0, <2>3 DEF Join, Leave, Goes, Ends
  <2>4. CASE \/ \E c \in Clients : ReaderWakes(c) \/ PeerGoes(c)
             \/ AcceptFailed \/ Create \/ TakeCall
    BY <2>4 DEF ReaderWakes, PeerGoes, AcceptFailed, ListenerEnds, Create, TakeCall, client
  <2> QED
    BY <2>1, <2>2, <2>3, <2>4
<1>3. \A d \in Clients : StandsStill(d)
  BY <1>1, <1>2 DEF StandsStill, Standing, Shown
<1> QED
  BY <1>1, <1>3, NothingShown

\* The steps of a watch's thread.
LEMMA WatchSteps ==
  ASSUME Inv, NEW c \in Clients, Respond(c) \/ Check(c) \/ Recv(c) \/ Write(c) \/ ReaderEof(c)
  PROVE  [Promise!Next]_(Promise!vars)
PROOF
<1> USE Functions DEF Watching
<1>1. TypeOK /\ Watched(c)
  BY DEF Inv, FeedInv
<1>2. UNCHANGED <<full, snapshot>>
  BY DEF Respond, Check, Recv, Write, ReaderEof, engine
<1>3. \A d \in Clients \ {c} : at'[d] = at[d] /\ alive'[d] = alive[d] /\ seen'[d] = seen[d]
  BY <1>1 DEF Respond, Check, Recv, Write, ReaderEof, Goes, Ends, shared
<1>4. \A d \in Clients \ {c} : StandsStill(d)
  BY <1>2, <1>3, Still
<1>5. CASE Respond(c)
  <2>1. at[c] = "calling" /\ alive'[c] = alive[c]
    BY <1>5 DEF Respond, shared
  <2>2. \/ at'[c] = "check" /\ watch[c] /\ reply[c] # None /\ seen'[c] = reply[c]
        \/ at'[c] = "leaving"
    BY <1>1, <1>5 DEF Respond, Goes, Ends
  <2>3. CASE at'[c] = "check" /\ watch[c] /\ reply[c] # None /\ seen'[c] = reply[c]
    <3>1. reply[c] \in 0..snapshot
      BY <1>1, <2>1, <2>3 DEF Watched, Joined, Following, Base
    <3>2. Opens(c)
      BY <2>1, <2>3, <3>1 DEF Opens, Standing, Shown
    <3> QED
      BY <1>2, <1>4, <3>2, OneShown
  <2>4. CASE at'[c] = "leaving"
    <3>1. StandsStill(c)
      BY <2>1, <2>4 DEF StandsStill, Standing, Shown
    <3> QED
      BY <1>2, <1>4, <3>1, OneShown
  <2> QED
    BY <2>2, <2>3, <2>4
<1>6. CASE Check(c) \/ Recv(c)
  <2>1. at[c] \in {"check", "recv"} /\ alive'[c] = alive[c] /\ seen'[c] = seen[c]
    BY <1>6 DEF Check, Recv, shared
  <2>2. at'[c] \in {"recv", "write", "closing"}
    BY <1>1, <1>6 DEF Check, Recv, Goes
  <2>3. StandsStill(c) \/ Closes(c)
    BY <1>2, <2>1, <2>2 DEF StandsStill, Closes, Standing, Shown
  <2> QED
    BY <1>2, <1>4, <2>3, OneShown
<1>7. CASE Write(c)
  <2>1. at[c] = "write" /\ alive'[c] = alive[c]
    BY <1>7 DEF Write, shared
  <2>2. \/ at'[c] = "check" /\ seen'[c] = item[c]
        \/ at'[c] = "closing"
    BY <1>1, <1>7 DEF Write, Goes
  <2>3. item[c] = seen[c] + 1 /\ item[c] \in 0..snapshot /\ seen[c] \in Nat /\ snapshot \in Nat
    BY <1>1, <2>1 DEF Watched, Joined, Following, Base
  <2>4. Advances(c) \/ Closes(c)
    <3>1. CASE at'[c] = "check" /\ seen'[c] = item[c]
      <4>1. Standing(c) \in {"open", "cut"} /\ Standing(c)' = Standing(c)
        BY <1>2, <2>1, <3>1 DEF Standing
      <4>2. Shown(c) = seen[c] /\ Shown(c)' = seen[c] + 1 /\ seen[c] < snapshot
        BY <2>3, <3>1, <4>1 DEF Shown
      <4> QED
        BY <4>1, <4>2 DEF Advances
    <3>2. CASE at'[c] = "closing"
      BY <2>1, <3>2 DEF Closes, Standing
    <3> QED
      BY <2>2, <3>1, <3>2
  <2> QED
    BY <1>2, <1>4, <2>4, OneShown
<1>8. CASE ReaderEof(c)
  <2>1. at'[c] = at[c] /\ seen'[c] = seen[c] /\ alive'[c] = FALSE
    BY <1>1, <1>8 DEF ReaderEof
  <2>2. StandsStill(c) \/ IsCut(c)
    BY <1>2, <2>1 DEF StandsStill, IsCut, Standing, Shown
  <2> QED
    BY <1>2, <1>4, <2>2, OneShown
<1> QED
  BY <1>5, <1>6, <1>7, <1>8

\* The round of publish(): a subscriber found full or dead is given up, in two steps.
LEMMA RoundSteps ==
  ASSUME Inv, NEW c \in Clients, Visit(c) \/ Unsubscribe(c)
  PROVE  [Promise!Next]_(Promise!vars)
PROOF
<1> USE Functions
<1>1. TypeOK /\ Visiting
  BY DEF Inv, FeedInv
<1>2. UNCHANGED <<at, seen, snapshot>>
  BY DEF Visit, Unsubscribe, client
<1>3. \A d \in Clients \ {c} : alive'[d] = alive[d] /\ (d \in full' <=> d \in full)
  BY <1>1 DEF Visit, Unsubscribe, Visiting
<1>4. \A d \in Clients \ {c} : StandsStill(d)
  BY <1>2, <1>3, Still
<1>5. \/ c \notin full /\ alive'[c] = alive[c]
      \/ c \in full /\ alive'[c] = FALSE
  BY <1>1 DEF Visit, Unsubscribe
<1>6. StandsStill(c) \/ IsCut(c)
  BY <1>2, <1>5 DEF StandsStill, IsCut, Standing, Shown
<1> QED
  BY <1>2, <1>4, <1>6, OneShown

LEMMA PublishStep == Publish => Promise!Publish
PROOF
<1> SUFFICES ASSUME Publish PROVE Promise!Publish
  OBVIOUS
<1>1. UNCHANGED <<at, seen, alive, full>> /\ snapshot < MaxSnapshot /\ snapshot' = snapshot + 1
  BY DEF Publish, client, shared
<1> QED
  BY <1>1 DEF Promise!Publish, Standing

LEMMA ShowsSteps == Inv /\ [Next]_vars => [Promise!Next]_(Promise!vars)
PROOF
<1> SUFFICES ASSUME Inv, [Next]_vars PROVE [Promise!Next]_(Promise!vars)
  OBVIOUS
<1>1. CASE UNCHANGED vars
  <2>1. UNCHANGED <<at, seen, alive, full, snapshot>>
    BY <1>1 DEF vars, client, shared, engine
  <2> QED
    BY <2>1 DEF Promise!vars, Standing
<1>2. CASE Publish
  BY <1>2, PublishStep DEF Promise!Next
<1>3. CASE AcceptFailed \/ Create \/ TakeCall
  BY <1>3, QuietSteps
<1> QED
  BY <1>1, <1>2, <1>3, QuietSteps, WatchSteps, RoundSteps DEF Next, Serve, Reader, Engine

\* Feed's safety: whatever the order of the threads, of the reader's end and of publish(),
\* a watcher is shown its first snapshot and then every one, in order, until it is given up.
THEOREM ShownInOrder == Spec => Promise!Shows
PROOF
<1>1. Init => Promise!Init
  BY DEF Init, Promise!Init, Standing, Watching
<1>2. Inv /\ [Next]_vars => [Promise!Next]_(Promise!vars)
  BY ShowsSteps
<1> QED
  BY <1>1, <1>2, InitInv, NextInv, PTL DEF Spec, Promise!Shows
=============================================================================
