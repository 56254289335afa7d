--------------------------------- MODULE Feed ---------------------------------
(***************************************************************************)
(* What the control channel promises a watcher, without queues, threads or *)
(* connections: every snapshot after its first one, in order, and in the   *)
(* end the newest, until it is given up.  One that is given up may still   *)
(* be shown what was kept for it.                                          *)
(***************************************************************************)
EXTENDS Naturals

CONSTANTS Watchers, MaxSnapshot

VARIABLES
  published, \* the number of the newest snapshot
  feed,      \* whether a watcher is followed up, given up, or not connected
  shown      \* the last snapshot it was shown, 0 when it is not connected

vars == <<published, feed, shown>>

Init ==
  /\ published = 0
  /\ feed = [w \in Watchers |-> "closed"]
  /\ shown = [w \in Watchers |-> 0]

Publish ==
  /\ published < MaxSnapshot /\ published' = published + 1
  /\ UNCHANGED <<feed, shown>>

\* The first snapshot may be an earlier one: those after it follow.
Open(w) ==
  /\ feed[w] = "closed"
  /\ \E f \in {"open", "cut"} : feed' = [feed EXCEPT ![w] = f]
  /\ \E n \in 0..published : shown' = [shown EXCEPT ![w] = n]
  /\ UNCHANGED published

Show(w) ==
  /\ feed[w] \in {"open", "cut"} /\ shown[w] < published
  /\ shown' = [shown EXCEPT ![w] = @ + 1]
  /\ UNCHANGED <<published, feed>>

Cut(w) ==
  /\ feed[w] = "open" /\ feed' = [feed EXCEPT ![w] = "cut"]
  /\ UNCHANGED <<published, shown>>

Close(w) ==
  /\ feed[w] \in {"open", "cut"}
  /\ feed' = [feed EXCEPT ![w] = "closed"]
  /\ shown' = [shown EXCEPT ![w] = 0]
  /\ UNCHANGED published

Next == Publish \/ \E w \in Watchers : Open(w) \/ Show(w) \/ Cut(w) \/ Close(w)

\* The newest is shown to a watcher that is not given up first.
Follows(w) ==
  \A n \in 0..MaxSnapshot :
    feed[w] = "open" /\ published = n ~> feed[w] # "open" \/ shown[w] >= n

\* What is shown, and that it is: the safety and the liveness of the promise.
Shows == Init /\ [][Next]_vars
Spec == Shows /\ \A w \in Watchers : Follows(w)
=============================================================================
