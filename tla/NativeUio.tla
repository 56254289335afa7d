------------------------------- MODULE NativeUio -------------------------------
(***************************************************************************)
(* A capture on Windows: src/src/platform/windows_uio.rs, with the session *)
(* that owns it (src/src/platform/mod.rs).  The owner opens the device,    *)
(* sends, and closes; the reader of the session receives.  Both do it with *)
(* requests that the driver completes in its own time, into buffers that   *)
(* live in the frame of the function that made the request.                *)
(*                                                                         *)
(* The two requests of open() and the write of send() are alike: their     *)
(* wait is limited to five seconds.  The read waits for the driver or for  *)
(* the stop.                                                               *)
(***************************************************************************)
EXTENDS Naturals

CONSTANT Faults   \* whether a request may be refused, and a wait fail

\* Assumed where the constants get their values.
NativeUioParameters == Faults \in BOOLEAN

VARIABLES
  owner,   \* where the owner of the session is
  at,      \* where each thread is in its request
  pending, \* Request.pending
  driver,  \* what the driver makes of the request
  handle,  \* whether the device is open
  stop     \* the event of Cancel

requests == <<at, pending, driver>>
vars == <<owner, requests, handle, stop>>

Threads == {"owner", "reader"}

\* Between requests ("idle", for the reader in receive()), in one, or not there.
Points == {"none", "idle", "waiting", "dropping", "joining", "deliver"}
InRequest == {"waiting", "dropping", "joining"}

Goes(t, point) == at' = [at EXCEPT ![t] = point]

\* The function's result is known.
Returns(t, ok) ==
  IF t = "owner"
  THEN /\ Goes(t, "idle")
       /\ owner' = CASE owner = "opening" -> IF ok THEN "ether type" ELSE "leaving"
                     [] owner = "ether type" -> IF ok THEN "opened" ELSE "leaving"
                     [] OTHER -> owner
  ELSE Goes(t, IF ok THEN "deliver" ELSE "none") /\ owner' = owner

-----------------------------------------------------------------------------
(* Request                                                                 *)

\* started(): a request that is under way is marked.  Mutant: it is not.
Marked_Not(t) == pending' = pending
Marked(t) == pending' = [pending EXCEPT ![t] = TRUE]

\* DeviceIoControl(), WriteFile() or ReadFile(): under way, completed at once, or
\* refused.
Request(t) ==
  /\ at[t] = "idle"
  /\ \/ /\ Goes(t, "waiting") /\ owner' = owner
        /\ \/ driver' = [driver EXCEPT ![t] = "busy"] /\ Marked(t)
           \/ driver' = [driver EXCEPT ![t] = "done"] /\ pending' = pending
     \/ Faults /\ Returns(t, FALSE) /\ UNCHANGED <<driver, pending>>
  /\ UNCHANGED <<handle, stop>>

\* finish(): the driver is through with the request.
Finish(t) ==
  /\ at[t] = "waiting" /\ driver[t] \in {"done", "failed"}
  /\ pending' = [pending EXCEPT ![t] = FALSE] /\ driver' = [driver EXCEPT ![t] = "none"]
  /\ Returns(t, driver[t] = "done")
  /\ UNCHANGED <<handle, stop>>

\* bounded(): five seconds have passed.
TimedOut ==
  /\ at["owner"] = "waiting" /\ driver["owner"] = "busy" /\ Goes("owner", "dropping")
  /\ UNCHANGED <<owner, pending, driver, handle, stop>>

\* receive(): the stop goes before a frame.  Mutant: only the frame is waited for.
Stopped_Not == FALSE
Stopped == stop

ReadStopped ==
  /\ at["reader"] = "waiting" /\ Stopped /\ Goes("reader", "dropping")
  /\ UNCHANGED <<owner, pending, driver, handle, stop>>

WaitFails ==
  /\ Faults /\ at["reader"] = "waiting" /\ Goes("reader", "dropping")
  /\ UNCHANGED <<owner, pending, driver, handle, stop>>

FinishRead == ~Stopped /\ Finish("reader")

\* Request::drop(): one that is under way is cancelled, and waited for.
Drop(t) ==
  /\ at[t] = "dropping"
  /\ IF pending[t]
     THEN /\ Goes(t, "joining") /\ owner' = owner
          /\ driver' = [driver EXCEPT ![t] = IF @ = "busy" THEN "cancelled" ELSE @]
     ELSE /\ Returns(t, FALSE)
          /\ driver' = [driver EXCEPT ![t] = IF @ = "busy" THEN @ ELSE "none"]
  /\ UNCHANGED <<pending, handle, stop>>

Joined(t) ==
  /\ at[t] = "joining" /\ driver[t] \in {"done", "failed"}
  /\ driver' = [driver EXCEPT ![t] = "none"] /\ pending' = [pending EXCEPT ![t] = FALSE]
  /\ Returns(t, FALSE)
  /\ UNCHANGED <<handle, stop>>

\* The driver: completes a request, or gives up one that is cancelled.
Completes(t) ==
  /\ driver[t] \in {"busy", "cancelled"}
  /\ driver' \in {[driver EXCEPT ![t] = d] : d \in {"done", "failed"}}
  /\ UNCHANGED <<owner, at, pending, handle, stop>>

-----------------------------------------------------------------------------
(* Session                                                                 *)

\* The reader's thread is spawned, or the capture goes.
Spawn ==
  /\ owner = "opened" /\ at["owner"] = "idle"
  /\ \/ owner' = "sending" /\ Goes("reader", "idle")
     \/ Faults /\ owner' = "leaving" /\ at' = at
  /\ UNCHANGED <<pending, driver, handle, stop>>

\* deliver(): the frame is handed on, or the stop ends it.
Deliver ==
  /\ at["reader"] = "deliver"
  /\ Goes("reader", "idle") \/ (stop /\ Goes("reader", "none"))
  /\ UNCHANGED <<owner, pending, driver, handle, stop>>

\* Session::drop(), after any number of sends: the stop, the join.
Cancel ==
  /\ owner = "sending" /\ at["owner"] = "idle"
  /\ owner' = "closing" /\ Goes("owner", "none") /\ stop' = TRUE
  /\ UNCHANGED <<pending, driver, handle>>

Join ==
  /\ owner = "closing" /\ at["reader"] = "none" /\ owner' = "leaving"
  /\ UNCHANGED <<requests, handle, stop>>

\* The last owner of the capture goes, and closes the device.
Close ==
  /\ owner = "leaving" /\ handle /\ handle' = FALSE /\ Goes("owner", "none")
  /\ UNCHANGED <<owner, pending, driver, stop>>

-----------------------------------------------------------------------------

Init ==
  /\ owner = "opening" /\ handle = TRUE /\ stop = FALSE
  /\ at = [t \in Threads |-> IF t = "owner" THEN "idle" ELSE "none"]
  /\ pending = [t \in Threads |-> FALSE] /\ driver = [t \in Threads |-> "none"]

\* In "opened" and "leaving" the owner makes no request.
OwnerRequest == owner \in {"opening", "ether type", "sending"} /\ Request("owner")
Owner ==
  \/ Finish("owner") \/ TimedOut \/ Drop("owner") \/ Joined("owner")
  \/ Spawn \/ Join \/ Close
Reader ==
  \/ Request("reader") \/ FinishRead \/ ReadStopped \/ Drop("reader") \/ Joined("reader")
  \/ Deliver

Next == OwnerRequest \/ Owner \/ Reader \/ WaitFails \/ Cancel \/ \E t \in Threads : Completes(t)

Spec == Init /\ [][Next]_vars

\* Threads run, a wait for an answer is limited, and the driver gives up what is
\* cancelled.  It need not answer, and no frame need arrive.
Fairness ==
  /\ WF_vars(Owner) /\ WF_vars(Reader)
  /\ \A t \in Threads : WF_vars(driver[t] = "cancelled" /\ Completes(t))

-----------------------------------------------------------------------------
(* Properties.                                                             *)

TypeOK ==
  /\ owner \in {"opening", "ether type", "opened", "sending", "closing", "leaving"}
  /\ at \in [Threads -> Points] /\ pending \in [Threads -> BOOLEAN]
  /\ driver \in [Threads -> {"none", "busy", "cancelled", "done", "failed"}]
  /\ handle \in BOOLEAN /\ stop \in BOOLEAN

\* The driver never writes into a buffer that is gone, nor works for a device that is
\* closed: every request is joined before its function returns, whether it is answered,
\* stopped, timed out or refused (windows_uio.rs:3).
RequestsAreJoined ==
  \A t \in Threads : driver[t] \in {"busy", "cancelled"} => at[t] \in InRequest /\ handle
=============================================================================
