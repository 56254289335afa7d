----------------------------- MODULE InstanceLock -----------------------------
(***************************************************************************)
(* instance_lock(): flock() of instance.lock (src/src/platform/unix.rs) or *)
(* the existence of a named mutex (src/src/platform/windows.rs).  The      *)
(* operating system takes it back from a process that ends, however it     *)
(* ends.                                                                   *)
(***************************************************************************)
CONSTANT NoOne      \* the lock is free

VARIABLE holder     \* the process that runs the service or a direct command

\* Mutant: a lock that is held is taken as well.
Acquired_Always(p) == holder' = p

\* LOCK_NB, ERROR_ALREADY_EXISTS: a lock that is held is refused at once.
Acquired(p) == holder = NoOne /\ holder' = p

Refused == holder # NoOne /\ holder' = holder

Released(p) == holder' = IF holder = p THEN NoOne ELSE holder
=============================================================================
