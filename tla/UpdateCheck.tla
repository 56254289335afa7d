----------------------------- MODULE UpdateCheck -----------------------------
(***************************************************************************)
(* The check for a newer release: start_update(), Event::Update and the    *)
(* deadline in tick() of src/src/engine.rs, with the sources, the merge    *)
(* and the cache of src/src/update.rs.                                     *)
(*                                                                         *)
(* A version is a number, 0 the empty string.  Time is kept as what is     *)
(* left of it: a deadline of 0 is past, and an instant of the wall clock   *)
(* that is written to the cache runs on there.                             *)
(***************************************************************************)
EXTENDS Naturals, Sequences, FiniteSetsExt

CONSTANTS
  MaxVersion,    \* bound: releases that exist
  Sources,       \* manifests that are fetched (gitee, github)
  FailureDelays, \* the delays after the first, second, third and later failure
  SuccessDelay,  \* a day after a success
  InitialDelay,  \* minutes after a start without a usable cache
  Cooldown,      \* a minute between checks by hand
  None,          \* no cache, no worker
  SaveFails,     \* whether the cache may fail to be written
  SpawnFails     \* whether the worker thread may fail to be created

Versions == 1..MaxVersion

\* next_check_at is written with every result; checking is never in the cache.
Update == [latest : 0..MaxVersion, available : BOOLEAN, failures : 0..4, next : Nat]
NoUpdate == [latest |-> 0, available |-> FALSE, failures |-> 0, next |-> 0]

Worker == [done : BOOLEAN, result : 0..MaxVersion]
Running == [done |-> FALSE, result |-> 0]

ASSUME UpdateAssumption ==
  /\ MaxVersion \in Nat \ {0} /\ Sources # {}
  /\ FailureDelays \in [1..4 -> Nat \ {0}]
  /\ SuccessDelay \in Nat \ {0} /\ InitialDelay \in Nat /\ Cooldown \in Nat \ {0}
  /\ SaveFails \in BOOLEAN /\ SpawnFails \in BOOLEAN

VARIABLES
  update,     \* Snapshot.update without checking
  checking,   \* Snapshot.update.checking
  due,        \* what is left until update_deadline
  cooldown,   \* what is left of the minute after last_manual_update
  auto,       \* Config.auto_update_check
  suspended,  \* the engine does not tick while suspended
  worker,     \* the download: None, running, or its result on the way (0: it failed)
  cache,      \* update_state.json: the client that wrote it, and its update
  installed,  \* VERSION of the running program
  announced   \* how often this process announced each version (at most 2 counted)

vars == <<update, checking, due, cooldown, auto, suspended, worker, cache, installed, announced>>

-----------------------------------------------------------------------------
(* update.rs                                                               *)

\* fetch_with(): the newest of the sources that answered, 0 if none did.
Fetched(answers) == Max({answers[s] : s \in Sources})

\* failure_delay()
FailureDelay(count) == FailureDelays[Min({count, 4})]

\* for_current_version(): availability belongs to the installed version.
ForVersion(u, client) == [u EXCEPT !.available = u.latest > client]

\* Mutant: an old mirror is believed.
Retain_Latest(latest, previous) == latest

LoadCache(file, client) ==
  IF file = None \/ file.client # client THEN NoUpdate ELSE ForVersion(file.update, client)

\* retain_newer_release()
Retain(latest, previous) == IF previous > latest THEN previous ELSE latest

-----------------------------------------------------------------------------
(* engine.rs                                                               *)

\* Mutant: the back-off is forgotten by a restart.
FirstDelay_Initial(next) == InitialDelay
FirstDelay(next) == IF next > 0 THEN next ELSE InitialDelay

Started(client, file) ==
  LET u == LoadCache(file, client)
  IN /\ update' = u
     /\ due' = FirstDelay(u.next)
     /\ checking' = FALSE /\ cooldown' = 0 /\ suspended' = FALSE
     /\ worker' = None
     /\ installed' = client
     /\ announced' = [v \in Versions |-> 0]

\* start_update() past its checks: checking is set, then the thread is spawned.
Begin(spawned) ==
  /\ checking' = TRUE
  /\ worker' = IF spawned THEN Running ELSE worker

Spawns == IF SpawnFails THEN BOOLEAN ELSE {TRUE}

\* A user's check_update; when it is refused nothing changes.
ManualCheck ==
  /\ ~checking /\ cooldown = 0
  /\ cooldown' = Cooldown
  /\ \E spawned \in Spawns : Begin(spawned)
  /\ UNCHANGED <<update, due, auto, suspended, cache, installed, announced>>

\* Mutant: after the last of the delays automatic checks are given up.
AutoCheck_GivesUp ==
  /\ ~suspended /\ auto /\ due = 0 /\ ~checking /\ update.failures < 4
  /\ \E spawned \in Spawns :
       /\ Begin(spawned)
       /\ due' = IF spawned THEN due ELSE FailureDelay(1)
  /\ UNCHANGED <<update, cooldown, auto, suspended, cache, installed, announced>>

\* The end of tick().  When the thread cannot be spawned half an hour is waited.
AutoCheck ==
  /\ ~suspended /\ auto /\ due = 0 /\ ~checking
  /\ \E spawned \in Spawns :
       /\ Begin(spawned)
       /\ due' = IF spawned THEN due ELSE FailureDelay(1)
  /\ UNCHANGED <<update, cooldown, auto, suspended, cache, installed, announced>>

\* The worker has its answers and queues the result.
Answer ==
  /\ worker = Running
  /\ \E answers \in [Sources -> 0..MaxVersion] :
       worker' = [done |-> TRUE, result |-> Fetched(answers)]
  /\ UNCHANGED <<update, checking, due, cooldown, auto, suspended, cache, installed, announced>>

\* save_cache() may fail; the engine goes on without.
Saved(u) ==
  \/ cache' = [client |-> installed, update |-> u]
  \/ SaveFails /\ cache' = cache

Announce(v) == announced' = [announced EXCEPT ![v] = IF @ < 2 THEN @ + 1 ELSE @]

Succeeded ==
  /\ worker # None /\ worker.result \in Versions
  /\ LET latest == Retain(worker.result, update.latest)
         u == [latest |-> latest, available |-> latest > installed,
               failures |-> 0, next |-> SuccessDelay]
     IN /\ update' = u /\ Saved(u)
        /\ IF u.available /\ (~update.available \/ latest # update.latest)
           THEN Announce(latest) ELSE UNCHANGED announced
  /\ checking' = FALSE /\ due' = SuccessDelay /\ worker' = None
  /\ UNCHANGED <<cooldown, auto, suspended, installed>>

\* The known release stays known.
NotFetched ==
  /\ worker = [done |-> TRUE, result |-> 0]
  /\ LET n == Min({update.failures + 1, 4})
         u == [update EXCEPT !.failures = n, !.next = FailureDelay(n)]
     IN update' = u /\ Saved(u) /\ due' = u.next
  /\ checking' = FALSE /\ worker' = None
  /\ UNCHANGED <<cooldown, auto, suspended, installed, announced>>

-----------------------------------------------------------------------------
(* The world.                                                              *)

SetAuto ==
  /\ auto' = ~auto
  /\ UNCHANGED <<update, checking, due, cooldown, suspended, worker, cache, installed, announced>>

Suspend ==
  /\ suspended' = ~suspended
  /\ UNCHANGED <<update, checking, due, cooldown, auto, worker, cache, installed, announced>>

\* The process ends, with whatever worker it has, and starts as version v.
Restart(v) ==
  /\ Started(v, cache)
  /\ UNCHANGED <<auto, cache>>

\* saturating_sub of two instants.
Left(n) == IF n > 0 THEN n - 1 ELSE 0

Passes ==
  /\ due' = Left(due) /\ cooldown' = Left(cooldown)
  /\ update' = [update EXCEPT !.next = Left(@)]
  /\ cache' = IF cache = None THEN None ELSE [cache EXCEPT !.update.next = Left(@)]
  /\ UNCHANGED <<checking, auto, suspended, worker, installed, announced>>

Init ==
  /\ update = NoUpdate /\ checking = FALSE /\ due = InitialDelay /\ cooldown = 0
  /\ auto \in BOOLEAN /\ suspended = FALSE /\ worker = None /\ cache = None
  /\ installed \in Versions /\ announced = [v \in Versions |-> 0]

Engine == AutoCheck \/ Succeeded \/ NotFetched

Next ==
  \/ ManualCheck \/ Engine \/ Answer
  \/ SetAuto \/ Suspend \/ Passes
  \/ \E v \in Versions : Restart(v)

Spec == Init /\ [][Next]_vars

\* The engine handles events and ticks; a download ends, for every request has a
\* time limit of seconds; time passes.
FairSpec == Spec /\ WF_vars(Engine) /\ WF_vars(Answer) /\ WF_vars(Passes)

-----------------------------------------------------------------------------
(* Properties.                                                             *)

TypeOK ==
  /\ update \in Update /\ checking \in BOOLEAN /\ due \in Nat /\ cooldown \in 0..Cooldown
  /\ auto \in BOOLEAN /\ suspended \in BOOLEAN
  /\ worker \in Worker \cup {None}
  /\ cache \in [client : Versions, update : Update] \cup {None}
  /\ installed \in Versions /\ announced \in [Versions -> 0..2]

\* A release is on offer exactly when it is newer than the program that runs, also
\* after an upgrade or a downgrade over an old cache.
AvailabilityIsOwn == update.available <=> update.latest > installed

\* A process announces a release once, however the mirrors differ.
AnnouncedOnce == \A v \in Versions : announced[v] <= 1

\* What is on offer is right over any cache, told once, and a process never forgets a
\* release it has found (docs/CLI.md:74, update.rs:101).
ReleaseIsKept ==
  /\ [](AvailabilityIsOwn /\ AnnouncedOnce)
  /\ [][(\A v \in Versions : ~Restart(v)) => update'.latest >= update.latest]_vars

\* An automatic check waits out the back-off, also one that was begun before a
\* restart or after a check by hand.
BackoffHolds ==
  [][~checking /\ checking' /\ cooldown' = cooldown => update.next = 0]_vars

\* A process that is neither suspended nor told to stop checking checks for ever, with or
\* without answers: every check ends and leaves a time for the next (docs/ARCHITECTURE.md:43).
AutoHappens ==
  /\ <>[](auto /\ ~suspended)
  /\ <>[][\A v \in Versions : ~Restart(v)]_vars
  => []<>checking /\ []<>~checking
=============================================================================
