------------------------------ MODULE UpdateProof ------------------------------
(***************************************************************************)
(* What the check for a newer release keeps, for any number of releases    *)
(* and mirrors and any delays, over restarts as any version.               *)
(*                                                                         *)
(* That a release is announced once is not inductive: it holds because     *)
(* only what is on offer has been announced, and a newer release is not    *)
(* older than the one on offer.  The back-off holds because the engine     *)
(* never has its deadline before the time it wrote to the cache.           *)
(***************************************************************************)
EXTENDS UpdateCheck, WellFoundedInduction, TLAPS

\* What was announced is on offer, or older than what is.
Announced ==
  \A v \in Versions :
    announced[v] <= 1 /\ (announced[v] > 0 => update.available /\ v <= update.latest)

\* The deadline is not before the time in the cache.
Waits == update.next <= due

UpdateInv == TypeOK /\ AvailabilityIsOwn /\ Announced /\ Waits

-----------------------------------------------------------------------------
(* Operators.                                                              *)

LEMMA FetchedType ==
  ASSUME NEW answers \in [Sources -> 0..MaxVersion]
  PROVE  Fetched(answers) \in 0..MaxVersion
PROOF
<1> DEFINE A == {answers[s] : s \in Sources}
           T == {MaxVersion - a : a \in A}
<1>1. A \subseteq 0..MaxVersion /\ A # {}
  BY UpdateAssumption
<1>2. T \subseteq Nat /\ T # {}
  BY <1>1, UpdateAssumption
<1> HIDE DEF A
<1>3. \E t \in T : \A u \in T : ~(<<u, t>> \in OpToRel(<, Nat))
  <2> HIDE DEF T
  <2> QED
    BY <1>2, WFMin, NatLessThanWellFounded
<1>4. PICK t \in T : \A u \in T : ~(<<u, t>> \in OpToRel(<, Nat))
  BY <1>3
<1>5. \A u \in T : t <= u
  <2> SUFFICES ASSUME NEW u \in T PROVE t <= u
    OBVIOUS
  <2>1. t \in Nat /\ u \in Nat
    BY <1>2
  <2>2. u < t => <<u, t>> \in OpToRel(<, Nat)
    BY <2>1 DEF OpToRel
  <2>3. ~(u < t)
    BY <1>4, <2>2
  <2> QED
    BY ONLY <2>1, <2>3
<1>6. PICK a \in A : t = MaxVersion - a
  BY <1>4
<1>7. \A b \in A : a >= b
  <2> SUFFICES ASSUME NEW b \in A PROVE a >= b
    OBVIOUS
  <2>1. t <= MaxVersion - b
    BY <1>5
  <2> QED
    BY <2>1, <1>1, <1>6, UpdateAssumption
<1>8. Max(A) \in A
  BY <1>7 DEF Max
<1> QED
  BY <1>8, <1>1 DEF Fetched, A

LEMMA MinType ==
  ASSUME NEW n \in Nat \ {0}
  PROVE  Min({n, 4}) \in 1..4
PROOF
<1>1. CASE n <= 4
  <2>1. \E x \in {n, 4} : \A y \in {n, 4} : x <= y
    BY <1>1
  <2> QED
    BY <2>1, <1>1 DEF Min
<1>2. CASE n > 4
  <2>1. /\ 4 \in {n, 4} /\ \A y \in {n, 4} : 4 <= y
        /\ \A x \in {n, 4} : (\A y \in {n, 4} : x <= y) => x = 4
    BY <1>2
  <2> QED
    BY <2>1 DEF Min
<1> QED
  BY <1>1, <1>2

LEMMA DelayType == \A n \in 1..4 : FailureDelay(n) \in Nat \ {0}
PROOF
<1> SUFFICES ASSUME NEW n \in 1..4 PROVE FailureDelay(n) \in Nat \ {0}
  OBVIOUS
<1>1. Min({n, 4}) \in 1..4
  BY MinType
<1> QED
  BY <1>1, UpdateAssumption DEF FailureDelay

LEMMA LeftType == \A n \in Nat : Left(n) \in Nat /\ Left(n) <= n
  BY DEF Left

LEMMA LeftKeepsOrder == \A m, n \in Nat : m <= n => Left(m) <= Left(n)
  BY DEF Left

-----------------------------------------------------------------------------
(* Every step keeps the invariant.                                         *)

LEMMA InitInv == Init => UpdateInv
PROOF
<1> SUFFICES ASSUME Init PROVE UpdateInv
  OBVIOUS
<1>1. TypeOK
  <2>1. update \in Update /\ due \in Nat /\ cooldown \in 0..Cooldown
    BY UpdateAssumption DEF Init, Update, NoUpdate
  <2>2. announced \in [Versions -> 0..2]
    BY DEF Init
  <2>3. /\ checking \in BOOLEAN /\ auto \in BOOLEAN /\ suspended \in BOOLEAN
        /\ worker = None /\ cache = None /\ installed \in Versions
    BY DEF Init
  <2> QED
    BY <2>1, <2>2, <2>3 DEF TypeOK
<1>2. AvailabilityIsOwn /\ Announced /\ Waits
  BY UpdateAssumption DEF Init, AvailabilityIsOwn, Announced, Waits, NoUpdate, Versions
<1> QED
  BY <1>1, <1>2 DEF UpdateInv

\* A start over a cache of any version.
LEMMA RestartKeeps ==
  ASSUME UpdateInv, NEW v \in Versions, Restart(v)
  PROVE  UpdateInv'
PROOF
<1> DEFINE u == LoadCache(cache, v)
<1>1. u \in Update /\ (u.available <=> u.latest > v)
  <2>1. CASE cache = None \/ cache.client # v
    BY <2>1, UpdateAssumption DEF LoadCache, NoUpdate, Update, Versions
  <2>2. CASE ~(cache = None \/ cache.client # v)
    <3>1. cache.update \in Update
      BY <2>2 DEF UpdateInv, TypeOK
    <3>2. u = [cache.update EXCEPT !.available = cache.update.latest > v]
      BY <2>2 DEF LoadCache, ForVersion
    <3>3. (cache.update.latest > v) \in BOOLEAN
      OBVIOUS
    <3> HIDE DEF u
    <3> QED
      BY <3>1, <3>2, <3>3 DEF Update
  <2> QED
    BY <2>1, <2>2
<1>2. /\ update' = u /\ due' = FirstDelay(u.next) /\ cooldown' = 0
      /\ suspended' = FALSE /\ checking' = FALSE /\ worker' = None
      /\ installed' = v /\ announced' = [w \in Versions |-> 0]
      /\ auto' = auto /\ cache' = cache
  BY DEF Restart, Started
<1> HIDE DEF u
<1>3. u.next \in Nat /\ FirstDelay(u.next) \in Nat /\ u.next <= FirstDelay(u.next)
  BY <1>1, UpdateAssumption DEF FirstDelay, Update
<1>4. TypeOK'
  <2>1. /\ auto' \in BOOLEAN /\ cache' \in [client : Versions, update : Update] \cup {None}
        /\ cooldown' \in 0..Cooldown
    BY <1>2, UpdateAssumption DEF UpdateInv, TypeOK
  <2>2. update' \in Update /\ due' \in Nat /\ installed' \in Versions
    BY <1>1, <1>2, <1>3
  <2>3. checking' \in BOOLEAN /\ suspended' \in BOOLEAN /\ worker' \in Worker \cup {None}
    BY <1>2
  <2>4. announced' \in [Versions -> 0..2]
    BY <1>2
  <2> QED
    BY <2>1, <2>2, <2>3, <2>4 DEF TypeOK
<1>5. AvailabilityIsOwn' /\ Announced' /\ Waits'
  BY <1>1, <1>2, <1>3 DEF AvailabilityIsOwn, Announced, Waits
<1> QED
  BY <1>4, <1>5 DEF UpdateInv

LEMMA SucceededKeeps ==
  ASSUME UpdateInv, Succeeded
  PROVE  UpdateInv' /\ update'.latest >= update.latest
PROOF
<1> DEFINE latest == Retain(worker.result, update.latest)
           u == [latest |-> latest, available |-> latest > installed,
                 failures |-> 0, next |-> SuccessDelay]
<1>1. /\ worker.result \in Versions /\ update' = u /\ Saved(u)
      /\ IF u.available /\ (~update.available \/ latest # update.latest)
         THEN Announce(latest) ELSE UNCHANGED announced
      /\ checking' = FALSE /\ due' = SuccessDelay /\ worker' = None
      /\ UNCHANGED <<cooldown, auto, suspended, installed>>
  BY DEF Succeeded
<1>2. TypeOK /\ AvailabilityIsOwn /\ Announced /\ update.latest \in 0..MaxVersion /\ installed \in Versions
  BY DEF UpdateInv, TypeOK, Update
<1>3. latest \in Versions /\ latest >= update.latest
  BY <1>1, <1>2, UpdateAssumption DEF Retain, Versions
<1> HIDE DEF latest
<1>4. u \in Update /\ u.latest = latest /\ u.available = (latest > installed) /\ u.next = SuccessDelay
  BY <1>3, UpdateAssumption DEF Update, Versions
<1> HIDE DEF u
<1>5. cache' \in [client : Versions, update : Update] \cup {None}
  BY <1>1, <1>2, <1>4 DEF Saved, TypeOK
<1>6. announced' \in [Versions -> 0..2]
  BY <1>1, <1>2 DEF Announce, TypeOK
<1>7. TypeOK'
  BY <1>1, <1>2, <1>4, <1>5, <1>6, UpdateAssumption DEF TypeOK
<1>8. AvailabilityIsOwn' /\ Waits' /\ update'.latest >= update.latest
  <2>1. update'.latest = latest /\ update'.available = (latest > installed)
        /\ update'.next = SuccessDelay /\ due' = SuccessDelay /\ installed' = installed
    BY <1>1, <1>4
  <2>2. AvailabilityIsOwn'
    BY <2>1 DEF AvailabilityIsOwn
  <2>3. Waits'
    BY <2>1, UpdateAssumption DEF Waits
  <2> QED
    BY <2>1, <2>2, <2>3, <1>3
<1>9. Announced'
  <2> SUFFICES ASSUME NEW v \in Versions
               PROVE  announced'[v] <= 1 /\ (announced'[v] > 0 => u.available /\ v <= latest)
    BY <1>1, <1>4 DEF Announced
  <2>1. /\ announced[v] \in 0..2 /\ announced[latest] \in 0..2 /\ announced[v] <= 1
        /\ announced[v] > 0 => update.available /\ v <= update.latest
        /\ announced[latest] > 0 => update.available /\ latest <= update.latest
    BY <1>2, <1>3 DEF TypeOK, Announced
  <2>2. update.available => u.available
    <3>1. update.available => update.latest > installed
      BY <1>2 DEF AvailabilityIsOwn
    <3>2. update.latest > installed => latest > installed
      BY <1>2, <1>3 DEF Versions
    <3>3. latest > installed => u.available
      BY <1>4
    <3> QED
      BY <3>1, <3>2, <3>3
  <2>3. CASE announced' = announced
    BY <2>1, <2>2, <2>3, <1>2, <1>3 DEF Versions
  <2>4. CASE u.available /\ (~update.available \/ latest # update.latest) /\ Announce(latest)
    <3>1. announced[latest] = 0
      BY <2>1, <2>4, <1>2, <1>3 DEF Versions
    <3>2. CASE v = latest
      BY <2>4, <3>1, <3>2, <1>2, <1>3 DEF Announce, TypeOK, Versions
    <3>3. CASE v # latest
      <4>1. announced'[v] = announced[v]
        BY <2>4, <3>3, <1>2 DEF Announce, TypeOK
      <4> QED
        BY <4>1, <2>1, <2>2, <1>2, <1>3 DEF Versions
    <3> QED
      BY <3>2, <3>3
  <2> QED
    BY <2>3, <2>4, <1>1
<1> QED
  BY <1>7, <1>8, <1>9 DEF UpdateInv

LEMMA NotFetchedKeeps ==
  ASSUME UpdateInv, NotFetched
  PROVE  UpdateInv' /\ update'.latest = update.latest
PROOF
<1> DEFINE n == Min({update.failures + 1, 4})
           u == [update EXCEPT !.failures = n, !.next = FailureDelay(n)]
<1>1. /\ update' = u /\ Saved(u) /\ due' = u.next
      /\ checking' = FALSE /\ worker' = None
      /\ UNCHANGED <<cooldown, auto, suspended, installed, announced>>
  BY DEF NotFetched
<1>2. TypeOK /\ AvailabilityIsOwn /\ Announced /\ update \in Update
  BY DEF UpdateInv, TypeOK
<1>3. n \in 1..4
  <2>1. update.failures + 1 \in Nat \ {0}
    BY <1>2 DEF Update
  <2> QED
    BY <2>1, MinType
<1> HIDE DEF n
<1>4. FailureDelay(n) \in Nat
  BY <1>3, DelayType
<1>5. /\ u \in Update /\ u.latest = update.latest /\ u.available = update.available
      /\ u.next = FailureDelay(n)
  <2>1. u.latest = update.latest /\ u.available = update.available /\ u.next = FailureDelay(n)
    BY <1>2 DEF Update
  <2>2. \A w \in Update, d \in Nat : [w EXCEPT !.failures = n, !.next = d] \in Update
    <3> SUFFICES ASSUME NEW w \in Update, NEW d \in Nat
                 PROVE  [[w EXCEPT !.failures = n] EXCEPT !.next = d] \in Update
      BY DEF Update
    <3>1. [w EXCEPT !.failures = n] \in Update
      BY <1>3 DEF Update
    <3> QED
      BY <3>1 DEF Update
  <2> QED
    BY <1>2, <1>4, <2>1, <2>2
<1> HIDE DEF u
<1>6. cache' \in [client : Versions, update : Update] \cup {None}
  BY <1>1, <1>2, <1>5 DEF Saved, TypeOK
<1>7. TypeOK'
  BY <1>1, <1>2, <1>4, <1>5, <1>6 DEF TypeOK
<1>8. AvailabilityIsOwn' /\ Announced' /\ Waits'
  BY <1>1, <1>2, <1>4, <1>5 DEF AvailabilityIsOwn, Announced, Waits
<1> QED
  BY <1>1, <1>5, <1>7, <1>8 DEF UpdateInv

LEMMA PassesKeeps ==
  ASSUME UpdateInv, Passes
  PROVE  UpdateInv' /\ update'.latest = update.latest
PROOF
<1>1. /\ due' = Left(due) /\ cooldown' = Left(cooldown)
      /\ update' = [update EXCEPT !.next = Left(@)]
      /\ cache' = IF cache = None THEN None ELSE [cache EXCEPT !.update.next = Left(@)]
      /\ UNCHANGED <<checking, auto, suspended, worker, installed, announced>>
  BY DEF Passes
<1>2. TypeOK /\ AvailabilityIsOwn /\ Announced /\ Waits /\ update \in Update /\ due \in Nat
      /\ cooldown \in 0..Cooldown /\ update.next \in Nat
  BY DEF UpdateInv, TypeOK, Update
<1>3. /\ update' \in Update /\ update'.latest = update.latest
      /\ update'.available = update.available /\ update'.next = Left(update.next)
  BY <1>1, <1>2, LeftType DEF Update
<1>4. due' \in Nat /\ update'.next <= due'
  BY <1>1, <1>2, <1>3, LeftType, LeftKeepsOrder DEF Waits
<1>5. cooldown' \in 0..Cooldown
  BY <1>1, <1>2, UpdateAssumption DEF Left
<1>6. cache' \in [client : Versions, update : Update] \cup {None}
  <2>1. CASE cache = None
    BY <1>1, <2>1
  <2>2. CASE cache # None
    <3>1. cache \in [client : Versions, update : Update] /\ cache.update \in Update
          /\ cache.update.next \in Nat
      BY <1>2, <2>2 DEF TypeOK, Update
    <3>2. Left(cache.update.next) \in Nat
      BY <3>1, LeftType
    <3>3. cache' = [cache EXCEPT !.update = [cache.update EXCEPT !.next = Left(cache.update.next)]]
      BY <1>1, <2>2, <3>1
    <3>4. [cache.update EXCEPT !.next = Left(cache.update.next)] \in Update
      BY <3>1, <3>2 DEF Update
    <3> QED
      BY <3>1, <3>3, <3>4
  <2> QED
    BY <2>1, <2>2
<1>7. TypeOK'
  BY <1>1, <1>2, <1>3, <1>4, <1>5, <1>6 DEF TypeOK
<1>8. AvailabilityIsOwn' /\ Announced' /\ Waits'
  BY <1>1, <1>2, <1>3, <1>4 DEF AvailabilityIsOwn, Announced, Waits
<1> QED
  BY <1>3, <1>7, <1>8 DEF UpdateInv

\* A check that begins, an answer, and what a user sets, touch nothing that is known.
LEMMA OthersKeep ==
  ASSUME UpdateInv, ManualCheck \/ AutoCheck \/ Answer \/ SetAuto \/ Suspend \/ UNCHANGED vars
  PROVE  UpdateInv' /\ update' = update
PROOF
<1>1. UNCHANGED <<update, cache, installed, announced>>
  BY DEF ManualCheck, AutoCheck, Answer, SetAuto, Suspend, vars
<1>2. TypeOK /\ AvailabilityIsOwn /\ Announced /\ Waits /\ update.next \in Nat
  BY DEF UpdateInv, TypeOK, Update
<1>3. due' \in Nat /\ update.next <= due'
  <2>1. CASE AutoCheck
    <3>1. due = 0 /\ (due' = due \/ due' = FailureDelay(1))
      BY <2>1 DEF AutoCheck
    <3>2. FailureDelay(1) \in Nat
      BY DelayType
    <3> QED
      BY <3>1, <3>2, <1>2 DEF Waits, TypeOK
  <2>2. CASE ~AutoCheck
    BY <2>2, <1>2 DEF ManualCheck, Answer, SetAuto, Suspend, vars, Waits, TypeOK
  <2> QED
    BY <2>1, <2>2
<1>4. worker' \in Worker \cup {None}
  <2>1. CASE Answer
    <3>1. PICK answers \in [Sources -> 0..MaxVersion] :
                 worker' = [done |-> TRUE, result |-> Fetched(answers)]
      BY <2>1 DEF Answer
    <3> QED
      BY <3>1, FetchedType DEF Worker
  <2>2. CASE ManualCheck \/ AutoCheck
    <3>1. worker' \in {Running, worker}
      BY <2>2 DEF ManualCheck, AutoCheck, Begin
    <3> QED
      <4>1. Running \in Worker
        BY UpdateAssumption DEF Running, Worker
      <4> QED
        BY <3>1, <4>1, <1>2 DEF TypeOK
  <2>3. CASE SetAuto \/ Suspend \/ UNCHANGED vars
    BY <2>3, <1>2 DEF SetAuto, Suspend, vars, TypeOK
  <2> QED
    BY <2>1, <2>2, <2>3
<1>5. /\ checking' \in BOOLEAN /\ cooldown' \in 0..Cooldown
      /\ auto' \in BOOLEAN /\ suspended' \in BOOLEAN
  <2>1. checking' \in BOOLEAN
    BY <1>2 DEF ManualCheck, AutoCheck, Answer, SetAuto, Suspend, vars, Begin, TypeOK
  <2>2. cooldown' \in 0..Cooldown
    BY <1>2, UpdateAssumption DEF ManualCheck, AutoCheck, Answer, SetAuto, Suspend, vars, TypeOK
  <2>3. auto' \in BOOLEAN /\ suspended' \in BOOLEAN
    BY <1>2 DEF ManualCheck, AutoCheck, Answer, SetAuto, Suspend, vars, TypeOK
  <2> QED
    BY <2>1, <2>2, <2>3
<1>6. TypeOK'
  BY <1>1, <1>2, <1>3, <1>4, <1>5 DEF TypeOK
<1>7. AvailabilityIsOwn' /\ Announced' /\ Waits'
  BY <1>1, <1>2, <1>3 DEF AvailabilityIsOwn, Announced, Waits
<1> QED
  BY <1>1, <1>6, <1>7 DEF UpdateInv

LEMMA NextInv == UpdateInv /\ [Next]_vars => UpdateInv'
PROOF
<1> SUFFICES ASSUME UpdateInv, [Next]_vars PROVE UpdateInv'
  OBVIOUS
<1>1. CASE \E v \in Versions : Restart(v)
  BY <1>1, RestartKeeps
<1>2. CASE Succeeded \/ NotFetched \/ Passes
  BY <1>2, SucceededKeeps, NotFetchedKeeps, PassesKeeps
<1>3. CASE ManualCheck \/ AutoCheck \/ Answer \/ SetAuto \/ Suspend \/ UNCHANGED vars
  BY <1>3, OthersKeep
<1> QED
  BY <1>1, <1>2, <1>3 DEF Next, Engine

\* A release that is known is not forgotten by any step but a restart.
LEMMA Known ==
  ASSUME UpdateInv, [Next]_vars, \A v \in Versions : ~Restart(v)
  PROVE  update'.latest >= update.latest
PROOF
<1>1. update.latest \in Nat
  BY DEF UpdateInv, TypeOK, Update
<1>2. CASE Succeeded
  BY <1>2, SucceededKeeps
<1>3. CASE NotFetched \/ Passes
  BY <1>1, <1>3, NotFetchedKeeps, PassesKeeps
<1>4. CASE ManualCheck \/ AutoCheck \/ Answer \/ SetAuto \/ Suspend \/ UNCHANGED vars
  <2>1. update' = update
    BY <1>4, OthersKeep
  <2> QED
    BY <1>1, <2>1
<1> QED
  BY <1>2, <1>3, <1>4 DEF Next, Engine

\* Only a check by hand begins before the time in the cache.
LEMMA BackoffWaits ==
  ASSUME UpdateInv, [Next]_vars, ~checking, checking', cooldown' = cooldown
  PROVE  update.next = 0
PROOF
<1>1. ~checking' \/ checking' = checking \/ ManualCheck \/ AutoCheck
  BY DEF Next, Engine, Answer, Succeeded, NotFetched, SetAuto, Suspend, Passes, Restart, Started, vars
<1>2. ~ManualCheck
  BY UpdateAssumption DEF ManualCheck
<1>3. AutoCheck
  BY <1>1, <1>2
<1>4. due = 0 /\ update.next <= due /\ update.next \in Nat
  BY <1>3 DEF AutoCheck, UpdateInv, Waits, TypeOK, Update
<1> QED
  BY <1>4

-----------------------------------------------------------------------------
(* The theorems.                                                           *)

\* What is on offer is newer than the program that runs, over the cache of any version;
\* a process tells of a release once; and it never forgets one that it has found, also
\* when a mirror names an older one (docs/CLI.md:74, update.rs:101).
THEOREM ReleasesAreKept == Spec => ReleaseIsKept
PROOF
<1>1. UpdateInv => AvailabilityIsOwn /\ AnnouncedOnce
  BY DEF UpdateInv, Announced, AnnouncedOnce
<1>2. UpdateInv /\ [Next]_vars =>
        [(\A v \in Versions : ~Restart(v)) => update'.latest >= update.latest]_vars
  BY Known
<1> QED
  BY InitInv, NextInv, <1>1, <1>2, PTL DEF Spec, ReleaseIsKept

\* An automatic check begins no earlier than the last result allowed, whatever was
\* restarted, suspended or checked by hand since (update.rs:16, engine.rs, tick()).
THEOREM BackoffIsKept == Spec => BackoffHolds
PROOF
<1>1. UpdateInv /\ [Next]_vars =>
        [~checking /\ checking' /\ cooldown' = cooldown => update.next = 0]_vars
  BY BackoffWaits
<1> QED
  BY InitInv, NextInv, <1>1, PTL DEF Spec, BackoffHolds
=============================================================================
