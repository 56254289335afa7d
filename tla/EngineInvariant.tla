--------------------------- MODULE EngineInvariant ---------------------------
(***************************************************************************)
(* The inductive invariant of Engine.                                      *)
(*                                                                         *)
(* None of the safety invariants of Engine is inductive.  The              *)
(* strengthening, IInv, adds what relates the engine to the callbacks that *)
(* are still on their way: one of the current generation exists only while *)
(* nothing forbids an attempt, and a probe's answer only while the         *)
(* handshake timers are off.  The engine's part of IInv is split in what   *)
(* holds even in the middle of a method (Shape) and what holds when a      *)
(* method has returned (Settled).                                          *)
(***************************************************************************)
EXTENDS Engine

\* The fail-over candidates are adapters the configuration in force allows.
Allowed(e) == \A a \in e.candidates : e.config.iface \in {AutoIface, a}

\* Nothing of the current generation may be on its way.
Closed(e) == e.manual_disconnect \/ e.suspended \/ ~Allowed(e)

SpillPast(e) == \A i \in DOMAIN e.spill : e.spill[i].gen <= e.generation

Shape(e) ==
  /\ Closed(e) => /\ e.session = None /\ e.probe = None /\ e.spill = <<>>
                  /\ e.handshake = "off" /\ e.start = "off"
  /\ e.manual_disconnect \/ e.suspended => e.candidates = {} /\ e.retry = "off"
  /\ e.suspended => e.adapter = None
  /\ e.session # None => /\ e.session.gen = e.generation /\ e.session.adapter = e.adapter
                         /\ e.config.iface \in {AutoIface, e.adapter} /\ e.retry = "off"
  /\ e.probe # None => /\ e.probe.gen = e.generation
                       /\ e.handshake = "off" /\ e.start = "off"
  /\ e.internet <=> e.state = "Authenticated"
  /\ e.state = "Authenticated" => /\ e.probe = None /\ e.handshake = "off"
                                  /\ e.start = "off" /\ e.retry = "off"
  /\ ~e.config.auto_auth => e.retry = "off"

Settled(e) ==
  /\ e.state = "Authenticating" => e.probe # None \/ (e.handshake # "off" /\ e.session # None)
  /\ e.state = "Authenticated" => e.candidates = {}
  /\ e.manual_disconnect => e.state \in {"Idle", "Failed", "Stopped"}
  /\ e.suspended => e.state \in {"Idle", "Stopped"}

Good(e) == Shape(e) /\ Settled(e) /\ SpillPast(e)

\* A callback is not from the future; one of the current generation finds an engine
\* that may still act on it, and a probe's answer finds the handshake over.
Fresh(ev, e) ==
  ev.type \in Callbacks =>
    /\ ev.gen <= e.generation
    /\ ev.gen = e.generation => ~Closed(e)
    /\ ev.gen = e.generation /\ ev.type = "connectivity"
         => e.handshake = "off" /\ e.start = "off"

\* The strengthening of the safety invariants that every step preserves.
IInv ==
  /\ TypeOK
  /\ Good(eng)
  /\ \A i \in DOMAIN queue : Fresh(queue[i], eng)
  /\ pc = "dispatch" => Fresh(event, eng)
  /\ pc = "boot" => ~eng.manual_disconnect /\ ~eng.suspended /\ eng.candidates = {}

\* An answer of the probe of the attempt under way: that probe has given it, and waits
\* to be told no other.
Own(ev, e) == ev.type = "connectivity" /\ ev.gen = e.generation
Given(ev, e) == Own(ev, e) => e.probe # None /\ e.probe.result = IF ev.up THEN "up" ELSE "down"
NoneOwn(q, e) == \A i \in DOMAIN q : ~Own(q[i], e)

AnswersOnce ==
  /\ \A i \in DOMAIN queue : Given(queue[i], eng)
  /\ \A i, j \in DOMAIN queue : Own(queue[i], eng) /\ Own(queue[j], eng) => i = j
  /\ pc = "dispatch" => Given(event, eng) /\ (Own(event, eng) => NoneOwn(queue, eng))

\* With IInv inductive: what the action properties rest on.
SInv ==
  /\ AnswersOnce
  /\ pc = "boot" => eng.session = None /\ eng.probe = None

\* What OpenedOnlyIfWanted rests on.  An attempt is under way while anything of it is left.
\* Other candidates are listed only for a configuration that is complete, for as long as
\* the attempt is shown and for as long as a reader may still have something to say of it.
Active(e) == e.state \in {"Authenticating", "Authenticated"}
Busy(e) == e.session # None \/ e.probe # None \/ e.handshake # "off" \/ e.start # "off"
Listed(e) == e.candidates # {} => ValidAuth(e.config)
Told(e) ==
  SpillPast(e) /\ \A i \in DOMAIN e.spill : e.spill[i].gen = e.generation => Listed(e)

Fit(e) ==
  /\ e.config \in Configs
  /\ Busy(e) => Active(e)
  /\ e.state = "Authenticating" => Listed(e)
  /\ Told(e)

Current(ev, e) == ev.type \in Callbacks /\ ev.gen = e.generation
Word(ev, e) == Current(ev, e) => Listed(e) /\ (ev.type = "connectivity" => Active(e))

WInv ==
  /\ Fit(eng)
  /\ \A i \in DOMAIN queue : Word(queue[i], eng)
  /\ pc = "dispatch" => Word(event, eng)
=============================================================================
