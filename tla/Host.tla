--------------------------------- MODULE Host ---------------------------------
(***************************************************************************)
(* One machine: processes of the service (Service) and a direct            *)
(* authentication from the command line (Direct), which share the instance *)
(* lock and nothing else.                                                  *)
(***************************************************************************)
EXTENDS FiniteSetsExt, Naturals, Sequences

CONSTANTS
  NoOne, Processes, Stale, Unfit,
  Self, Servers, NoPeer, MaxAdapters, Frames, QueueCap, None, Faults,
  Shared   \* bound: the commands, <<mode, adapters>>, beside which the service moves

VARIABLES
  holder,
  platform, phase, status, handler, stopping, capture, endpoint,
  pc, mode, adapters, index, queue, interrupt, expired, peer, success, result, worker, late

service == <<platform, phase, status, handler, stopping, capture, endpoint>>
direct == <<pc, mode, adapters, index, queue, interrupt, expired, peer, success, result, worker,
            late>>
vars == <<holder, service, direct>>

S == INSTANCE Service
D == INSTANCE Direct

ASSUME HostAssumption == Self \notin Processes /\ S!ServiceParameters /\ D!DirectParameters

Init == holder = NoOne /\ S!Init /\ D!Init

Services == <<mode, adapters>> \in Shared /\ S!Next /\ UNCHANGED direct

Next ==
  \/ Services
  \/ D!Next /\ UNCHANGED service

Spec == Init /\ [][Next]_vars /\ S!Fairness /\ D!Fairness

-----------------------------------------------------------------------------
(* Properties.                                                             *)

TypeOK == S!TypeOK /\ D!TypeOK /\ holder \in Processes \cup {Self, NoOne}

\* Never do two processes work on an adapter at the same time: the service and a direct
\* authentication, or a service and its successor (docs/ARCHITECTURE.md:3).
Captures ==
  {p \in Processes : capture[p]} \cup {w \in D!Workers : D!Alive(w) /\ w[1] = "capture"}
    \cup {l \in {"logoff"} : pc = l}

OneCapture == Cardinality(Captures) <= 1

OwnProbeOnly == D!OwnProbeOnly
InterruptIsPrompt == D!InterruptIsPrompt
Ends == D!Ends
EndpointIsFree == S!EndpointIsFree
StopIsHonoured == S!StopIsHonoured
=============================================================================
