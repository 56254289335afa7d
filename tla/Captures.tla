------------------------------- MODULE Captures -------------------------------
(***************************************************************************)
(* The capture a Session owns, on the systems where it is more than a      *)
(* socket: a BPF device on macOS (Bpf), NDISUIO on Windows (NativeUio).    *)
(***************************************************************************)
EXTENDS Naturals

CONSTANTS Headers, Lengths, MaxFrame, BufferSize, MaxArrived, Faults

VARIABLES
  system, \* "macos" or "windows"
  stop,
  arrived, kernel, buffer, used, offset, given, pc,
  owner, at, pending, driver, handle

macos == <<arrived, kernel, buffer, used, offset, given, pc>>
windows == <<owner, at, pending, driver, handle>>
vars == <<system, stop, macos, windows>>

B == INSTANCE Bpf
U == INSTANCE NativeUio

ASSUME CapturesAssumption == B!BpfParameters /\ U!NativeUioParameters

Init == system \in {"macos", "windows"} /\ B!Init /\ U!Init

MacOS == system = "macos" /\ B!Next /\ UNCHANGED <<system, windows>>
Windows == system = "windows" /\ U!Next /\ UNCHANGED <<system, macos>>
Next == MacOS \/ Windows

Spec == Init /\ [][Next]_vars

FairSpec ==
  Spec /\ (system = "macos" => B!Fairness) /\ (system = "windows" => U!Fairness)

-----------------------------------------------------------------------------
(* Properties.                                                             *)

FramesInOrder == B!FramesInOrder
FailsOnCutFrame == B!FailsOnCutFrame
RequestsAreJoined == U!RequestsAreJoined

\* A session that is stopped ends its reader, whether or not frames arrive, and a device
\* is then closed: on Windows also if the driver never answers (platform/mod.rs:87).
StopEndsReader ==
  stop ~> IF system = "macos" THEN pc \in {"stopped", "failed"} ELSE at["reader"] = "none" /\ ~handle
=============================================================================
