--------------------------- MODULE Authentication ---------------------------
(***************************************************************************)
(* The EAP decisions shared by the service and the direct command line     *)
(* (src/src/authentication.rs), over frames reduced to what the decisions  *)
(* look at.  A frame is                                                    *)
(*                                                                         *)
(*   [src |-> the authenticator it comes from, here |-> BOOLEAN,           *)
(*    kind |-> one of FrameKinds]                                          *)
(*                                                                         *)
(* "here" says that the frame parses, is unicast, is not our own and is    *)
(* sent to this adapter or to the PAE group address.                       *)
(***************************************************************************)
CONSTANTS Servers,   \* authenticators that can put frames on the wire
          NoPeer     \* the value of "peer" before a request was answered

ASSUME NoPeerAssumption == NoPeer \notin Servers

\* Code 1 with a method the client answers (identity, well-formed MD5), with an
\* MD5 challenge that cannot be answered, and with another method; codes 3, 4, 2.
FrameKinds == {"request", "malformed", "unsupported",
               "success", "failure", "other"}

Frame == [src : Servers, here : BOOLEAN, kind : FrameKinds]

\* protocol.rs parse(): only code-1 frames reach answer().
IsRequest(f) == f.kind \in {"request", "malformed", "unsupported"}

\* protocol.rs answer(): an answer, nothing to say, or an error.
Answer(f) == CASE f.kind = "request"     -> "bytes"
               [] f.kind = "unsupported" -> "none"
               [] OTHER                  -> "error"

\* Mutant: any authenticator may step in with a request.
Admitted_AnyPeer(peer, f, online) ==
  f.here /\ (peer # f.src => IsRequest(f))

\* Another authenticator is heard only while online and only for a request; with
\* no peer yet, only a request is heard.
Admitted(peer, f, online) ==
  /\ f.here
  /\ peer \notin {NoPeer, f.src} => online /\ IsRequest(f)
  /\ peer = NoPeer => IsRequest(f)

\* What receive() returns: Exchange::Ignore, Response, Success, Failure or Err.
Receive(peer, f, online) ==
  IF ~Admitted(peer, f, online) THEN "ignore"
  ELSE IF ~IsRequest(f)
       THEN IF f.kind = "other" THEN "ignore" ELSE f.kind
       ELSE CASE Answer(f) = "bytes" -> "response"
              [] Answer(f) = "none"  -> "ignore"
              [] OTHER -> IF peer \in {NoPeer, f.src} THEN "error" ELSE "ignore"

\* The pinned authenticator after receive(): a request that is answered pins its source.
PeerAfter(peer, f, online) ==
  IF Receive(peer, f, online) = "response" THEN f.src ELSE peer
=============================================================================
