------------------------------ MODULE EngineProof ------------------------------
(***************************************************************************)
(* Theorems about Engine, for every value of its constants.                *)
(*                                                                         *)
(*   I.   Type correctness.                                                *)
(*   II.  The safety invariants, from the inductive invariant IInv of      *)
(*        EngineInvariant.                                                 *)
(*   III. The action properties, from IInv and SInv: what no step of the   *)
(*        engine does, and the reasons it must have.                       *)
(*   IV.  What opens a capture, from IInv and WInv.                        *)
(*                                                                         *)
(* Each part has one lemma per method of the engine, which says what the   *)
(* method leaves of an engine it is given, and then one step per action.   *)
(***************************************************************************)
EXTENDS EngineInvariant, FiniteSetTheorems, SequenceTheorems, TLAPS

-----------------------------------------------------------------------------
(***************************************************************************)
(* I. Types.                                                               *)
(***************************************************************************)

\* What a method that returns Result leaves behind.
Outcome == [eng : EngineState, ok : BOOLEAN]

LEMMA Numbers == 0 \in Attempt /\ \A g \in Generation : g + 1 \in Generation
BY EngineAssumption DEF Attempt, Generation

LEMMA StatusType ==
  ASSUME NEW e \in EngineState, NEW s \in States
  PROVE  Status(e, s) \in EngineState
<1> DEFINE i == e.internet /\ s = "Authenticated"
<1>1. i \in BOOLEAN
  OBVIOUS
<1>2. Status(e, s) = [e EXCEPT !.state = s, !.internet = i]
  BY DEF Status
<1> HIDE DEF i
<1> QED BY <1>1, <1>2, ZenonT(60) DEF EngineState

LEMMA InvalidateType ==
  ASSUME NEW e \in EngineState
  PROVE  Invalidate(e) \in EngineState
BY Numbers DEF Invalidate, EngineState, Deadline

LEMMA DrainPowerType ==
  ASSUME NEW e \in EngineState, NEW p
  PROVE  DrainPower(e, p) \in EngineState
<1> DEFINE quiet == [Invalidate(e) EXCEPT !.candidates = {}, !.adapter = None,
                                          !.retry = "off", !.retry_attempt = 0]
<1>1. quiet \in EngineState
  BY InvalidateType, Numbers, ZenonT(60) DEF EngineState, Deadline
<1> HIDE DEF quiet
<1>2. [quiet EXCEPT !.suspended = TRUE] \in EngineState
  BY <1>1 DEF EngineState
<1>3. \A r \in Deadline : [quiet EXCEPT !.suspended = FALSE, !.retry = r] \in EngineState
  BY <1>1 DEF EngineState
<1>4. "armed" \in Deadline /\ "off" \in Deadline /\ "Idle" \in States
  BY DEF Deadline, States
<1>5. CASE p = "suspend"
  BY <1>2, <1>4, <1>5, StatusType DEF DrainPower, quiet
<1>6. CASE p = "resume"
  <2> DEFINE r == IF e.config.auto_auth /\ ~e.manual_disconnect THEN "armed" ELSE "off"
  <2>1. DrainPower(e, p) = Status([quiet EXCEPT !.suspended = FALSE, !.retry = r], "Idle")
    BY <1>6 DEF DrainPower, quiet
  <2>2. r \in Deadline
    BY <1>4
  <2> HIDE DEF r
  <2> QED BY <1>3, <1>4, <2>1, <2>2, StatusType
<1>7. CASE p \notin PowerEvent
  BY <1>7 DEF DrainPower, PowerEvent
<1> QED BY <1>5, <1>6, <1>7 DEF PowerEvent

LEMMA OutcomeType ==
  ASSUME NEW e \in EngineState
  PROVE  Ok(e) \in Outcome /\ Err(e) \in Outcome
BY DEF Ok, Err, Outcome

LEMMA RefreshCases ==
  ASSUME NEW e, NEW o \in RefreshAdapters(e)
  PROVE  o = Ok([e EXCEPT !.adapters = link]) \/ o = Err(e)
BY DEF RefreshAdapters

LEMMA RefreshType ==
  ASSUME NEW e \in EngineState, link \subseteq Adapters, NEW o \in RefreshAdapters(e)
  PROVE  o \in Outcome
<1>1. [e EXCEPT !.adapters = link] \in EngineState
  BY DEF EngineState
<1> QED BY <1>1, OutcomeType, RefreshCases

\* The generations that opening some of the candidates may reach.
LEMMA CandidateCount ==
  ASSUME NEW e \in EngineState, NEW S \in SUBSET e.candidates
  PROVE  Cardinality(S) \in Nat
<1>1. S \subseteq Adapters
  BY DEF EngineState
<1> QED BY <1>1, FS_Subset, FS_CardinalityType, EngineAssumption

LEMMA ReachType ==
  ASSUME NEW e \in EngineState, NEW a \in e.candidates
  PROVE  Reach(e, a) \in EngineState
<1> DEFINE before == {b \in e.candidates : Precedes(e, b, a)}
           g == Invalidate(e).generation + Cardinality(before)
           c == Invalidate(e).candidates \ (before \cup {a})
<1>1. Cardinality(before) \in Nat
  BY CandidateCount
<1>2. Invalidate(e) \in EngineState
  BY InvalidateType
<1>3. g \in Generation
  BY <1>1, <1>2 DEF EngineState, Generation
<1>4. c \in SUBSET Adapters
  BY <1>2 DEF EngineState
<1>5. Reach(e, a) = [Invalidate(e) EXCEPT !.generation = g, !.candidates = c]
  BY DEF Reach
<1> HIDE DEF g, c
<1> QED BY <1>2, <1>3, <1>4, <1>5 DEF EngineState

LEMMA OpenedType ==
  ASSUME NEW e \in EngineState, NEW a \in Adapters
  PROVE  Opened(e, a) \in EngineState
<1> DEFINE s == [adapter |-> a, gen |-> e.generation, reader |-> "running"]
<1>1. s \in Session
  BY DEF Session, EngineState
<1> HIDE DEF s
<1>2. [e EXCEPT !.adapter = a, !.session = s, !.handshake = "armed", !.start = "armed"]
        \in EngineState
  BY <1>1 DEF EngineState, Deadline
<1>3. "Authenticating" \in States
  BY DEF States
<1> QED BY <1>2, <1>3, StatusType DEF Opened, s

LEMMA NoneOpenedType ==
  ASSUME NEW e \in EngineState
  PROVE  NoneOpened(e) \in EngineState
<1> DEFINE g == e.generation + Cardinality(e.candidates)
<1>1. g \in Generation
  BY CandidateCount DEF EngineState, Generation
<1> HIDE DEF g
<1>2. [Invalidate(e) EXCEPT !.generation = g, !.candidates = {}] \in EngineState
  BY <1>1, InvalidateType, ZenonT(60) DEF EngineState
<1> QED BY <1>2 DEF NoneOpened, g

\* Whatever a reader delivers is of the generation of its capture.
LEMMA SpillsType ==
  ASSUME NEW g \in Generation, NEW s \in Spills(g)
  PROVE  s \in Seq(Reports) /\ \A i \in DOMAIN s : s[i].gen = g
<1> DEFINE F == [type : {"packet"}, gen : {g}, frame : Frames]
           last == [type |-> "capture_error", gen |-> g]
           T == {x \in Reports : x.gen = g}
           heard == UNION {[1..n -> F] : n \in 0..SpillMax}
<1>1. F \subseteq T /\ last \in T
  BY DEF Reports
<1>2. s \in heard \/ \E t \in heard : s = Append(t, last)
  BY DEF Spills
<1>3. ASSUME NEW t \in heard PROVE t \in Seq(T)
  <2>1. PICK n \in 0..SpillMax : t \in [1..n -> F]
    OBVIOUS
  <2>2. n \in Nat
    BY EngineAssumption
  <2> HIDE DEF F, T
  <2>3. t \in [1..n -> T]
    BY <1>1, <2>1
  <2> QED BY <2>2, <2>3, SeqDef
<1> HIDE DEF heard, F, last
<1>4. s \in Seq(T)
  <2> HIDE DEF T
  <2> QED BY <1>1, <1>2, <1>3
<1>5. \A i \in DOMAIN s : s[i] \in T
  <2> HIDE DEF T
  <2> QED BY <1>4
<1>6. T \subseteq Reports
  OBVIOUS
<1>7. s \in Seq(Reports)
  <2> HIDE DEF T
  <2> QED BY <1>4, <1>6, SeqMonotonic
<1> QED BY <1>5, <1>7

LEMMA SpilledType ==
  ASSUME NEW e \in EngineState, NEW s \in Spills(e.generation)
  PROVE  Spilled(e, s) \in EngineState
<1>1. e.generation \in Generation
  BY DEF EngineState
<1>2. s \in Seq(Reports)
  BY <1>1, SpillsType
<1> DEFINE t == e.spill \o s
<1>3. t \in Seq(Reports)
  BY <1>2 DEF EngineState
<1> HIDE DEF t
<1>4. [e EXCEPT !.spill = t] \in EngineState
  BY <1>3 DEF EngineState
<1> QED BY <1>4 DEF Spilled, t

\* The four ways next_candidate() returns.
LEMMA NextCandidateCases ==
  ASSUME NEW e, NEW o \in NextCandidate(e)
  PROVE  \/ e.candidates = {} /\ o = Ok(NoCandidate(e))
         \/ \E a \in e.candidates : o = Ok(Opened(Reach(e, a), a))
         \/ e.candidates # {} /\ o = Err(NoneOpened(e))
         \/ \E a \in e.candidates : \E s \in Spills(Reach(e, a).generation) :
              o = Err(Spilled(Reach(e, a), s))
<1>1. First(e) \subseteq e.candidates
  BY DEF First
<1> QED BY <1>1 DEF NextCandidate, SendFails

LEMMA NextCandidateType ==
  ASSUME NEW e \in EngineState, NEW o \in NextCandidate(e)
  PROVE  o \in Outcome
<1>1. [Invalidate(e) EXCEPT !.adapter = None] \in EngineState
  BY InvalidateType, SMTT(30) DEF EngineState
<1>2. Ok(NoCandidate(e)) \in Outcome
  BY <1>1, StatusType, OutcomeType DEF States, NoCandidate
<1>3. \A a \in e.candidates : a \in Adapters
  BY DEF EngineState
<1>4. \A a \in e.candidates : Ok(Opened(Reach(e, a), a)) \in Outcome
  BY <1>3, ReachType, OpenedType, OutcomeType
<1>5. Err(NoneOpened(e)) \in Outcome
  BY NoneOpenedType, OutcomeType
<1>6. \A a \in e.candidates : \A s \in Spills(Reach(e, a).generation) :
        Err(Spilled(Reach(e, a), s)) \in Outcome
  BY ReachType, SpilledType, OutcomeType
<1> QED BY <1>2, <1>4, <1>5, <1>6, NextCandidateCases

LEMMA GiveUpType ==
  ASSUME NEW e \in EngineState
  PROVE  GiveUp(e) \in EngineState
<1> DEFINE n == IF e.retry_attempt < MaxAttempt THEN e.retry_attempt + 1 ELSE e.retry_attempt
<1>1. n \in Attempt
  BY EngineAssumption DEF EngineState, Attempt
<1>2. GiveUp(e) = IF e.manual_disconnect \/ e.suspended \/ ~e.config.auto_auth \/ ~ValidAuth(e.config)
                  THEN Status(e, "Failed")
                  ELSE Status([e EXCEPT !.retry = "armed", !.retry_attempt = n], "Idle")
  BY DEF GiveUp
<1> HIDE DEF n
<1>3. [e EXCEPT !.retry = "armed", !.retry_attempt = n] \in EngineState
  BY <1>1 DEF EngineState, Deadline
<1> QED BY <1>2, <1>3, StatusType DEF States

LEMMA EndAttemptType ==
  ASSUME NEW e \in EngineState
  PROVE  EndAttempt(e) \in EngineState
<1> DEFINE i == Invalidate(e)
           n == IF e.state = "Authenticated" THEN 0 ELSE i.retry_attempt
           c == IF e.state = "Authenticated" THEN {} ELSE i.candidates
<1>1. i \in EngineState
  BY InvalidateType
<1> HIDE DEF i
<1>2. n \in Attempt /\ c \in SUBSET Adapters
  BY <1>1, Numbers DEF EngineState
<1>3. EndAttempt(e) = [i EXCEPT !.retry = "off", !.retry_attempt = n, !.candidates = c]
  BY DEF EndAttempt, i
<1> HIDE DEF n, c
<1> QED BY <1>1, <1>2, <1>3, ZenonT(60) DEF EngineState, Deadline

LEMMA FailedCases ==
  ASSUME NEW e, NEW d \in Failed(e)
  PROVE  \/ EndAttempt(e).candidates = {} /\ d = GiveUp(EndAttempt(e))
         \/ \E o \in NextCandidate(EndAttempt(e)) :
              d = IF o.ok THEN o.eng ELSE GiveUp(o.eng)
BY DEF Failed

LEMMA FailedType ==
  ASSUME NEW e \in EngineState, NEW d \in Failed(e)
  PROVE  d \in EngineState
BY FailedCases, EndAttemptType, NextCandidateType, GiveUpType DEF Outcome

LEMMA OrFailedType ==
  ASSUME NEW S \in SUBSET Outcome, NEW d \in OrFailed(S)
  PROVE  d \in EngineState
BY FailedType DEF OrFailed, Outcome

LEMMA BeginAttemptType ==
  ASSUME NEW e \in EngineState
  PROVE  BeginAttempt(e) \in EngineState
BY InvalidateType, ZenonT(60) DEF BeginAttempt, EngineState, Deadline

LEMMA TryCandidatesType ==
  ASSUME NEW e \in EngineState, NEW o \in TryCandidates(e)
  PROVE  o \in Outcome
<1>1. Select(e) \in SUBSET Adapters
  BY DEF Select, EngineState
<1>2. [e EXCEPT !.candidates = Select(e)] \in EngineState
  BY <1>1 DEF EngineState
<1> QED BY <1>2, NextCandidateType DEF TryCandidates

LEMMA AuthenticateCases ==
  ASSUME NEW e, NEW o \in Authenticate(e)
  PROVE  \/ o = Err(e) /\ e.suspended
         \/ o = Err(BeginAttempt(e)) /\ ~e.suspended
         \/ /\ ~e.suspended /\ ValidAuth(e.config)
            /\ \E r \in RefreshAdapters(BeginAttempt(e)) :
                 r.ok /\ o \in TryCandidates(r.eng)
<1>1. \A r \in RefreshAdapters(BeginAttempt(e)) : ~r.ok => r = Err(BeginAttempt(e))
  BY RefreshCases DEF Ok, Err
<1> QED BY <1>1 DEF Authenticate

LEMMA AuthenticateType ==
  ASSUME NEW e \in EngineState, link \subseteq Adapters, NEW o \in Authenticate(e)
  PROVE  o \in Outcome
BY AuthenticateCases, BeginAttemptType, RefreshType, TryCandidatesType, OutcomeType DEF Outcome

LEMMA StartType ==
  ASSUME NEW e \in EngineState, link \subseteq Adapters, NEW d \in Start(e)
  PROVE  d \in EngineState
<1> DEFINE S == UNION {IF r.ok /\ e.config.auto_auth THEN Authenticate(r.eng) ELSE {r} :
                         r \in RefreshAdapters(e)}
<1>1. S \subseteq Outcome
  BY RefreshType, AuthenticateType DEF Outcome
<1> QED BY <1>1, OrFailedType DEF Start

LEMMA ScannedType ==
  ASSUME NEW e \in EngineState, NEW seen
  PROVE  Scanned(e, seen) \in EngineState
<1> DEFINE n == IF seen = {} /\ e.adapters # {} THEN 0 ELSE e.retry_attempt
           f == [e EXCEPT !.retry_attempt = n]
<1>1. n \in Attempt
  BY Numbers DEF EngineState
<1> HIDE DEF n
<1>2. f \in EngineState
  BY <1>1 DEF EngineState
<1>3. Scanned(e, seen) =
        IF e.adapter \in e.adapters \cup {None} THEN f
        ELSE Status([Invalidate(f) EXCEPT !.adapter = None, !.retry = "off"], "Idle")
  BY DEF Scanned, n
<1> HIDE DEF f
<1> DEFINE g == Invalidate(f)
<1>4. [g EXCEPT !.adapter = None, !.retry = "off"] \in EngineState
  <2>1. g \in EngineState
    BY <1>2, InvalidateType
  <2> HIDE DEF g
  <2> QED
    BY <2>1 DEF EngineState, Deadline
<1> QED BY <1>2, <1>3, <1>4, StatusType DEF States

LEMMA ReconnectType ==
  ASSUME NEW e \in EngineState, link \subseteq Adapters, NEW o \in Reconnect(e)
  PROVE  o \in Outcome
BY AuthenticateType, OutcomeType DEF Reconnect

LEMMA NetworkChangedType ==
  ASSUME NEW e \in EngineState, link \subseteq Adapters, NEW o \in NetworkChanged(e)
  PROVE  o \in Outcome
BY RefreshType, ScannedType, ReconnectType, OutcomeType DEF NetworkChanged, Outcome

LEMMA DrainNetworkType ==
  ASSUME NEW e \in EngineState, link \subseteq Adapters, NEW p, NEW d \in DrainNetwork(e, p)
  PROVE  d \in EngineState
<1>1. NetworkChanged(e) \subseteq Outcome
  BY NetworkChangedType
<1> QED BY <1>1, OrFailedType DEF DrainNetwork

LEMMA HeardType ==
  ASSUME NEW e \in EngineState, NEW f \in Frames, NEW online
  PROVE  Heard(e, f, online) \in EngineState
<1> DEFINE p == PeerAfter(e.peer, f, online)
<1>1. p \in Servers \cup {NoPeer}
  BY EngineAssumption DEF PeerAfter, Frame, EngineState
<1> HIDE DEF p
<1>2. [e EXCEPT !.peer = p] \in EngineState
  BY <1>1 DEF EngineState
<1> QED BY <1>2 DEF Heard, p

LEMMA ProbingType ==
  ASSUME NEW e \in EngineState
  PROVE  /\ Granted(e) \in EngineState
         /\ Status(Granted(e), "Authenticating") \in EngineState
         /\ Probing(e) \in EngineState
<1> DEFINE p == [gen |-> e.generation, result |-> "running"]
<1>1. p \in Probe
  BY DEF Probe, EngineState
<1>2. Granted(e) \in EngineState
  BY DEF Granted, EngineState, Deadline
<1>3. Status(Granted(e), "Authenticating") \in EngineState
  BY <1>2, StatusType DEF States
<1> HIDE DEF p
<1>4. [Status(Granted(e), "Authenticating") EXCEPT !.probe = p] \in EngineState
  BY <1>1, <1>3 DEF EngineState
<1> QED BY <1>2, <1>3, <1>4 DEF Probing, p

\* The ways packet() ends: nothing, an answer, the end of EAP, or failed().
LEMMA PacketCases ==
  ASSUME NEW e, NEW g, NEW f, NEW d \in Packet(e, g, f)
  PROVE  LET online == e.state = "Authenticated" \/ e.probe # None
         IN \/ d = e
            \/ /\ g = e.generation /\ e.adapter # None
               /\ \/ d = [Heard(e, f, online) EXCEPT !.start = "off"]
                  \/ d \in Failed(Heard(e, f, online))
                  \/ online /\ d = Granted(e)
                  \/ ~online /\ d = Probing(e)
                  \/ ~online /\ d \in Failed(Status(Granted(e), "Authenticating"))
                  \/ d \in Failed(e)
BY DEF Packet

LEMMA PacketType ==
  ASSUME NEW e \in EngineState, NEW g, NEW f \in Frames, NEW d \in Packet(e, g, f)
  PROVE  d \in EngineState
<1> DEFINE online == e.state = "Authenticated" \/ e.probe # None
<1>1. Heard(e, f, online) \in EngineState
  BY HeardType
<1>2. [Heard(e, f, online) EXCEPT !.start = "off"] \in EngineState
  BY <1>1, SMTT(30) DEF EngineState, Deadline
<1> QED BY <1>1, <1>2, PacketCases, FailedType, ProbingType

LEMMA OnlineType ==
  ASSUME NEW e \in EngineState
  PROVE  Online(e) \in EngineState
<1> DEFINE c == IF e.adapter = None THEN e.cache ELSE e.adapter
<1>1. c \in Adapters \cup {None}
  BY DEF EngineState
<1>2. Online(e) =
        [e EXCEPT !.probe = None, !.candidates = {}, !.retry_attempt = 0, !.retry = "off",
                  !.cache = c, !.state = "Authenticated", !.internet = TRUE]
  BY DEF Online
<1> HIDE DEF c
<1> DEFINE m == [e EXCEPT !.probe = None, !.candidates = {}, !.retry_attempt = 0, !.retry = "off"]
<1>3. m \in EngineState
  BY Numbers DEF EngineState, Deadline
<1>4. Online(e) = [m EXCEPT !.cache = c, !.state = "Authenticated", !.internet = TRUE]
  BY <1>2
<1> HIDE DEF m
<1> QED BY <1>1, <1>3, <1>4, ZenonT(60) DEF EngineState, States

LEMMA ConnectivityType ==
  ASSUME NEW e \in EngineState, link \subseteq Adapters, NEW g, NEW up \in BOOLEAN,
         NEW d \in Connectivity(e, g, up)
  PROVE  d \in EngineState
<1>1. [e EXCEPT !.probe = None] \in EngineState
  BY DEF EngineState
<1>2. \A r \in RefreshAdapters(Online(e)) : r.eng \in EngineState
  BY OnlineType, RefreshType DEF Outcome
<1>3. d = e \/ d \in Failed([e EXCEPT !.probe = None])
        \/ \E r \in RefreshAdapters(Online(e)) : d = r.eng
  BY DEF Connectivity
<1> QED BY <1>1, <1>2, <1>3, FailedType

LEMMA ConfiguredType ==
  ASSUME NEW e \in EngineState, NEW c \in Configs
  PROVE  Configured(e, c) \in EngineState
<1> DEFINE enabled == ~e.config.auto_auth /\ c.auto_auth
           n == IF enabled THEN 0 ELSE e.retry_attempt
           r == IF c.auto_auth THEN e.retry ELSE "off"
           set == [e EXCEPT !.config = c, !.retry_attempt = n, !.retry = r]
           ended == [Invalidate(set) EXCEPT !.retry = "off", !.retry_attempt = 0]
<1>1. n \in Attempt /\ r \in Deadline /\ c \in Config
  BY Numbers, EngineAssumption DEF EngineState, Deadline
<1>2. Configured(e, c) = Status(ended, "Idle") \/ Configured(e, c) = set
  BY DEF Configured
<1> HIDE DEF n, r
<1>3. set \in EngineState
  BY <1>1 DEF EngineState
<1> HIDE DEF set
<1>4. ended \in EngineState
  <2> DEFINE i == Invalidate(set)
  <2>1. i \in EngineState
    BY <1>3, InvalidateType
  <2> HIDE DEF i
  <2>2. [i EXCEPT !.retry = "off", !.retry_attempt = 0] \in EngineState
    BY <2>1, Numbers DEF EngineState, Deadline
  <2> QED BY <2>2 DEF i
<1> QED BY <1>2, <1>3, <1>4, StatusType DEF States

LEMMA ApplyConfigType ==
  ASSUME NEW e \in EngineState, link \subseteq Adapters, NEW c \in Configs,
         NEW d \in ApplyConfig(e, c)
  PROVE  d \in EngineState
<1>1. Authenticate(Configured(e, c)) \subseteq Outcome
  BY ConfiguredType, AuthenticateType
<1>2. d = Configured(e, c) \/ d \in OrFailed(Authenticate(Configured(e, c)))
  BY DEF ApplyConfig
<1> QED BY <1>1, <1>2, ConfiguredType, OrFailedType

LEMMA ConnectType ==
  ASSUME NEW e \in EngineState, link \subseteq Adapters, NEW d \in Connect(e)
  PROVE  d \in EngineState
<1> DEFINE asked == [e EXCEPT !.manual_disconnect = FALSE, !.retry_attempt = 0]
<1>1. asked \in EngineState
  BY Numbers DEF EngineState
<1>2. d = e \/ \E o \in Authenticate(asked) : d = o.eng \/ d = Status(o.eng, "Failed")
  BY DEF Connect
<1> HIDE DEF asked
<1>3. \A o \in Authenticate(asked) : o.eng \in EngineState
  BY <1>1, AuthenticateType DEF Outcome
<1> QED BY <1>2, <1>3, StatusType DEF States

LEMMA LogoffType ==
  ASSUME NEW e \in EngineState
  PROVE  Logoff(e) \in EngineState
<1>1. [Invalidate(e) EXCEPT !.manual_disconnect = TRUE, !.retry = "off", !.candidates = {}]
        \in EngineState
  BY InvalidateType, ZenonT(60) DEF EngineState, Deadline
<1> QED BY <1>1, StatusType DEF Logoff, States

LEMMA HandleCallType ==
  ASSUME NEW e \in EngineState, link \subseteq Adapters, NEW c \in Calls,
         NEW d \in HandleCall(e, c)
  PROVE  d \in EngineState
<1>1. c.action \in {"set_config", "connect"} => c.config \in Configs
  BY EngineAssumption DEF Call
<1>2. CASE c.action = "authenticate"
  BY <1>2, ConnectType DEF HandleCall
<1>3. CASE c.action = "logoff"
  BY <1>3, LogoffType DEF HandleCall
<1>4. CASE c.action = "interfaces"
  BY <1>4, RefreshType DEF HandleCall, Outcome
<1>5. CASE c.action = "set_config"
  BY <1>1, <1>5, ApplyConfigType DEF HandleCall
<1>6. CASE c.action = "connect"
  <2>1. c.config \in Config
    BY <1>1, <1>6, EngineAssumption
  <2>2. [e EXCEPT !.config = c.config] \in EngineState
    BY <2>1 DEF EngineState
  <2> QED BY <1>6, <2>2, ConnectType DEF HandleCall
<1>7. c.action \in {"authenticate", "logoff", "interfaces", "set_config", "connect"}
  BY EngineAssumption DEF Call
<1> QED BY <1>2, <1>3, <1>4, <1>5, <1>6, <1>7

-----------------------------------------------------------------------------
(* The queue.                                                              *)

LEMMA QueueType ==
  ASSUME NEW q \in Seq(Event), NEW ev \in Event, Len(q) < QueueCap
  PROVE  Append(q, ev) \in Seq(Event) /\ Len(Append(q, ev)) <= QueueCap
BY EngineAssumption

LEMMA TrySendType ==
  ASSUME NEW q \in Seq(Event), Len(q) <= QueueCap, NEW ev \in Event
  PROVE  TrySend(q, ev) \in Seq(Event) /\ Len(TrySend(q, ev)) <= QueueCap
BY QueueType DEF TrySend

LEMMA TailType ==
  ASSUME NEW q \in Seq(Event), Len(q) <= QueueCap, q # <<>>
  PROVE  /\ Tail(q) \in Seq(Event) /\ Len(Tail(q)) <= QueueCap
         /\ Head(q) \in Event
BY EngineAssumption

LEMMA BecomeType ==
  ASSUME NEW e \in EngineState, NEW q \in Seq(Event), Len(q) <= QueueCap, Become(e, q)
  PROVE  /\ eng' \in EngineState /\ eng'.spill = <<>>
         /\ queue' \in Seq(Event) /\ Len(queue') <= QueueCap
<1>1. <<>> \in Seq(Reports) /\ e.spill \in Seq(Reports)
  BY DEF EngineState
<1>2. [e EXCEPT !.spill = <<>>] \in EngineState /\ [e EXCEPT !.spill = <<>>].spill = <<>>
  BY <1>1 DEF EngineState
<1> DEFINE both == q \o e.spill
<1>3. both \in Seq(Event)
  BY <1>1, SeqMonotonic, ConcatProperties DEF Event
<1> HIDE DEF both
<1>4. Len(both) > QueueCap => /\ SubSeq(both, 1, QueueCap) \in Seq(Event)
                              /\ Len(SubSeq(both, 1, QueueCap)) = QueueCap
  BY <1>3, EngineAssumption
<1>5. queue' = IF Len(both) > QueueCap THEN SubSeq(both, 1, QueueCap) ELSE both
  BY DEF Become, both
<1>6. Len(both) \in Nat /\ QueueCap \in Nat
  BY <1>3, EngineAssumption
<1>7. queue' \in Seq(Event) /\ Len(queue') <= QueueCap
  BY <1>3, <1>4, <1>5, <1>6
<1>8. eng' = [e EXCEPT !.spill = <<>>]
  BY DEF Become
<1> QED BY <1>2, <1>7, <1>8

-----------------------------------------------------------------------------
(* The actions.                                                            *)

LEMMA InitType == Init => TypeOK
<1> SUFFICES ASSUME Init PROVE TypeOK
  OBVIOUS
<1>1. PICK c \in Configs, a \in Adapters \cup {None} :
       eng = [state |-> "Idle", internet |-> FALSE, suspended |-> FALSE,
              manual_disconnect |-> FALSE, config |-> c, adapter |-> None,
              adapters |-> {}, candidates |-> {}, cache |-> a, session |-> None,
              probe |-> None, peer |-> NoPeer, generation |-> 0, retry |-> "off",
              retry_attempt |-> 0, handshake |-> "off", start |-> "off",
              reconcile |-> "armed", spill |-> <<>>]
  BY DEF Init
<1>2. c \in Config /\ 0 \in Generation /\ 0 \in Attempt /\ <<>> \in Seq(Reports)
  BY EngineAssumption DEF Generation, Attempt
<1>3. eng \in EngineState /\ eng.spill = <<>>
  BY <1>1, <1>2 DEF EngineState, Deadline, States
<1>4. queue \in Seq(Event) /\ Len(queue) <= QueueCap
  BY EngineAssumption DEF Init
<1> QED BY <1>3, <1>4 DEF Init, TypeOK

LEMMA WorldType ==
  ASSUME TypeOK, World
  PROVE  TypeOK'
<1>1. ASSUME NEW p \in Powers, PowerNotify(p) PROVE TypeOK'
  <2>1. [type |-> "power"] \in Event /\ p \in PowerEvent
    BY EngineAssumption DEF Event
  <2> QED BY <1>1, <2>1, TrySendType DEF TypeOK, PowerNotify
<1>2. ASSUME NetworkNotify PROVE TypeOK'
  <2>1. [type |-> "network"] \in Event
    BY DEF Event
  <2> QED BY <1>2, <2>1, TrySendType DEF TypeOK, NetworkNotify
<1>3. ASSUME StopNotify PROVE TypeOK'
  <2>1. [type |-> "stop"] \in Event
    BY DEF Event
  <2> QED BY <1>3, <2>1, TrySendType DEF TypeOK, StopNotify
<1>4. ASSUME NEW a \in Adapters, LinkChange(a) PROVE TypeOK'
  BY <1>4 DEF TypeOK, LinkChange
<1>5. ASSUME NEW c \in Calls, ClientCall(c) PROVE TypeOK'
  <2>1. [type |-> "call", call |-> c] \in Event
    BY DEF Event
  <2> QED BY <1>5, <2>1, QueueType DEF TypeOK, ClientCall, HasRoom
<1> QED BY <1>1, <1>2, <1>3, <1>4, <1>5 DEF World

LEMMA WorkersType ==
  ASSUME TypeOK, Workers
  PROVE  TypeOK'
<1> USE DEF TypeOK
<1>1. eng.session # None => eng.session \in Session
  BY DEF EngineState
<1>2. eng.probe # None => eng.probe \in Probe
  BY DEF EngineState
<1>3. ASSUME NEW f \in Frames, Capture(f) PROVE TypeOK'
  <2>1. [type |-> "packet", gen |-> eng.session.gen, frame |-> f] \in Event
    BY <1>1, <1>3 DEF Event, Reports, Session, Capture
  <2> QED BY <1>3, <2>1, QueueType DEF Capture, Deliver, HasRoom
<1>4. ASSUME CaptureFails PROVE TypeOK'
  <2>1. [type |-> "capture_error", gen |-> eng.session.gen] \in Event
    BY <1>1, <1>4 DEF Event, Reports, Session, CaptureFails
  <2> DEFINE s == [eng.session EXCEPT !.reader = "closed"]
  <2>2. s \in Session
    BY <1>1, <1>4 DEF Session, CaptureFails
  <2>3. eng' = [eng EXCEPT !.session = s]
    BY <1>4 DEF CaptureFails
  <2> HIDE DEF s
  <2>4. eng' \in EngineState /\ eng'.spill = eng.spill
    BY <2>2, <2>3 DEF EngineState
  <2> QED BY <1>4, <2>1, <2>4, QueueType DEF CaptureFails, Deliver, HasRoom
<1>5. ASSUME NEW up \in BOOLEAN, ProbeEnds(up) PROVE TypeOK'
  <2>1. [type |-> "connectivity", gen |-> eng.probe.gen, up |-> up] \in Event
    BY <1>2, <1>5 DEF Event, Probe, ProbeEnds
  <2> DEFINE p == [eng.probe EXCEPT !.result = IF up THEN "up" ELSE "down"]
  <2>2. p \in Probe
    BY <1>2, <1>5 DEF Probe, ProbeEnds
  <2>3. eng' = [eng EXCEPT !.probe = p]
    BY <1>5 DEF ProbeEnds
  <2> HIDE DEF p
  <2>4. eng' \in EngineState /\ eng'.spill = eng.spill
    BY <2>2, <2>3 DEF EngineState
  <2> QED BY <1>5, <2>1, <2>4, QueueType DEF ProbeEnds, Deliver, HasRoom
<1> QED BY <1>3, <1>4, <1>5 DEF Workers

LEMMA StoppingType ==
  ASSUME TypeOK, NEW q \in Seq(Event), Len(q) <= QueueCap, Stopping(q)
  PROVE  TypeOK'
<1>1. eng' \in EngineState
  BY InvalidateType, StatusType DEF TypeOK, Stopping, States
<1>2. eng'.spill = <<>>
  BY DEF TypeOK, Stopping, Status, Invalidate, EngineState
<1> QED BY <1>1, <1>2 DEF TypeOK, Stopping

\* A dispatched event leads to a well-typed engine if its method does.
LEMMA DispatchType ==
  ASSUME TypeOK, NEW type, NEW S \in SUBSET EngineState, Dispatch(type, S),
         network' \in BOOLEAN
  PROVE  TypeOK'
BY BecomeType DEF TypeOK, Dispatch

LEMMA DueType ==
  ASSUME TypeOK, NEW S \in SUBSET EngineState, Due(S)
  PROVE  TypeOK'
BY BecomeType DEF TypeOK, Due

LEMMA ExpireType ==
  ASSUME NEW e \in EngineState, NEW due
  PROVE  Expire(e, due) \in EngineState
<1> DEFINE r == IF "retry" \in due /\ e.retry = "armed" THEN "expired" ELSE e.retry
           h == IF "handshake" \in due /\ e.handshake = "armed" THEN "expired" ELSE e.handshake
           s == IF "start" \in due /\ e.start = "armed" THEN "expired" ELSE e.start
           c == IF "reconcile" \in due THEN "expired" ELSE e.reconcile
<1>1. {r, h, s, c} \subseteq Deadline
  BY DEF EngineState, Deadline
<1>2. Expire(e, due) = [e EXCEPT !.retry = r, !.handshake = h, !.start = s, !.reconcile = c]
  BY DEF Expire
<1> HIDE DEF r, h, s, c
<1> QED BY <1>1, <1>2, ZenonT(60) DEF EngineState

\* The event that is dispatched carries what its type promises.
LEMMA EventFields ==
  ASSUME NEW ev \in Event
  PROVE  /\ ev.type = "packet" => ev.gen \in Generation /\ ev.frame \in Frames
         /\ ev.type = "capture_error" => ev.gen \in Generation
         /\ ev.type = "connectivity" => ev.gen \in Generation /\ ev.up \in BOOLEAN
         /\ ev.type = "call" => ev.call \in Calls
BY DEF Event, Reports

LEMMA LoopType ==
  ASSUME TypeOK, Boot \/ TakeEvent \/ Timeout \/ TickStopped \/ \E due \in Dues : TickDrain(due)
  PROVE  TypeOK'
<1> USE DEF TypeOK
<1> DEFINE drained == DrainPower(eng, power)
<1>1. drained \in EngineState
  BY DrainPowerType
<1> HIDE DEF drained
<1>2. CASE Boot
  <2>1. PICK s \in IF drained.suspended \/ drained.retry # "off" THEN {drained} ELSE Start(drained) :
          Become(s, queue)
    BY <1>2 DEF Boot, drained
  <2>2. s \in EngineState
    BY <1>1, <2>1, StartType
  <2> QED BY <1>2, <2>1, <2>2, BecomeType DEF Boot
<1>3. CASE TakeEvent
  <2>1. PICK e \in DrainNetwork(drained, network /\ Head(queue).type # "network") :
          Become(e, Tail(queue))
    BY <1>3 DEF TakeEvent, drained
  <2>2. e \in EngineState
    BY <1>1, <2>1, DrainNetworkType
  <2>3. Tail(queue) \in Seq(Event) /\ Len(Tail(queue)) <= QueueCap /\ Head(queue) \in Event
    BY <1>3, TailType DEF TakeEvent
  <2>4. network' \in BOOLEAN
    BY <1>3 DEF TakeEvent
  <2> QED BY <1>3, <2>1, <2>2, <2>3, <2>4, BecomeType DEF TakeEvent
<1>4. CASE Timeout
  BY <1>4 DEF Timeout
<1>5. CASE TickStopped
  BY <1>5 DEF TickStopped
<1>6. ASSUME NEW due \in Dues, TickDrain(due) PROVE TypeOK'
  <2>1. PICK e \in DrainNetwork(drained, network) :
          LET now == IF e.suspended THEN e ELSE Expire(e, due)
          IN Become(now, queue) /\ pc' = IF SomeDue(now) THEN "due" ELSE "wait"
    BY <1>6 DEF TickDrain, drained
  <2>2. e \in EngineState
    BY <1>1, <2>1, DrainNetworkType
  <2> DEFINE now == IF e.suspended THEN e ELSE Expire(e, due)
  <2>3. now \in EngineState
    BY <2>2, ExpireType
  <2>4. Become(now, queue) /\ pc' \in {"due", "wait"}
    BY <2>1
  <2> HIDE DEF now
  <2> QED BY <1>6, <2>3, <2>4, BecomeType DEF TickDrain
<1> QED BY <1>2, <1>3, <1>4, <1>5, <1>6

LEMMA HandleType ==
  ASSUME TypeOK,
         \/ HandlePacket \/ HandleCaptureError \/ HandleConnectivity
         \/ HandleControl \/ HandlePower \/ HandleNetwork
  PROVE  TypeOK'
<1>1. eng \in EngineState /\ link \subseteq Adapters /\ network \in BOOLEAN
  BY DEF TypeOK
<1>2. pc = "dispatch" => event \in Event
  BY DEF TypeOK
<1>3. CASE HandlePacket
  <2>1. event \in Event /\ event.type = "packet"
    BY <1>2, <1>3 DEF HandlePacket, Dispatch
  <2>2. Packet(eng, event.gen, event.frame) \in SUBSET EngineState
    BY <1>1, <2>1, EventFields, PacketType
  <2> QED BY <1>1, <1>3, <2>2, DispatchType DEF HandlePacket
<1>4. CASE HandleCaptureError
  <2>1. CaptureError(eng, event.gen) \in SUBSET EngineState
    BY <1>1, FailedType DEF CaptureError
  <2> QED BY <1>1, <1>4, <2>1, DispatchType DEF HandleCaptureError
<1>5. CASE HandleConnectivity
  <2>1. event \in Event /\ event.type = "connectivity"
    BY <1>2, <1>5 DEF HandleConnectivity, Dispatch
  <2>2. Connectivity(eng, event.gen, event.up) \in SUBSET EngineState
    BY <1>1, <2>1, EventFields, ConnectivityType
  <2> QED BY <1>1, <1>5, <2>2, DispatchType DEF HandleConnectivity
<1>6. CASE HandleControl
  <2>1. event \in Event /\ event.type = "call"
    BY <1>2, <1>6 DEF HandleControl, Dispatch
  <2>2. HandleCall(eng, event.call) \in SUBSET EngineState
    BY <1>1, <2>1, EventFields, HandleCallType
  <2> QED BY <1>1, <1>6, <2>2, DispatchType DEF HandleControl
<1>7. CASE HandlePower
  BY <1>1, <1>7, DispatchType DEF HandlePower
<1>8. CASE HandleNetwork
  <2>1. NetworkChanged(eng) \in SUBSET Outcome
    BY <1>1, NetworkChangedType
  <2>2. OrFailed(NetworkChanged(eng)) \in SUBSET EngineState
    BY <2>1, OrFailedType
  <2> QED BY <1>8, <2>2, DispatchType DEF HandleNetwork
<1> QED BY <1>3, <1>4, <1>5, <1>6, <1>7, <1>8

LEMMA DeadlineType ==
  ASSUME TypeOK, Reconcile \/ HandshakeTimeout \/ ResendStart \/ RetryNow
  PROVE  TypeOK'
<1>1. eng \in EngineState /\ link \subseteq Adapters
  BY DEF TypeOK
<1>2. CASE Reconcile
  <2> DEFINE quiet == [eng EXCEPT !.reconcile = "armed"]
             reloaded == {quiet} \cup UNION {ApplyConfig(quiet, c) : c \in Configs \ {eng.config}}
             results == UNION {OrFailed(NetworkChanged(e)) : e \in reloaded}
  <2>1. quiet \in EngineState
    BY <1>1 DEF EngineState, Deadline
  <2>2. Due(results)
    BY <1>2 DEF Reconcile
  <2> HIDE DEF quiet
  <2>3. reloaded \in SUBSET EngineState
    BY <1>1, <2>1, ApplyConfigType
  <2> HIDE DEF reloaded
  <2>4. \A e \in reloaded : NetworkChanged(e) \in SUBSET Outcome
    BY <1>1, <2>3, NetworkChangedType
  <2>5. results \in SUBSET EngineState
    BY <2>4, OrFailedType
  <2> QED BY <2>2, <2>5, DueType
<1>3. CASE HandshakeTimeout
  <2>1. Failed(eng) \in SUBSET EngineState
    BY <1>1, FailedType
  <2> QED BY <1>3, <2>1, DueType DEF HandshakeTimeout
<1>4. CASE ResendStart
  <2> DEFINE results == {[eng EXCEPT !.start = "armed"]}
                          \cup (IF Faults /\ eng.session # None THEN Failed(eng) ELSE {})
  <2>1. [eng EXCEPT !.start = "armed"] \in EngineState
    BY <1>1 DEF EngineState, Deadline
  <2>2. results \in SUBSET EngineState
    BY <1>1, <2>1, FailedType
  <2>3. Due(results)
    BY <1>4 DEF ResendStart
  <2> QED BY <2>2, <2>3, DueType
<1>5. CASE RetryNow
  <2> DEFINE e == [eng EXCEPT !.retry = "off"]
  <2>1. e \in EngineState
    BY <1>1 DEF EngineState, Deadline
  <2>2. Due(OrFailed(Authenticate(e)))
    BY <1>5 DEF RetryNow
  <2> HIDE DEF e
  <2>3. Authenticate(e) \in SUBSET Outcome
    BY <1>1, <2>1, AuthenticateType
  <2>4. OrFailed(Authenticate(e)) \in SUBSET EngineState
    BY <2>3, OrFailedType
  <2> QED BY <2>2, <2>4, DueType
<1> QED BY <1>2, <1>3, <1>4, <1>5

LEMMA TypeStep == TypeOK /\ [Next]_vars => TypeOK'
<1> SUFFICES ASSUME TypeOK, [Next]_vars PROVE TypeOK'
  OBVIOUS
<1>1. CASE World
  BY <1>1, WorldType
<1>2. CASE Workers
  BY <1>2, WorkersType
<1>3. CASE Thread
  <2>1. CASE BootStopped
    BY <2>1, StoppingType DEF BootStopped, TypeOK
  <2>2. CASE TakeStopped
    <3>1. Tail(queue) \in Seq(Event) /\ Len(Tail(queue)) <= QueueCap
      BY <2>2, TailType DEF TakeStopped, TypeOK
    <3> QED BY <2>2, <3>1, StoppingType DEF TakeStopped
  <2> QED BY <1>3, <2>1, <2>2, LoopType, HandleType, DeadlineType DEF Thread
<1>4. CASE Finished \/ UNCHANGED vars
  BY <1>4 DEF Finished, vars, TypeOK
<1> QED BY <1>1, <1>2, <1>3, <1>4 DEF Next

\* Every field keeps its type: in particular an outcome of any method, after any
\* failing system call, is again an engine, and the queue keeps its capacity.
THEOREM TypeCorrect == Spec => []TypeOK
BY InitType, TypeStep, PTL DEF Spec

-----------------------------------------------------------------------------
(***************************************************************************)
(* II. The safety invariants: what every method leaves, then every step.   *)
(***************************************************************************)

\* What an attempt may start from.
Ready(e) ==
  /\ SpillPast(e)
  /\ ~e.manual_disconnect /\ ~e.suspended
  /\ e.internet <=> e.state = "Authenticated"

\* A later engine has a later generation, or has neither closed nor armed anything.
Later(e, d) ==
  \/ d.generation > e.generation
  \/ /\ d.generation = e.generation
     /\ Closed(d) => Closed(e)
     /\ e.handshake = "off" => d.handshake = "off"
     /\ e.start = "off" => d.start = "off"

LEMMA GenerationNat == ASSUME NEW e \in EngineState PROVE e.generation \in Nat
BY DEF EngineState, Generation

LEMMA SpillNat ==
  ASSUME NEW e \in EngineState
  PROVE  \A i \in DOMAIN e.spill : e.spill[i].gen \in Nat
<1>1. e.spill \in Seq(Reports)
  BY DEF EngineState
<1>2. \A i \in DOMAIN e.spill : e.spill[i] \in Reports
  BY <1>1
<1> QED BY <1>2 DEF Reports, Generation

LEMMA LaterTransitive ==
  ASSUME NEW e \in EngineState, NEW d \in EngineState, NEW f \in EngineState,
         Later(e, d), Later(d, f)
  PROVE  Later(e, f)
BY GenerationNat DEF Later

-----------------------------------------------------------------------------
(* What the methods that only set fields leave in the fields.              *)

LEMMA StatusFields ==
  ASSUME NEW e \in EngineState, NEW s
  PROVE  LET d == Status(e, s)
         IN /\ d.state = s /\ (d.internet <=> e.internet /\ s = "Authenticated")
            /\ d.suspended = e.suspended /\ d.manual_disconnect = e.manual_disconnect
            /\ d.config = e.config /\ d.adapter = e.adapter
            /\ d.candidates = e.candidates /\ d.session = e.session /\ d.probe = e.probe
            /\ d.generation = e.generation /\ d.retry = e.retry
            /\ d.handshake = e.handshake /\ d.start = e.start /\ d.spill = e.spill
            /\ d.adapters = e.adapters
BY DEF Status, EngineState

LEMMA InvalidateFields ==
  ASSUME NEW e \in EngineState
  PROVE  LET d == Invalidate(e)
         IN /\ d.generation = e.generation + 1
            /\ d.session = None /\ d.probe = None
            /\ d.handshake = "off" /\ d.start = "off"
            /\ d.state = e.state /\ d.internet = e.internet
            /\ d.suspended = e.suspended /\ d.manual_disconnect = e.manual_disconnect
            /\ d.config = e.config /\ d.adapter = e.adapter
            /\ d.candidates = e.candidates /\ d.retry = e.retry /\ d.spill = e.spill
            /\ d.adapters = e.adapters
BY DEF Invalidate, EngineState

LEMMA EndAttemptFields ==
  ASSUME NEW e \in EngineState
  PROVE  LET d == EndAttempt(e)
         IN /\ d.generation = e.generation + 1
            /\ d.session = None /\ d.probe = None
            /\ d.handshake = "off" /\ d.start = "off" /\ d.retry = "off"
            /\ d.candidates = IF e.state = "Authenticated" THEN {} ELSE e.candidates
            /\ d.state = e.state /\ d.internet = e.internet
            /\ d.suspended = e.suspended /\ d.manual_disconnect = e.manual_disconnect
            /\ d.config = e.config /\ d.adapter = e.adapter /\ d.spill = e.spill
BY InvalidateType, InvalidateFields DEF EndAttempt, EngineState

LEMMA BeginAttemptFields ==
  ASSUME NEW e \in EngineState
  PROVE  LET d == BeginAttempt(e)
         IN /\ d.generation = e.generation + 1
            /\ d.session = None /\ d.probe = None
            /\ d.handshake = "off" /\ d.start = "off" /\ d.retry = "off"
            /\ d.candidates = {}
            /\ d.state = e.state /\ d.internet = e.internet
            /\ d.suspended = e.suspended /\ d.manual_disconnect = e.manual_disconnect
            /\ d.config = e.config /\ d.adapter = e.adapter /\ d.spill = e.spill
BY InvalidateType, InvalidateFields DEF BeginAttempt, EngineState

LEMMA ReachFields ==
  ASSUME NEW e \in EngineState, NEW a \in e.candidates
  PROVE  LET d == Reach(e, a)
         IN /\ d.generation > e.generation
            /\ d.session = None /\ d.probe = None
            /\ d.handshake = "off" /\ d.start = "off"
            /\ d.candidates \subseteq e.candidates
            /\ d.state = e.state /\ d.internet = e.internet /\ d.retry = e.retry
            /\ d.suspended = e.suspended /\ d.manual_disconnect = e.manual_disconnect
            /\ d.config = e.config /\ d.adapter = e.adapter /\ d.spill = e.spill
<1> DEFINE before == {b \in e.candidates : Precedes(e, b, a)}
           n == Cardinality(before)
           i == Invalidate(e)
           c == i.candidates \ (before \cup {a})
<1>1. n \in Nat /\ e.generation \in Nat
  BY CandidateCount, GenerationNat
<1>2. i \in EngineState /\ i.generation = e.generation + 1 /\ c \subseteq e.candidates
  BY InvalidateType, InvalidateFields
<1>3. Reach(e, a) = [i EXCEPT !.generation = i.generation + n, !.candidates = c]
  BY DEF Reach
<1>4. i.session = None /\ i.probe = None /\ i.handshake = "off" /\ i.start = "off"
      /\ i.state = e.state /\ i.internet = e.internet /\ i.retry = e.retry
      /\ i.suspended = e.suspended /\ i.manual_disconnect = e.manual_disconnect
      /\ i.config = e.config /\ i.adapter = e.adapter /\ i.spill = e.spill
  BY InvalidateFields
<1> DEFINE g == i.generation + n
<1>5. g > e.generation
  BY <1>1, <1>2
<1> HIDE DEF n, i, c, g
<1>6. Reach(e, a) = [i EXCEPT !.generation = g, !.candidates = c]
  BY <1>3 DEF g
<1> QED BY <1>2, <1>4, <1>5, <1>6 DEF EngineState

LEMMA OpenedFields ==
  ASSUME NEW e \in EngineState, NEW a \in Adapters
  PROVE  LET d == Opened(e, a)
         IN /\ d.generation = e.generation /\ d.adapter = a /\ d.state = "Authenticating"
            /\ d.session = [adapter |-> a, gen |-> e.generation, reader |-> "running"]
            /\ d.handshake = "armed" /\ ~d.internet
            /\ d.probe = e.probe /\ d.candidates = e.candidates /\ d.retry = e.retry
            /\ d.suspended = e.suspended /\ d.manual_disconnect = e.manual_disconnect
            /\ d.config = e.config /\ d.spill = e.spill
<1> DEFINE s == [adapter |-> a, gen |-> e.generation, reader |-> "running"]
           m == [e EXCEPT !.adapter = a, !.session = s, !.handshake = "armed", !.start = "armed"]
<1>1. s \in Session
  BY DEF Session, EngineState
<1>2. Opened(e, a) = Status(m, "Authenticating")
  BY DEF Opened
<1>3. s = [adapter |-> a, gen |-> e.generation, reader |-> "running"]
  OBVIOUS
<1> HIDE DEF s
<1>4. m \in EngineState
  BY <1>1 DEF EngineState, Deadline
<1>5. /\ m.generation = e.generation /\ m.adapter = a /\ m.session = s
      /\ m.handshake = "armed"
      /\ m.probe = e.probe /\ m.candidates = e.candidates /\ m.retry = e.retry
      /\ m.suspended = e.suspended /\ m.manual_disconnect = e.manual_disconnect
      /\ m.config = e.config /\ m.spill = e.spill
  BY DEF EngineState
<1> HIDE DEF m
<1>6. ~Status(m, "Authenticating").internet
  BY <1>4, StatusFields
<1> QED BY <1>2, <1>3, <1>4, <1>5, <1>6, StatusFields

LEMMA NoneOpenedFields ==
  ASSUME NEW e \in EngineState, e.candidates # {}
  PROVE  LET d == NoneOpened(e)
         IN /\ d.generation > e.generation
            /\ d.session = None /\ d.probe = None
            /\ d.handshake = "off" /\ d.start = "off" /\ d.candidates = {}
            /\ d.state = e.state /\ d.internet = e.internet /\ d.retry = e.retry
            /\ d.suspended = e.suspended /\ d.manual_disconnect = e.manual_disconnect
            /\ d.config = e.config /\ d.adapter = e.adapter /\ d.spill = e.spill
<1> DEFINE n == Cardinality(e.candidates)
           i == Invalidate(e)
           g == e.generation + n
<1>1. IsFiniteSet(e.candidates)
  BY EngineAssumption, FS_Subset DEF EngineState
<1>2. n \in Nat /\ n # 0
  BY <1>1, FS_CardinalityType, FS_EmptySet
<1>3. g > e.generation
  BY <1>2, GenerationNat
<1>4. NoneOpened(e) = [i EXCEPT !.generation = g, !.candidates = {}]
  BY DEF NoneOpened
<1>5. i \in EngineState
  BY InvalidateType
<1>6. i.session = None /\ i.probe = None /\ i.handshake = "off" /\ i.start = "off"
      /\ i.state = e.state /\ i.internet = e.internet /\ i.retry = e.retry
      /\ i.suspended = e.suspended /\ i.manual_disconnect = e.manual_disconnect
      /\ i.config = e.config /\ i.adapter = e.adapter /\ i.spill = e.spill
  BY InvalidateFields
<1> HIDE DEF n, i, g
<1> QED BY <1>3, <1>4, <1>5, <1>6 DEF EngineState

LEMMA SpilledFields ==
  ASSUME NEW e \in EngineState, SpillPast(e), NEW s \in Spills(e.generation)
  PROVE  LET d == Spilled(e, s)
         IN /\ SpillPast(d)
            /\ d.generation = e.generation
            /\ d.session = e.session /\ d.probe = e.probe
            /\ d.handshake = e.handshake /\ d.start = e.start /\ d.candidates = e.candidates
            /\ d.state = e.state /\ d.internet = e.internet /\ d.retry = e.retry
            /\ d.suspended = e.suspended /\ d.manual_disconnect = e.manual_disconnect
            /\ d.config = e.config /\ d.adapter = e.adapter
<1>1. s \in Seq(Reports) /\ \A i \in DOMAIN s : s[i].gen = e.generation
  BY SpillsType DEF EngineState
<1>2. e.generation \in Nat
  BY GenerationNat
<1> DEFINE t == e.spill \o s
<1>3. \A i \in DOMAIN t : t[i].gen <= e.generation
  <2>1. e.spill \in Seq(Reports)
    BY DEF EngineState
  <2> TAKE i \in DOMAIN t
  <2>2. Len(e.spill) \in Nat /\ Len(s) \in Nat /\ i \in 1..(Len(e.spill) + Len(s))
    BY <1>1, <2>1
  <2>3. CASE i <= Len(e.spill)
    <3>1. t[i] = e.spill[i] /\ i \in DOMAIN e.spill
      BY <1>1, <2>1, <2>2, <2>3
    <3> QED BY <3>1 DEF SpillPast
  <2>4. CASE i > Len(e.spill)
    <3>1. t[i] = s[i - Len(e.spill)] /\ i - Len(e.spill) \in DOMAIN s
      BY <1>1, <2>1, <2>2, <2>4
    <3> QED BY <1>1, <1>2, <3>1
  <2> QED BY <2>2, <2>3, <2>4
<1>4. Spilled(e, s) = [e EXCEPT !.spill = t]
  BY DEF Spilled
<1> HIDE DEF t
<1> QED BY <1>3, <1>4 DEF SpillPast, EngineState

-----------------------------------------------------------------------------
(* An attempt: what it opens is current and allowed, what it fails with is  *)
(* quiet.                                                                   *)

\* An engine that an attempt left without a session.
Quiet(e) == e.session = None /\ e.probe = None /\ e.handshake = "off" /\ e.start = "off"

LEMMA NextCandidateSafe ==
  ASSUME NEW e \in EngineState, Ready(e), Allowed(e), e.retry = "off",
         NEW o \in NextCandidate(e)
  PROVE  /\ o.eng.generation > e.generation
         /\ Shape(o.eng) /\ SpillPast(o.eng) /\ ~Closed(o.eng) /\ o.eng.retry = "off"
         /\ IF o.ok THEN Settled(o.eng) ELSE Quiet(o.eng)
<1> DEFINE d == o.eng
<1>1. e.generation \in Nat /\ \A i \in DOMAIN e.spill : e.spill[i].gen \in Nat
  BY GenerationNat, SpillNat
<1>2. CASE e.candidates = {} /\ o = Ok(NoCandidate(e))
  <2> DEFINE i == [Invalidate(e) EXCEPT !.adapter = None]
  <2>1. i \in EngineState
    BY InvalidateType, SMTT(30) DEF EngineState
  <2>2. /\ i.generation = e.generation + 1 /\ i.session = None /\ i.probe = None
        /\ i.handshake = "off" /\ i.start = "off" /\ i.adapter = None
        /\ i.candidates = e.candidates /\ i.retry = e.retry /\ i.spill = e.spill
        /\ i.suspended = e.suspended /\ i.manual_disconnect = e.manual_disconnect
        /\ i.config = e.config
    BY InvalidateType, InvalidateFields DEF EngineState
  <2>3. d = Status(i, "Idle") /\ o.ok
    BY <1>2 DEF NoCandidate, Ok
  <2> HIDE DEF i
  <2>4. ~d.internet /\ d.state = "Idle"
    BY <2>1, <2>3, StatusFields
  <2> QED BY <1>1, <1>2, <2>1, <2>2, <2>3, <2>4, StatusFields
          DEF Ready, SpillPast, Shape, Settled, Closed, Allowed
<1>3. ASSUME NEW a \in e.candidates, o = Ok(Opened(Reach(e, a), a)) PROVE
        /\ d.generation > e.generation
        /\ Shape(d) /\ SpillPast(d) /\ ~Closed(d) /\ d.retry = "off" /\ o.ok /\ Settled(d)
  <2> DEFINE r == Reach(e, a)
  <2>1. a \in Adapters /\ a # None
    BY EngineAssumption DEF EngineState
  <2>2. r \in EngineState
    BY ReachType
  <2>3. d = Opened(r, a) /\ o.ok
    BY <1>3 DEF Ok
  <2>4. /\ r.generation > e.generation /\ r.probe = None
        /\ r.candidates \subseteq e.candidates /\ r.retry = e.retry
        /\ r.suspended = e.suspended /\ r.manual_disconnect = e.manual_disconnect
        /\ r.config = e.config /\ r.spill = e.spill
    BY ReachFields
  <2> HIDE DEF r
  <2>5. r.generation \in Nat
    BY <2>2, GenerationNat
  <2>6. /\ d.generation = r.generation /\ d.adapter = a /\ d.state = "Authenticating"
        /\ d.session = [adapter |-> a, gen |-> r.generation, reader |-> "running"]
        /\ d.handshake = "armed" /\ ~d.internet
        /\ d.probe = None /\ d.candidates \subseteq e.candidates /\ d.retry = "off"
        /\ ~d.suspended /\ ~d.manual_disconnect
        /\ d.config = e.config /\ d.spill = e.spill
    BY <2>1, <2>2, <2>3, <2>4, OpenedFields DEF Ready
  <2> HIDE DEF d
  <2>7. d.session # None /\ d.session.gen = d.generation /\ d.session.adapter = d.adapter
    <3>1. d.session \in Session
      BY <2>1, <2>5, <2>6 DEF Session, Generation
    <3> QED BY <2>6, <3>1, EngineAssumption
  <2>8. SpillPast(d)
    BY <1>1, <2>4, <2>5, <2>6 DEF Ready, SpillPast
  <2>9. ~Closed(d) /\ d.config.iface \in {AutoIface, a}
    BY <2>6 DEF Closed, Allowed
  <2> QED BY <2>3, <2>4, <2>6, <2>7, <2>8, <2>9 DEF Shape, Settled
<1>4. CASE e.candidates # {} /\ o = Err(NoneOpened(e))
  <2>1. d = NoneOpened(e) /\ ~o.ok
    BY <1>4 DEF Err
  <2>2. d \in EngineState
    BY <2>1, NoneOpenedType
  <2>3. d.generation \in Nat
    BY <2>2, GenerationNat
  <2> QED BY <1>1, <1>4, <2>1, <2>3, NoneOpenedFields
          DEF Ready, SpillPast, Shape, Closed, Allowed, Quiet
<1>5. ASSUME NEW a \in e.candidates, NEW s \in Spills(Reach(e, a).generation),
             o = Err(Spilled(Reach(e, a), s))
      PROVE  /\ d.generation > e.generation
             /\ Shape(d) /\ SpillPast(d) /\ ~Closed(d) /\ d.retry = "off" /\ ~o.ok /\ Quiet(d)
  <2> DEFINE r == Reach(e, a)
  <2>1. d = Spilled(r, s) /\ ~o.ok
    BY <1>5 DEF Err
  <2>2. r \in EngineState /\ r.generation > e.generation
    BY ReachType, ReachFields
  <2>3. r.generation \in Nat
    BY <2>2, GenerationNat
  <2>4. SpillPast(r)
    <3>1. r.spill = e.spill
      BY ReachFields
    <3> HIDE DEF r
    <3> QED BY <1>1, <2>2, <2>3, <3>1 DEF Ready, SpillPast
  <2> QED BY <2>1, <2>2, <2>4, ReachFields, SpilledFields
          DEF Ready, Shape, Closed, Allowed, Quiet
<1> QED BY <1>2, <1>3, <1>4, <1>5, NextCandidateCases

LEMMA GiveUpSafe ==
  ASSUME NEW e \in EngineState, Shape(e), SpillPast(e), Quiet(e), e.retry = "off",
         ~e.manual_disconnect, ~e.suspended
  PROVE  /\ Good(GiveUp(e)) /\ GiveUp(e).generation = e.generation
         /\ Closed(GiveUp(e)) => Closed(e)
         /\ Quiet(GiveUp(e))
<1> DEFINE n == IF e.retry_attempt < MaxAttempt THEN e.retry_attempt + 1 ELSE e.retry_attempt
           m == [e EXCEPT !.retry = "armed", !.retry_attempt = n]
<1>1. n \in Attempt
  BY EngineAssumption DEF EngineState, Attempt
<1>2. GiveUp(e) = IF e.manual_disconnect \/ e.suspended \/ ~e.config.auto_auth \/ ~ValidAuth(e.config)
                  THEN Status(e, "Failed") ELSE Status(m, "Idle")
  BY DEF GiveUp
<1> HIDE DEF n
<1>3. m \in EngineState
  BY <1>1 DEF EngineState, Deadline
<1>4. /\ m.retry = "armed" /\ m.generation = e.generation /\ m.session = e.session
      /\ m.probe = e.probe /\ m.handshake = e.handshake /\ m.start = e.start
      /\ m.candidates = e.candidates /\ m.config = e.config /\ m.spill = e.spill
      /\ m.suspended = e.suspended /\ m.manual_disconnect = e.manual_disconnect
      /\ m.adapter = e.adapter
  BY DEF EngineState
<1> HIDE DEF m
<1>5. CASE GiveUp(e) = Status(e, "Failed")
  <2> DEFINE d == Status(e, "Failed")
  <2>1. /\ d.state = "Failed" /\ ~d.internet
        /\ d.suspended = e.suspended /\ d.manual_disconnect = e.manual_disconnect
        /\ d.config = e.config /\ d.adapter = e.adapter
        /\ d.candidates = e.candidates /\ d.session = e.session /\ d.probe = e.probe
        /\ d.generation = e.generation /\ d.retry = e.retry
        /\ d.handshake = e.handshake /\ d.start = e.start /\ d.spill = e.spill
    BY StatusFields
  <2> HIDE DEF d
  <2>2. Good(d) /\ (Closed(d) => Closed(e)) /\ Quiet(d) /\ d.generation = e.generation
    BY <2>1 DEF Good, Shape, Settled, SpillPast, Closed, Allowed, Quiet
  <2> QED BY <1>5, <2>2 DEF d
<1>6. CASE GiveUp(e) = Status(m, "Idle") /\ e.config.auto_auth
  <2> DEFINE d == Status(m, "Idle")
  <2>1. /\ d.state = "Idle" /\ ~d.internet
        /\ d.suspended = e.suspended /\ d.manual_disconnect = e.manual_disconnect
        /\ d.config = e.config /\ d.adapter = e.adapter
        /\ d.candidates = e.candidates /\ d.session = e.session /\ d.probe = e.probe
        /\ d.generation = e.generation /\ d.retry = "armed"
        /\ d.handshake = e.handshake /\ d.start = e.start /\ d.spill = e.spill
    BY <1>3, <1>4, StatusFields
  <2> HIDE DEF d
  <2>2. Good(d) /\ (Closed(d) => Closed(e)) /\ Quiet(d) /\ d.generation = e.generation
    BY <1>6, <2>1 DEF Good, Shape, Settled, SpillPast, Closed, Allowed, Quiet
  <2> QED BY <1>6, <2>2 DEF d
<1> QED BY <1>2, <1>5, <1>6

\* An attempt that ends leaves the next candidate's capture, a retry or a message.
LEMMA FailedSafe ==
  ASSUME NEW e \in EngineState, Ready(e), Allowed(e), NEW d \in Failed(e)
  PROVE  Good(d) /\ ~Closed(d) /\ d.generation > e.generation
<1> DEFINE f == EndAttempt(e)
<1>1. f \in EngineState /\ e.generation \in Nat
  BY EndAttemptType, GenerationNat
<1>2. /\ f.generation = e.generation + 1
      /\ Quiet(f) /\ f.retry = "off"
      /\ f.candidates = IF e.state = "Authenticated" THEN {} ELSE e.candidates
      /\ f.state = e.state /\ f.internet = e.internet
      /\ f.suspended = e.suspended /\ f.manual_disconnect = e.manual_disconnect
      /\ f.config = e.config /\ f.adapter = e.adapter /\ f.spill = e.spill
  BY EndAttemptFields DEF Quiet
<1> HIDE DEF f
<1>3. Ready(f) /\ Allowed(f) /\ ~Closed(f)
  BY <1>1, <1>2, SpillNat DEF Ready, Allowed, SpillPast, Closed
<1>4. Shape(f)
  BY <1>2, <1>3 DEF Shape, Closed, Ready, Quiet
<1>5. CASE d = GiveUp(f)
  BY <1>1, <1>2, <1>3, <1>4, <1>5, GiveUpSafe DEF Ready
<1>6. ASSUME NEW o \in NextCandidate(f), d = IF o.ok THEN o.eng ELSE GiveUp(o.eng)
      PROVE  Good(d) /\ ~Closed(d) /\ d.generation > e.generation
  <2>1. /\ o.eng.generation > f.generation
        /\ Shape(o.eng) /\ SpillPast(o.eng) /\ ~Closed(o.eng) /\ o.eng.retry = "off"
        /\ IF o.ok THEN Settled(o.eng) ELSE Quiet(o.eng)
    BY <1>1, <1>2, <1>3, NextCandidateSafe
  <2>2. o.eng \in EngineState
    BY <1>1, NextCandidateType DEF Outcome
  <2>3. o.eng.generation \in Nat
    BY <2>2, GenerationNat
  <2>4. CASE o.ok
    BY <1>1, <1>2, <1>6, <2>1, <2>3, <2>4 DEF Good
  <2>5. CASE ~o.ok
    <3>1. Good(d) /\ d.generation = o.eng.generation /\ ~Closed(d)
      BY <1>6, <2>1, <2>2, <2>5, GiveUpSafe DEF Closed
    <3> QED BY <1>1, <1>2, <2>1, <2>3, <3>1
  <2> QED BY <2>4, <2>5
<1> QED BY <1>5, <1>6, FailedCases DEF f

-----------------------------------------------------------------------------
(* Outcomes: an error of a method is one that failed() can answer.          *)

Sound(e, o) ==
  /\ o \in Outcome /\ Later(e, o.eng)
  /\ IF o.ok THEN Good(o.eng) ELSE Ready(o.eng) /\ Allowed(o.eng)

LEMMA OrFailedSafe ==
  ASSUME NEW e \in EngineState, NEW S, \A o \in S : Sound(e, o), NEW d \in OrFailed(S)
  PROVE  Good(d) /\ Later(e, d)
<1>1. PICK o \in S : d \in IF o.ok THEN {o.eng} ELSE Failed(o.eng)
  BY DEF OrFailed
<1>2. o.eng \in EngineState /\ Later(e, o.eng)
  BY DEF Sound, Outcome
<1>3. CASE o.ok
  BY <1>1, <1>2, <1>3 DEF Sound
<1>4. CASE ~o.ok
  <2>1. Ready(o.eng) /\ Allowed(o.eng) /\ d \in Failed(o.eng)
    BY <1>1, <1>4 DEF Sound
  <2>2. Good(d) /\ d.generation > o.eng.generation /\ d \in EngineState
    BY <1>2, <2>1, FailedSafe, FailedType
  <2>3. e.generation \in Nat /\ d.generation \in Nat /\ o.eng.generation \in Nat
    BY <1>2, <2>2, GenerationNat
  <2> QED BY <1>2, <2>2, <2>3 DEF Later
<1> QED BY <1>3, <1>4

\* Engines that differ in nothing the invariant looks at.
Alike(e, d) ==
  /\ d.state = e.state /\ d.internet = e.internet
  /\ d.suspended = e.suspended /\ d.manual_disconnect = e.manual_disconnect
  /\ d.config = e.config /\ d.adapter = e.adapter /\ d.candidates = e.candidates
  /\ d.session = e.session /\ d.probe = e.probe /\ d.generation = e.generation
  /\ d.retry = e.retry /\ d.handshake = e.handshake /\ d.start = e.start
  /\ d.spill = e.spill

LEMMA AlikeSafe ==
  ASSUME NEW e, NEW d, Alike(e, d)
  PROVE  /\ Good(e) => Good(d)
         /\ Ready(e) => Ready(d)
         /\ Allowed(e) => Allowed(d)
         /\ Later(e, d)
BY DEF Alike, Good, Shape, Settled, SpillPast, Ready, Allowed, Closed, Later

LEMMA RefreshSafe ==
  ASSUME NEW e \in EngineState, NEW o \in RefreshAdapters(e)
  PROVE  Alike(e, o.eng)
<1>1. o.eng = e \/ o.eng = [e EXCEPT !.adapters = link]
  BY RefreshCases DEF Ok, Err
<1> QED BY <1>1 DEF Alike, EngineState

\* What any attempt leaves.
Attempted(e, o) ==
  /\ o \in Outcome /\ o.eng.generation > e.generation
  /\ Shape(o.eng) /\ SpillPast(o.eng) /\ ~Closed(o.eng)
  /\ IF o.ok THEN Settled(o.eng) ELSE Quiet(o.eng) /\ o.eng.retry = "off"

LEMMA AttemptedSound ==
  ASSUME NEW e, NEW o, Attempted(e, o)
  PROVE  Sound(e, o)
BY DEF Attempted, Sound, Good, Ready, Closed, Shape, Later

LEMMA AuthenticateSafe ==
  ASSUME NEW e \in EngineState, Ready(e), link \subseteq Adapters, NEW o \in Authenticate(e)
  PROVE  Attempted(e, o)
<1> DEFINE b == BeginAttempt(e)
<1>1. b \in EngineState /\ e.generation \in Nat /\ o \in Outcome
  BY BeginAttemptType, GenerationNat, AuthenticateType
<1>2. /\ b.generation = e.generation + 1
      /\ Quiet(b) /\ b.retry = "off" /\ b.candidates = {}
      /\ b.state = e.state /\ b.internet = e.internet
      /\ b.suspended = e.suspended /\ b.manual_disconnect = e.manual_disconnect
      /\ b.config = e.config /\ b.adapter = e.adapter /\ b.spill = e.spill
  BY BeginAttemptFields DEF Quiet
<1>3. \/ o = Err(b)
      \/ \E r \in RefreshAdapters(b) : r.ok /\ o \in TryCandidates(r.eng)
  BY AuthenticateCases DEF Ready
<1> HIDE DEF b
<1>4. Ready(b) /\ Allowed(b) /\ ~Closed(b)
  BY <1>1, <1>2, SpillNat DEF Ready, Allowed, SpillPast, Closed
<1>5. CASE o = Err(b)
  <2>1. o.eng = b /\ ~o.ok
    BY <1>5 DEF Err
  <2>2. Shape(b)
    BY <1>2, <1>4 DEF Shape, Ready, Quiet
  <2>3. b.generation > e.generation
    BY <1>1, <1>2
  <2> QED BY <1>1, <1>2, <1>4, <2>1, <2>2, <2>3 DEF Attempted, Ready
<1>6. ASSUME NEW r \in RefreshAdapters(b), r.ok, o \in TryCandidates(r.eng)
      PROVE  Attempted(e, o)
  <2> DEFINE c == Select(r.eng)
             t == [r.eng EXCEPT !.candidates = c]
  <2>1. r.eng \in EngineState /\ Alike(b, r.eng)
    BY <1>1, RefreshSafe, RefreshType DEF Outcome
  <2>2. c \in SUBSET Adapters /\ \A a \in c : r.eng.config.iface \in {AutoIface, a}
    BY <2>1 DEF Select, EngineState
  <2>3. o \in NextCandidate(t)
    BY <1>6 DEF TryCandidates
  <2> HIDE DEF c
  <2>4. t \in EngineState
    BY <2>1, <2>2 DEF EngineState
  <2>5. /\ t.generation = r.eng.generation /\ t.candidates = c /\ t.retry = r.eng.retry
        /\ t.config = r.eng.config /\ t.spill = r.eng.spill
        /\ t.suspended = r.eng.suspended /\ t.manual_disconnect = r.eng.manual_disconnect
        /\ t.state = r.eng.state /\ t.internet = r.eng.internet
    BY <2>1 DEF EngineState
  <2> HIDE DEF t
  <2>6. Ready(t) /\ t.retry = "off" /\ t.generation = e.generation + 1
    BY <1>2, <1>4, <2>1, <2>5 DEF Ready, Alike, SpillPast
  <2>7. Allowed(t)
    BY <2>2, <2>5 DEF Allowed
  <2>8. /\ o.eng.generation > t.generation
        /\ Shape(o.eng) /\ SpillPast(o.eng) /\ ~Closed(o.eng) /\ o.eng.retry = "off"
        /\ IF o.ok THEN Settled(o.eng) ELSE Quiet(o.eng)
    BY <2>3, <2>4, <2>6, <2>7, NextCandidateSafe
  <2>9. o.eng.generation > e.generation
    <3>1. o.eng.generation \in Nat
      BY <1>1, GenerationNat DEF Outcome
    <3> QED BY <1>1, <2>6, <2>8, <3>1
  <2> QED BY <1>1, <2>8, <2>9 DEF Attempted
<1> QED BY <1>3, <1>5, <1>6

-----------------------------------------------------------------------------
(* The other methods, from an engine between two of them.                   *)

LEMMA ScannedSafe ==
  ASSUME NEW e \in EngineState, Good(e), NEW seen
  PROVE  LET d == Scanned(e, seen)
         IN /\ Good(d) /\ Later(e, d)
            /\ d.suspended = e.suspended /\ d.manual_disconnect = e.manual_disconnect
<1> DEFINE n == IF seen = {} /\ e.adapters # {} THEN 0 ELSE e.retry_attempt
           f == [e EXCEPT !.retry_attempt = n]
           j == Invalidate(f)
           i == [j EXCEPT !.adapter = None, !.retry = "off"]
<1>1. n \in Attempt
  BY Numbers DEF EngineState
<1>2. \/ Scanned(e, seen) = f
      \/ Scanned(e, seen) = Status(i, "Idle")
  BY DEF Scanned
<1> HIDE DEF n
<1>3. f \in EngineState /\ Alike(e, f)
  BY <1>1 DEF EngineState, Alike
<1> HIDE DEF f
<1>4. /\ j \in EngineState /\ j.generation = f.generation + 1 /\ Quiet(j)
      /\ j.candidates = f.candidates /\ j.spill = f.spill
      /\ j.suspended = f.suspended /\ j.manual_disconnect = f.manual_disconnect
      /\ j.config = f.config
  BY <1>3, InvalidateType, InvalidateFields DEF Quiet
<1> HIDE DEF j
<1>5. i \in EngineState
  BY <1>4 DEF EngineState, Deadline
<1>6. /\ i.generation = f.generation + 1 /\ Quiet(i) /\ i.retry = "off" /\ i.adapter = None
      /\ i.candidates = f.candidates /\ i.spill = f.spill
      /\ i.suspended = f.suspended /\ i.manual_disconnect = f.manual_disconnect
      /\ i.config = f.config
  BY <1>4 DEF EngineState, Quiet
<1> HIDE DEF i
<1>7. CASE Scanned(e, seen) = f
  BY <1>3, <1>7, AlikeSafe DEF Alike
<1>8. CASE Scanned(e, seen) = Status(i, "Idle")
  <2> DEFINE d == Status(i, "Idle")
  <2>1. /\ d.state = "Idle" /\ ~d.internet
        /\ d.generation = f.generation + 1 /\ Quiet(d) /\ d.retry = "off" /\ d.adapter = None
        /\ d.candidates = f.candidates /\ d.spill = f.spill
        /\ d.suspended = f.suspended /\ d.manual_disconnect = f.manual_disconnect
        /\ d.config = f.config
    BY <1>5, <1>6, StatusFields DEF Quiet
  <2> HIDE DEF d
  <2>2. e.generation \in Nat
    BY GenerationNat
  <2>3. d.generation > e.generation /\ SpillPast(d)
    BY <1>3, <2>1, <2>2, SpillNat DEF Alike, Good, SpillPast
  <2>4. Good(d)
    BY <1>3, <2>1, <2>3 DEF Good, Shape, Settled, Closed, Allowed, Alike, Quiet
  <2> QED BY <1>3, <1>8, <2>1, <2>3, <2>4 DEF Later, Alike, d
<1> QED BY <1>2, <1>7, <1>8

LEMMA GoodReady ==
  ASSUME NEW e, Good(e), ~e.manual_disconnect, ~e.suspended
  PROVE  Ready(e)
BY DEF Good, Ready, Shape

LEMMA LaterReflexive == ASSUME NEW e PROVE Later(e, e)
BY DEF Later

LEMMA ReconnectSafe ==
  ASSUME NEW e \in EngineState, Good(e), ~e.suspended, link \subseteq Adapters,
         NEW o \in Reconnect(e)
  PROVE  Sound(e, o)
<1>1. CASE o = Ok(e)
  BY <1>1, LaterReflexive, OutcomeType DEF Sound, Ok
<1>2. CASE o \in Authenticate(e) /\ ~e.manual_disconnect
  BY <1>2, GoodReady, AuthenticateSafe, AttemptedSound
<1> QED BY <1>1, <1>2 DEF Reconnect

LEMMA NetworkChangedSafe ==
  ASSUME NEW e \in EngineState, Good(e), link \subseteq Adapters, NEW o \in NetworkChanged(e)
  PROVE  Sound(e, o)
<1>1. CASE o = Ok(e)
  BY <1>1, LaterReflexive, OutcomeType DEF Sound, Ok
<1>2. ASSUME ~e.suspended, NEW r \in RefreshAdapters(e), o \in Reconnect(Scanned(r.eng, e.adapters))
      PROVE  Sound(e, o)
  <2> DEFINE s == Scanned(r.eng, e.adapters)
  <2>1. r.eng \in EngineState /\ Good(r.eng) /\ Later(e, r.eng) /\ ~r.eng.suspended
    BY <1>2, RefreshType, RefreshSafe, AlikeSafe DEF Outcome, Alike
  <2>2. s \in EngineState /\ Good(s) /\ Later(r.eng, s) /\ ~s.suspended
    BY <2>1, ScannedType, ScannedSafe
  <2>3. Sound(s, o)
    BY <1>2, <2>2, ReconnectSafe
  <2>4. o.eng \in EngineState /\ Later(s, o.eng)
    BY <2>3 DEF Sound, Outcome
  <2>5. Later(e, o.eng)
    BY <2>1, <2>2, <2>4, LaterTransitive
  <2> QED BY <2>3, <2>5 DEF Sound
<1> QED BY <1>1, <1>2 DEF NetworkChanged

LEMMA DrainNetworkSafe ==
  ASSUME NEW e \in EngineState, Good(e), link \subseteq Adapters, NEW p,
         NEW d \in DrainNetwork(e, p)
  PROVE  Good(d) /\ Later(e, d)
<1>1. \A o \in NetworkChanged(e) : Sound(e, o)
  BY NetworkChangedSafe
<1> QED BY <1>1, OrFailedSafe, LaterReflexive DEF DrainNetwork

LEMMA StartSafe ==
  ASSUME NEW e \in EngineState, Good(e), link \subseteq Adapters,
         ~e.manual_disconnect, ~e.suspended, e.candidates = {},
         NEW d \in Start(e)
  PROVE  Good(d) /\ Later(e, d)
<1> DEFINE S == UNION {IF r.ok /\ e.config.auto_auth THEN Authenticate(r.eng) ELSE {r} :
                         r \in RefreshAdapters(e)}
<1>1. ASSUME NEW o \in S PROVE Sound(e, o)
  <2>1. PICK r \in RefreshAdapters(e) :
          o \in IF r.ok /\ e.config.auto_auth THEN Authenticate(r.eng) ELSE {r}
    OBVIOUS
  <2>2. /\ r \in Outcome /\ r.eng \in EngineState /\ Good(r.eng) /\ Later(e, r.eng)
        /\ Ready(r.eng) /\ Allowed(r.eng)
    <3>1. r \in Outcome /\ Alike(e, r.eng)
      BY RefreshType, RefreshSafe
    <3>2. Ready(e) /\ Allowed(e)
      BY GoodReady DEF Allowed
    <3> QED BY <3>1, <3>2, AlikeSafe DEF Outcome
  <2>3. CASE o = r
    BY <2>2, <2>3 DEF Sound
  <2>4. CASE o \in Authenticate(r.eng)
    <3>1. Sound(r.eng, o)
      BY <2>2, <2>4, AuthenticateSafe, AttemptedSound
    <3>2. Later(e, o.eng)
      BY <2>2, <3>1, LaterTransitive DEF Sound, Outcome
    <3> QED BY <3>1, <3>2 DEF Sound
  <2> QED BY <2>1, <2>3, <2>4
<1>2. d \in OrFailed(S)
  BY DEF Start
<1> HIDE DEF S
<1> QED BY <1>1, <1>2, OrFailedSafe

LEMMA DrainPowerSafe ==
  ASSUME NEW e \in EngineState, Good(e), e.spill = <<>>, NEW p
  PROVE  LET d == DrainPower(e, p)
         IN /\ Good(d) /\ Later(e, d)
            /\ d.manual_disconnect = e.manual_disconnect
            /\ d.candidates \subseteq e.candidates
<1> DEFINE quiet == [Invalidate(e) EXCEPT !.candidates = {}, !.adapter = None,
                                          !.retry = "off", !.retry_attempt = 0]
           wanted == e.config.auto_auth /\ ~e.manual_disconnect
           r == IF wanted THEN "armed" ELSE "off"
           asleep == [quiet EXCEPT !.suspended = TRUE]
           awake == [quiet EXCEPT !.suspended = FALSE, !.retry = r]
<1>1. DrainPower(e, p) \in {e, Status(asleep, "Idle"), Status(awake, "Idle")}
  BY DEF DrainPower
<1>2. e.generation \in Nat
  BY GenerationNat
<1>3. r \in Deadline /\ r \in {"off", "armed"}
      /\ (r = "armed" => e.config.auto_auth /\ ~e.manual_disconnect)
  BY DEF Deadline
<1> HIDE DEF r, wanted
<1>4. quiet \in EngineState
  BY InvalidateType, Numbers, ZenonT(60) DEF EngineState, Deadline
<1>5. /\ quiet.generation = e.generation + 1 /\ Quiet(quiet) /\ quiet.adapter = None
      /\ quiet.candidates = {} /\ quiet.retry = "off" /\ quiet.spill = e.spill
      /\ quiet.manual_disconnect = e.manual_disconnect /\ quiet.config = e.config
  BY InvalidateType, InvalidateFields DEF EngineState, Quiet
<1> HIDE DEF quiet
<1>6. ASSUME NEW m \in {asleep, awake}
      PROVE  LET d == Status(m, "Idle")
             IN /\ Good(d) /\ Later(e, d)
                /\ d.manual_disconnect = e.manual_disconnect /\ d.candidates = {}
  <2> DEFINE Still(x) == /\ x.generation = e.generation + 1 /\ Quiet(x) /\ x.adapter = None
                         /\ x.candidates = {} /\ x.spill = e.spill
                         /\ x.manual_disconnect = e.manual_disconnect /\ x.config = e.config
                         /\ x.retry = "off" \/ (x.retry = r /\ ~x.suspended)
  <2>1. asleep \in EngineState /\ Still(asleep)
    BY <1>4, <1>5 DEF EngineState, Quiet
  <2>2. awake \in EngineState /\ Still(awake)
    BY <1>3, <1>4, <1>5, ZenonT(60) DEF EngineState, Quiet
  <2> HIDE DEF asleep, awake
  <2>3. m \in EngineState
    BY <2>1, <2>2
  <2>4. /\ m.generation = e.generation + 1 /\ Quiet(m) /\ m.adapter = None
        /\ m.candidates = {} /\ m.spill = e.spill
        /\ m.manual_disconnect = e.manual_disconnect /\ m.config = e.config
        /\ m.retry = "off" \/ (m.retry = r /\ ~m.suspended)
    BY <2>1, <2>2
  <2> HIDE DEF Still
  <2> DEFINE d == Status(m, "Idle")
  <2>5. /\ d.state = "Idle" /\ ~d.internet
        /\ d.generation = e.generation + 1 /\ Quiet(d) /\ d.adapter = None
        /\ d.candidates = {} /\ d.spill = e.spill
        /\ d.manual_disconnect = e.manual_disconnect /\ d.config = e.config
        /\ d.retry = "off" \/ (d.retry = r /\ ~d.suspended)
    BY <2>3, <2>4, StatusFields DEF Quiet
  <2> HIDE DEF d
  <2>6. d.generation > e.generation /\ SpillPast(d)
    BY <1>2, <2>5 DEF SpillPast
  <2>7. Good(d)
    BY <1>3, <2>5, <2>6 DEF Good, Shape, Settled, Quiet
  <2> QED BY <2>5, <2>6, <2>7 DEF Later, d
<1> HIDE DEF asleep, awake
<1>7. CASE DrainPower(e, p) = e
  BY <1>7, LaterReflexive
<1> QED BY <1>1, <1>6, <1>7

LEMMA ConfiguredSafe ==
  ASSUME NEW e \in EngineState, Good(e), e.spill = <<>>, NEW c \in Configs
  PROVE  LET d == Configured(e, c)
         IN /\ Good(d) /\ Later(e, d)
            /\ d.suspended = e.suspended /\ d.manual_disconnect = e.manual_disconnect
<1> DEFINE changed == e.config.account # c.account \/ e.config.iface # c.iface
           enabled == ~e.config.auto_auth /\ c.auto_auth
           n == IF enabled THEN 0 ELSE e.retry_attempt
           r == IF c.auto_auth THEN e.retry ELSE "off"
           set == [e EXCEPT !.config = c, !.retry_attempt = n, !.retry = r]
           j == Invalidate(set)
           i == [j EXCEPT !.retry = "off", !.retry_attempt = 0]
<1>1. n \in Attempt /\ r \in Deadline /\ c \in Config /\ e.generation \in Nat
  BY EngineAssumption, Numbers, GenerationNat DEF EngineState, Deadline
<1>2. Configured(e, c) = IF changed THEN Status(i, "Idle") ELSE set
  BY DEF Configured
<1>3. (~c.auto_auth => r = "off") /\ (r = "off" \/ r = e.retry)
  OBVIOUS
<1>4. ~changed => c.iface = e.config.iface
  OBVIOUS
<1> HIDE DEF n, r, changed
<1>5. /\ set \in EngineState /\ set.config = c /\ set.retry = r
      /\ set.state = e.state /\ set.internet = e.internet
      /\ set.suspended = e.suspended /\ set.manual_disconnect = e.manual_disconnect
      /\ set.adapter = e.adapter /\ set.candidates = e.candidates
      /\ set.session = e.session /\ set.probe = e.probe /\ set.generation = e.generation
      /\ set.handshake = e.handshake /\ set.start = e.start /\ set.spill = e.spill
  BY <1>1 DEF EngineState
<1> HIDE DEF set
<1>6. CASE ~changed
  <2>1. Configured(e, c) = set /\ c.iface = e.config.iface
    BY <1>2, <1>4, <1>6
  <2>2. Good(set)
    BY <1>3, <1>5, <2>1 DEF Good, Shape, Settled, SpillPast, Closed, Allowed
  <2>3. Later(e, set)
    BY <1>5, <2>1 DEF Later, Closed, Allowed
  <2> QED BY <1>5, <2>1, <2>2, <2>3
<1>7. CASE changed
  <2>1. /\ j \in EngineState /\ j.generation = e.generation + 1 /\ Quiet(j)
        /\ j.candidates = e.candidates /\ j.spill = e.spill /\ j.adapter = e.adapter
        /\ j.suspended = e.suspended /\ j.manual_disconnect = e.manual_disconnect
        /\ j.config = c
    BY <1>5, InvalidateType, InvalidateFields DEF Quiet
  <2> HIDE DEF j
  <2>2. /\ i \in EngineState /\ i.generation = e.generation + 1 /\ Quiet(i)
        /\ i.candidates = e.candidates /\ i.spill = e.spill /\ i.adapter = e.adapter
        /\ i.suspended = e.suspended /\ i.manual_disconnect = e.manual_disconnect
        /\ i.config = c /\ i.retry = "off"
    BY <2>1, Numbers, ZenonT(60) DEF EngineState, Deadline, Quiet
  <2> HIDE DEF i
  <2> DEFINE d == Status(i, "Idle")
  <2>3. /\ d.state = "Idle" /\ ~d.internet
        /\ d.generation = e.generation + 1 /\ Quiet(d)
        /\ d.candidates = e.candidates /\ d.spill = e.spill /\ d.adapter = e.adapter
        /\ d.suspended = e.suspended /\ d.manual_disconnect = e.manual_disconnect
        /\ d.retry = "off"
    BY <2>2, StatusFields DEF Quiet
  <2>4. Configured(e, c) = d
    BY <1>2, <1>7
  <2> HIDE DEF d
  <2>5. d.generation > e.generation /\ SpillPast(d)
    BY <1>1, <2>3 DEF SpillPast
  <2>6. Good(d)
    BY <2>3, <2>5 DEF Good, Shape, Settled, Quiet
  <2> QED BY <2>3, <2>4, <2>5, <2>6 DEF Later
<1> QED BY <1>6, <1>7

LEMMA ApplyConfigSafe ==
  ASSUME NEW e \in EngineState, Good(e), e.spill = <<>>, link \subseteq Adapters,
         NEW c \in Configs, NEW d \in ApplyConfig(e, c)
  PROVE  Good(d) /\ Later(e, d)
<1> DEFINE f == Configured(e, c)
<1>1. /\ f \in EngineState /\ Good(f) /\ Later(e, f)
      /\ f.suspended = e.suspended /\ f.manual_disconnect = e.manual_disconnect
  BY ConfiguredType, ConfiguredSafe
<1>2. \/ d = f
      \/ ~e.manual_disconnect /\ ~e.suspended /\ d \in OrFailed(Authenticate(f))
  BY DEF ApplyConfig
<1> HIDE DEF f
<1>3. CASE ~e.manual_disconnect /\ ~e.suspended /\ d \in OrFailed(Authenticate(f))
  <2>1. \A o \in Authenticate(f) : Sound(f, o)
    BY <1>1, <1>3, GoodReady, AuthenticateSafe, AttemptedSound
  <2>2. Good(d) /\ Later(f, d)
    BY <1>1, <1>3, <2>1, OrFailedSafe
  <2>3. d \in EngineState
    <3>1. Authenticate(f) \subseteq Outcome
      BY <1>1, AuthenticateType
    <3> QED BY <1>3, <3>1, OrFailedType
  <2> QED BY <1>1, <2>2, <2>3, LaterTransitive
<1> QED BY <1>1, <1>2, <1>3

LEMMA ConnectSafe ==
  ASSUME NEW e \in EngineState, SpillPast(e), e.internet <=> e.state = "Authenticated",
         ~e.suspended, link \subseteq Adapters, NEW d \in Connect(e)
  PROVE  Good(d) /\ d.generation > e.generation
<1> DEFINE asked == [e EXCEPT !.manual_disconnect = FALSE, !.retry_attempt = 0]
<1>1. asked \in EngineState
  BY Numbers DEF EngineState
<1>2. /\ ~asked.manual_disconnect /\ asked.suspended = e.suspended
      /\ asked.state = e.state /\ asked.internet = e.internet
      /\ asked.spill = e.spill /\ asked.generation = e.generation
  BY DEF EngineState
<1>3. PICK o \in Authenticate(asked) : d = IF o.ok THEN o.eng ELSE Status(o.eng, "Failed")
  BY DEF Connect
<1> HIDE DEF asked
<1>4. Attempted(asked, o)
  <2>1. Ready(asked)
    BY <1>2 DEF Ready, SpillPast
  <2> QED BY <1>1, <1>3, <2>1, AuthenticateSafe
<1>5. CASE o.ok
  BY <1>2, <1>3, <1>4, <1>5 DEF Attempted, Good
<1>6. CASE ~o.ok
  <2> DEFINE f == o.eng
             s == Status(f, "Failed")
  <2>1. /\ f \in EngineState /\ f.generation > e.generation
        /\ Shape(f) /\ SpillPast(f) /\ ~Closed(f) /\ Quiet(f) /\ f.retry = "off"
    BY <1>2, <1>4, <1>6 DEF Attempted, Outcome
  <2> HIDE DEF f
  <2>2. /\ s.state = "Failed" /\ ~s.internet
        /\ s.suspended = f.suspended /\ s.manual_disconnect = f.manual_disconnect
        /\ s.config = f.config /\ s.adapter = f.adapter
        /\ s.candidates = f.candidates /\ s.session = f.session /\ s.probe = f.probe
        /\ s.generation = f.generation /\ s.retry = f.retry
        /\ s.handshake = f.handshake /\ s.start = f.start /\ s.spill = f.spill
    BY <2>1, StatusFields
  <2>3. d = s
    BY <1>3, <1>6 DEF f
  <2> HIDE DEF s
  <2>4. Good(s)
    BY <2>1, <2>2 DEF Good, Shape, Settled, SpillPast, Closed, Allowed, Quiet
  <2> QED BY <2>1, <2>2, <2>3, <2>4
<1> QED BY <1>5, <1>6

LEMMA LogoffSafe ==
  ASSUME NEW e \in EngineState, Good(e), e.spill = <<>>
  PROVE  Good(Logoff(e)) /\ Later(e, Logoff(e))
<1> DEFINE j == Invalidate(e)
           i == [j EXCEPT !.manual_disconnect = TRUE, !.retry = "off", !.candidates = {}]
           d == Status(i, "Idle")
<1>1. /\ j \in EngineState /\ j.generation = e.generation + 1 /\ Quiet(j)
      /\ j.spill = e.spill /\ j.adapter = e.adapter /\ j.suspended = e.suspended
      /\ j.config = e.config
  BY InvalidateType, InvalidateFields DEF Quiet
<1>2. Logoff(e) = d
  BY DEF Logoff
<1> HIDE DEF j
<1>3. /\ i \in EngineState /\ i.generation = e.generation + 1 /\ Quiet(i)
      /\ i.spill = e.spill /\ i.adapter = e.adapter /\ i.suspended = e.suspended
      /\ i.config = e.config /\ i.manual_disconnect /\ i.retry = "off" /\ i.candidates = {}
  BY <1>1, ZenonT(60) DEF EngineState, Deadline, Quiet
<1> HIDE DEF i
<1>4. /\ d.state = "Idle" /\ ~d.internet
      /\ d.generation = e.generation + 1 /\ Quiet(d)
      /\ d.spill = e.spill /\ d.adapter = e.adapter /\ d.suspended = e.suspended
      /\ d.config = e.config /\ d.manual_disconnect /\ d.retry = "off" /\ d.candidates = {}
  BY <1>3, StatusFields DEF Quiet
<1> HIDE DEF d
<1>5. e.generation \in Nat
  BY GenerationNat
<1>6. d.generation > e.generation /\ SpillPast(d)
  BY <1>4, <1>5 DEF SpillPast
<1>7. Good(d)
  BY <1>4, <1>6 DEF Good, Shape, Settled, Quiet
<1> QED BY <1>2, <1>6, <1>7 DEF Later

LEMMA HandleCallSafe ==
  ASSUME NEW e \in EngineState, Good(e), e.spill = <<>>, link \subseteq Adapters,
         NEW c \in Calls, NEW d \in HandleCall(e, c)
  PROVE  Good(d) /\ Later(e, d)
<1>1. c.action \in {"set_config", "connect"} => c.config \in Configs
  BY EngineAssumption DEF Call
<1>2. Good(e) /\ Later(e, e)
  BY LaterReflexive
<1>3. CASE c.action = "authenticate"
  <2>1. d \in Connect(e)
    BY <1>3 DEF HandleCall
  <2>2. CASE e.suspended
    BY <1>2, <2>1, <2>2 DEF Connect
  <2>3. CASE ~e.suspended
    BY <2>1, <2>3, ConnectSafe DEF Good, Shape, Later
  <2> QED BY <2>2, <2>3
<1>4. CASE c.action = "logoff"
  BY <1>4, LogoffSafe DEF HandleCall
<1>5. CASE c.action = "interfaces"
  BY <1>5, RefreshSafe, AlikeSafe DEF HandleCall
<1>6. CASE c.action = "set_config"
  BY <1>1, <1>2, <1>6, ApplyConfigSafe DEF HandleCall
<1>7. CASE c.action = "connect"
  <2> DEFINE n == c.config
             f == [e EXCEPT !.config = n]
  <2>1. n \in Config
    BY <1>1, <1>7, EngineAssumption
  <2>2. d = e \/ (~e.suspended /\ d \in Connect(f))
    BY <1>7 DEF HandleCall
  <2> HIDE DEF n
  <2>3. /\ f \in EngineState /\ f.spill = e.spill /\ f.internet = e.internet
        /\ f.state = e.state /\ f.suspended = e.suspended /\ f.generation = e.generation
    BY <2>1 DEF EngineState
  <2> HIDE DEF f
  <2>4. SpillPast(f) /\ (f.internet <=> f.state = "Authenticated")
    BY <2>3 DEF Good, Shape, SpillPast
  <2> QED BY <1>2, <2>2, <2>3, <2>4, ConnectSafe DEF Later
<1>8. c.action \in {"authenticate", "logoff", "interfaces", "set_config", "connect"}
  BY EngineAssumption DEF Call
<1> QED BY <1>3, <1>4, <1>5, <1>6, <1>7, <1>8

\* What a callback may assume of the engine it finds.
Expected(e, g) == g = e.generation => ~Closed(e)

\* Only deadlines are switched off; a handshake that is over leaves a probe.
LEMMA CalmedSafe ==
  ASSUME NEW e, Good(e), ~Closed(e), NEW d,
         d.state = e.state, d.internet = e.internet,
         d.suspended = e.suspended, d.manual_disconnect = e.manual_disconnect,
         d.config = e.config, d.adapter = e.adapter, d.candidates = e.candidates,
         d.session = e.session, d.probe = e.probe, d.generation = e.generation,
         d.retry = e.retry, d.spill = e.spill, d.start = "off",
         \/ d.handshake = e.handshake
         \/ d.handshake = "off" /\ (e.state = "Authenticated" \/ e.probe # None)
  PROVE  Good(d) /\ Later(e, d)
BY DEF Good, Shape, Settled, SpillPast, Closed, Allowed, Later

LEMMA PacketSafe ==
  ASSUME NEW e \in EngineState, Good(e), NEW g, Expected(e, g), NEW f \in Frames,
         NEW d \in Packet(e, g, f)
  PROVE  Good(d) /\ Later(e, d)
<1> DEFINE online == e.state = "Authenticated" \/ e.probe # None
           h == Heard(e, f, online)
           a == Granted(e)
           t == Status(a, "Authenticating")
<1>1. CASE d = e
  BY <1>1, LaterReflexive
<1>2. CASE g = e.generation
  <2>1. ~Closed(e) /\ ~e.manual_disconnect /\ ~e.suspended /\ Allowed(e)
    BY <1>2 DEF Expected, Closed
  <2>2. Ready(e)
    BY <2>1, GoodReady
  <2>3. h \in EngineState /\ Alike(e, h)
    BY HeardType DEF Heard, Alike, EngineState
  <2>4. /\ a \in EngineState
        /\ a.state = e.state /\ a.internet = e.internet
        /\ a.suspended = e.suspended /\ a.manual_disconnect = e.manual_disconnect
        /\ a.config = e.config /\ a.adapter = e.adapter /\ a.candidates = e.candidates
        /\ a.session = e.session /\ a.probe = e.probe /\ a.generation = e.generation
        /\ a.retry = e.retry /\ a.spill = e.spill /\ a.start = "off" /\ a.handshake = "off"
    BY ProbingType DEF Granted, EngineState
  <2>5. \A x \in EngineState : \A y \in Failed(x) :
           Ready(x) /\ Allowed(x) /\ x.generation = e.generation => Good(y) /\ Later(e, y)
    BY FailedSafe DEF Later
  <2>6. CASE d = [h EXCEPT !.start = "off"]
    <3> HIDE DEF h
    <3>1. /\ d.start = "off" /\ d.handshake = h.handshake
          /\ d.state = h.state /\ d.internet = h.internet
          /\ d.suspended = h.suspended /\ d.manual_disconnect = h.manual_disconnect
          /\ d.config = h.config /\ d.adapter = h.adapter /\ d.candidates = h.candidates
          /\ d.session = h.session /\ d.probe = h.probe /\ d.generation = h.generation
          /\ d.retry = h.retry /\ d.spill = h.spill
      BY <2>3, <2>6 DEF EngineState
    <3> QED BY <2>1, <2>3, <3>1, CalmedSafe DEF Alike
  <2>7. CASE d \in Failed(h)
    <3>1. Ready(h) /\ Allowed(h) /\ h.generation = e.generation
      BY <2>1, <2>2, <2>3, AlikeSafe DEF Alike
    <3> QED BY <2>3, <2>5, <2>7, <3>1
  <2>8. CASE online /\ d = a
    <3> HIDE DEF a
    <3> QED BY <2>1, <2>4, <2>8, CalmedSafe
  <2> HIDE DEF a
  <2>9. /\ t \in EngineState /\ t.state = "Authenticating" /\ ~t.internet
        /\ t.suspended = e.suspended /\ t.manual_disconnect = e.manual_disconnect
        /\ t.config = e.config /\ t.adapter = e.adapter /\ t.candidates = e.candidates
        /\ t.session = e.session /\ t.probe = e.probe /\ t.generation = e.generation
        /\ t.retry = e.retry /\ t.spill = e.spill /\ t.start = "off" /\ t.handshake = "off"
    BY <2>4, StatusType, StatusFields DEF States
  <2>10. CASE ~online /\ d \in Failed(t)
    <3> HIDE DEF t
    <3>1. Ready(t) /\ Allowed(t)
      BY <2>1, <2>2, <2>9 DEF Ready, Allowed, SpillPast
    <3> QED BY <2>5, <2>9, <2>10, <3>1
  <2>11. CASE ~online /\ d = Probing(e)
    <3> DEFINE p == [gen |-> e.generation, result |-> "running"]
    <3>1. p \in Probe /\ p # None /\ p.gen = e.generation
      <4>1. p \in Probe
        BY DEF Probe, EngineState
      <4> QED BY <4>1, EngineAssumption
    <3>2. d = [t EXCEPT !.probe = p]
      BY <2>11 DEF Probing, a
    <3> HIDE DEF p, t
    <3>3. /\ d.probe = p
          /\ d.start = "off" /\ d.handshake = "off"
          /\ d.state = "Authenticating" /\ ~d.internet
          /\ d.suspended = e.suspended /\ d.manual_disconnect = e.manual_disconnect
          /\ d.config = e.config /\ d.adapter = e.adapter /\ d.candidates = e.candidates
          /\ d.session = e.session /\ d.generation = e.generation
          /\ d.retry = e.retry /\ d.spill = e.spill
      BY <2>9, <3>2 DEF EngineState
    <3>4. Good(d)
      BY <2>1, <3>1, <3>3 DEF Good, Shape, Settled, SpillPast, Closed, Allowed
    <3> QED BY <2>1, <3>3, <3>4 DEF Later, Closed, Allowed
  <2>12. CASE d \in Failed(e)
    BY <2>1, <2>2, <2>5, <2>12
  <2> HIDE DEF online, h, t
  <2> QED BY <1>1, <2>6, <2>7, <2>8, <2>10, <2>11, <2>12, PacketCases DEF online, h, a, t
<1> HIDE DEF online, h, a, t
<1> QED BY <1>1, <1>2, PacketCases

LEMMA CaptureErrorSafe ==
  ASSUME NEW e \in EngineState, Good(e), NEW g, Expected(e, g), NEW d \in CaptureError(e, g)
  PROVE  Good(d) /\ Later(e, d)
<1>1. CASE g = e.generation
  <2>1. Ready(e) /\ Allowed(e) /\ d \in Failed(e)
    BY <1>1, GoodReady DEF Expected, Closed, CaptureError
  <2> QED BY <2>1, FailedSafe DEF Later
<1> QED BY <1>1, LaterReflexive DEF CaptureError

LEMMA ConnectivitySafe ==
  ASSUME NEW e \in EngineState, Good(e), NEW g, Expected(e, g),
         g = e.generation => e.handshake = "off" /\ e.start = "off",
         link \subseteq Adapters, NEW up, NEW d \in Connectivity(e, g, up)
  PROVE  Good(d) /\ Later(e, d)
<1> DEFINE p == [e EXCEPT !.probe = None]
           o == Online(e)
<1>1. CASE g # e.generation
  BY <1>1, LaterReflexive DEF Connectivity
<1>2. CASE g = e.generation /\ up
  <2>1. PICK r \in RefreshAdapters(o) : d = r.eng
    BY <1>2 DEF Connectivity
  <2> DEFINE c == IF e.adapter = None THEN e.cache ELSE e.adapter
             m == [e EXCEPT !.probe = None, !.candidates = {}, !.retry_attempt = 0, !.retry = "off"]
  <2>2. o = [m EXCEPT !.cache = c, !.state = "Authenticated", !.internet = TRUE]
    BY DEF Online
  <2> HIDE DEF c
  <2>3. /\ m \in EngineState
        /\ m.probe = None /\ m.candidates = {} /\ m.retry = "off"
        /\ m.suspended = e.suspended /\ m.manual_disconnect = e.manual_disconnect
        /\ m.config = e.config /\ m.adapter = e.adapter
        /\ m.session = e.session /\ m.generation = e.generation
        /\ m.handshake = e.handshake /\ m.start = e.start /\ m.spill = e.spill
    BY Numbers DEF EngineState, Deadline
  <2> HIDE DEF m
  <2>4. /\ o.state = "Authenticated" /\ o.internet = TRUE
        /\ o.probe = None /\ o.candidates = {} /\ o.retry = "off"
        /\ o.suspended = e.suspended /\ o.manual_disconnect = e.manual_disconnect
        /\ o.config = e.config /\ o.adapter = e.adapter
        /\ o.session = e.session /\ o.generation = e.generation
        /\ o.handshake = e.handshake /\ o.start = e.start /\ o.spill = e.spill
    BY <2>2, <2>3 DEF EngineState
  <2>5. o \in EngineState
    BY OnlineType
  <2> HIDE DEF o
  <2>6. ~e.manual_disconnect /\ ~e.suspended
    BY <1>2 DEF Expected, Closed
  <2>7. Good(o)
    BY <1>2, <2>4, <2>6 DEF Good, Shape, Settled, SpillPast, Closed, Allowed
  <2>8. Later(e, o)
    BY <2>4, <2>6 DEF Later, Closed, Allowed
  <2>9. Good(d) /\ Later(o, d) /\ d \in EngineState
    BY <2>1, <2>5, <2>7, RefreshSafe, RefreshType, AlikeSafe DEF Outcome
  <2> QED BY <2>5, <2>8, <2>9, LaterTransitive
<1>3. CASE g = e.generation /\ ~up
  <2>1. d \in Failed(p)
    BY <1>3 DEF Connectivity
  <2>2. /\ p \in EngineState /\ p.generation = e.generation
        /\ p.suspended = e.suspended /\ p.manual_disconnect = e.manual_disconnect
        /\ p.state = e.state /\ p.internet = e.internet /\ p.spill = e.spill
        /\ p.candidates = e.candidates /\ p.config = e.config
    BY DEF EngineState
  <2> HIDE DEF p
  <2>3. Ready(p) /\ Allowed(p)
    BY <1>3, <2>2 DEF Good, Shape, Ready, Allowed, SpillPast, Expected, Closed
  <2> QED BY <2>1, <2>2, <2>3, FailedSafe DEF Later
<1> QED BY <1>1, <1>2, <1>3

-----------------------------------------------------------------------------
(* The queue.                                                              *)

AllFresh(q, e) == \A i \in DOMAIN q : Fresh(q[i], e)

LEMMA CallbackNat ==
  ASSUME NEW ev \in Event, ev.type \in Callbacks
  PROVE  ev.gen \in Nat
BY EventFields DEF Callbacks, Generation

LEMMA FreshLater ==
  ASSUME NEW e \in EngineState, NEW d \in EngineState, Later(e, d),
         NEW ev \in Event, Fresh(ev, e)
  PROVE  Fresh(ev, d)
<1> SUFFICES ASSUME ev.type \in Callbacks PROVE Fresh(ev, d)
  BY DEF Fresh
<1>1. ev.gen \in Nat /\ e.generation \in Nat /\ d.generation \in Nat
  BY CallbackNat, GenerationNat
<1> QED BY <1>1 DEF Fresh, Later

LEMMA AppendFresh ==
  ASSUME NEW e, NEW q \in Seq(Event), AllFresh(q, e), NEW ev \in Event, Fresh(ev, e)
  PROVE  AllFresh(Append(q, ev), e)
<1> SUFFICES ASSUME NEW i \in DOMAIN Append(q, ev) PROVE Fresh(Append(q, ev)[i], e)
  BY DEF AllFresh
<1>1. i \in 1..Len(q) \/ i = Len(q) + 1
  OBVIOUS
<1>2. CASE i \in 1..Len(q)
  <2>1. Append(q, ev)[i] = q[i] /\ i \in DOMAIN q
    BY <1>2
  <2> QED BY <2>1 DEF AllFresh
<1>3. CASE i = Len(q) + 1
  <2>1. Append(q, ev)[i] = ev
    BY <1>3
  <2> QED BY <2>1
<1> QED BY <1>1, <1>2, <1>3

LEMMA TailFresh ==
  ASSUME NEW e, NEW q \in Seq(Event), q # <<>>, AllFresh(q, e)
  PROVE  AllFresh(Tail(q), e) /\ Fresh(Head(q), e)
<1>1. 1 \in DOMAIN q /\ Head(q) = q[1]
  OBVIOUS
<1>2. ASSUME NEW i \in DOMAIN Tail(q) PROVE Fresh(Tail(q)[i], e)
  <2>1. Tail(q)[i] = q[i + 1] /\ i + 1 \in DOMAIN q
    BY <1>2
  <2> QED BY <2>1 DEF AllFresh
<1> QED BY <1>1, <1>2 DEF AllFresh

LEMMA ConcatFresh ==
  ASSUME NEW e, NEW q \in Seq(Event), NEW s \in Seq(Event), AllFresh(q, e), AllFresh(s, e)
  PROVE  AllFresh(q \o s, e)
<1> SUFFICES ASSUME NEW i \in DOMAIN (q \o s) PROVE Fresh((q \o s)[i], e)
  BY DEF AllFresh
<1>1. Len(q) \in Nat /\ Len(s) \in Nat /\ i \in 1..(Len(q) + Len(s))
  OBVIOUS
<1>2. CASE i <= Len(q)
  <2>1. (q \o s)[i] = q[i] /\ i \in DOMAIN q
    BY <1>1, <1>2
  <2> QED BY <2>1 DEF AllFresh
<1>3. CASE i > Len(q)
  <2>1. (q \o s)[i] = s[i - Len(q)] /\ i - Len(q) \in DOMAIN s
    BY <1>1, <1>3
  <2> QED BY <2>1 DEF AllFresh
<1> QED BY <1>1, <1>2, <1>3

\* What a dropped capture delivered is of a generation that is over, or of
\* one that was not closed.
LEMMA SpillFresh ==
  ASSUME NEW e \in EngineState, Good(e)
  PROVE  e.spill \in Seq(Event) /\ AllFresh(e.spill, e)
<1>1. e.spill \in Seq(Reports)
  BY DEF EngineState
<1>2. e.spill \in Seq(Event)
  <2>1. Reports \subseteq Event
    BY DEF Event
  <2> QED BY <1>1, <2>1
<1>3. ASSUME NEW i \in DOMAIN e.spill PROVE Fresh(e.spill[i], e)
  <2>1. e.spill[i] \in Reports /\ e.spill # <<>>
    BY <1>1
  <2>2. e.spill[i].type \in {"packet", "capture_error"}
    BY <2>1 DEF Reports
  <2>3. ~Closed(e) /\ e.spill[i].gen <= e.generation
    BY <2>1 DEF Good, Shape, SpillPast
  <2> QED BY <2>2, <2>3 DEF Fresh
<1> QED BY <1>2, <1>3 DEF AllFresh

LEMMA BecomeSafe ==
  ASSUME eng \in EngineState, NEW e \in EngineState, Good(e), Later(eng, e),
         NEW q \in Seq(Event), AllFresh(q, eng), Become(e, q)
  PROVE  /\ Good(eng') /\ Later(eng, eng') /\ AllFresh(queue', eng')
         /\ eng' \in EngineState
<1> DEFINE d == [e EXCEPT !.spill = <<>>]
           both == q \o e.spill
<1>1. <<>> \in Seq(Reports)
  OBVIOUS
<1> HIDE DEF both
<1>2. d \in EngineState
  BY <1>1 DEF EngineState
<1>3. /\ d.spill = <<>>
      /\ d.state = e.state /\ d.internet = e.internet
      /\ d.suspended = e.suspended /\ d.manual_disconnect = e.manual_disconnect
      /\ d.config = e.config /\ d.adapter = e.adapter /\ d.candidates = e.candidates
      /\ d.session = e.session /\ d.probe = e.probe /\ d.generation = e.generation
      /\ d.retry = e.retry /\ d.handshake = e.handshake /\ d.start = e.start
  BY DEF EngineState
<1>4. eng' = d
  BY DEF Become
<1> HIDE DEF d
<1>5. Good(d)
  BY <1>3 DEF Good, Shape, Settled, SpillPast, Closed, Allowed
<1>6. Later(eng, d)
  BY <1>3 DEF Later, Closed, Allowed
<1>7. \A ev : Fresh(ev, e) => Fresh(ev, d)
  BY <1>3 DEF Fresh, Closed, Allowed
<1>8. AllFresh(q, e)
  <2>1. \A i \in DOMAIN q : q[i] \in Event
    OBVIOUS
  <2> QED BY <2>1, FreshLater DEF AllFresh
<1>9. both \in Seq(Event) /\ AllFresh(both, d)
  <2>1. e.spill \in Seq(Event)
    BY SpillFresh
  <2>2. AllFresh(both, e)
    BY <1>8, <2>1, SpillFresh, ConcatFresh DEF both
  <2> QED BY <1>7, <2>1, <2>2 DEF AllFresh, both
<1>10. queue' = both \/ (queue' = SubSeq(both, 1, QueueCap) /\ Len(both) > QueueCap)
  BY DEF Become, both
<1> HIDE DEF both
<1>11. AllFresh(queue', d)
  <2>1. CASE queue' = SubSeq(both, 1, QueueCap) /\ Len(both) > QueueCap
    <3>1. QueueCap \in Nat /\ Len(both) \in Nat
      BY <1>9, EngineAssumption
    <3>2. \A i \in DOMAIN queue' : i \in DOMAIN both /\ queue'[i] = both[i]
      BY <1>9, <2>1, <3>1
    <3> QED BY <1>9, <3>2 DEF AllFresh
  <2> QED BY <1>9, <1>10, <2>1
<1> QED BY <1>2, <1>4, <1>5, <1>6, <1>11

-----------------------------------------------------------------------------
(* The steps.                                                              *)

\* IInv without the types.
Inner ==
  /\ Good(eng) /\ AllFresh(queue, eng)
  /\ pc = "dispatch" => Fresh(event, eng)
  /\ pc = "boot" => ~eng.manual_disconnect /\ ~eng.suspended /\ eng.candidates = {}

LEMMA InvSplit == IInv <=> TypeOK /\ Inner
BY DEF IInv, Inner, AllFresh

LEMMA InnerInit == Init => Inner
<1> SUFFICES ASSUME Init PROVE Inner
  OBVIOUS
<1>1. eng.state = "Idle" /\ ~eng.internet /\ ~eng.suspended /\ ~eng.manual_disconnect
      /\ eng.candidates = {} /\ eng.session = None /\ eng.probe = None /\ eng.retry = "off"
      /\ eng.handshake = "off" /\ eng.start = "off" /\ eng.spill = <<>>
  BY DEF Init
<1>2. Good(eng)
  BY <1>1 DEF Good, Shape, Settled, SpillPast
<1>3. queue = <<>> /\ pc = "boot"
  BY DEF Init
<1> QED BY <1>1, <1>2, <1>3 DEF Inner, AllFresh

\* What other threads queue.
LEMMA InnerWorld ==
  ASSUME TypeOK, Inner, World
  PROVE  Inner'
<1>1. eng' = eng /\ pc' = pc /\ event' = event
  BY DEF World, PowerNotify, NetworkNotify, StopNotify, LinkChange, ClientCall
<1>2. \/ queue' = queue
      \/ \E ev \in Event : ev.type \notin Callbacks /\ queue' = Append(queue, ev)
  <2>1. /\ [type |-> "power"] \in Event /\ [type |-> "network"] \in Event
        /\ [type |-> "stop"] \in Event
        /\ \A c \in Calls : [type |-> "call", call |-> c] \in Event
    BY DEF Event
  <2>2. CASE \E p \in Powers : PowerNotify(p)
    BY <2>1, <2>2 DEF PowerNotify, TrySend, Callbacks
  <2>3. CASE NetworkNotify
    BY <2>1, <2>3 DEF NetworkNotify, TrySend, Callbacks
  <2>4. CASE StopNotify
    BY <2>1, <2>4 DEF StopNotify, TrySend, Callbacks
  <2>5. CASE \E a \in Adapters : LinkChange(a)
    BY <2>5 DEF LinkChange
  <2>6. CASE \E c \in Calls : ClientCall(c)
    BY <2>1, <2>6 DEF ClientCall, Callbacks
  <2> QED BY <2>2, <2>3, <2>4, <2>5, <2>6 DEF World
<1>3. AllFresh(queue', eng)
  <2>1. CASE queue' = queue
    BY <2>1 DEF Inner
  <2>2. ASSUME NEW ev \in Event, ev.type \notin Callbacks, queue' = Append(queue, ev)
        PROVE  AllFresh(queue', eng)
    BY <2>2, AppendFresh DEF Fresh, Inner, TypeOK
  <2> QED BY <1>2, <2>1, <2>2
<1> QED BY <1>1, <1>3 DEF Inner

\* A reader or probe marks itself and queues what it has to say.
LEMMA InnerDeliver ==
  ASSUME TypeOK, Inner, NEW d \in EngineState, eng' = d,
         d.state = eng.state, d.internet = eng.internet,
         d.suspended = eng.suspended, d.manual_disconnect = eng.manual_disconnect,
         d.config = eng.config, d.adapter = eng.adapter, d.candidates = eng.candidates,
         d.generation = eng.generation, d.retry = eng.retry,
         d.handshake = eng.handshake, d.start = eng.start, d.spill = eng.spill,
         eng.session = None <=> d.session = None,
         d.session # None => /\ d.session.gen = eng.session.gen
                             /\ d.session.adapter = eng.session.adapter,
         eng.probe = None <=> d.probe = None,
         d.probe # None => d.probe.gen = eng.probe.gen,
         NEW ev \in Event, Fresh(ev, eng), queue' = Append(queue, ev),
         UNCHANGED <<pc, event>>
  PROVE  Inner'
<1>1. Good(d)
  BY DEF Inner, Good, Shape, Settled, SpillPast, Closed, Allowed
<1>2. \A x : Fresh(x, eng) => Fresh(x, d)
  BY DEF Fresh, Closed, Allowed
<1>3. AllFresh(queue', eng)
  BY AppendFresh DEF Inner, TypeOK
<1>4. AllFresh(queue', d)
  BY <1>2, <1>3 DEF AllFresh
<1> QED BY <1>1, <1>2, <1>4 DEF Inner

LEMMA InnerWorkers ==
  ASSUME TypeOK, Inner, Workers
  PROVE  Inner'
<1>1. eng \in EngineState /\ Shape(eng)
  BY DEF TypeOK, Inner, Good
<1>2. eng.session # None => /\ eng.session \in Session /\ eng.session.gen = eng.generation
                            /\ eng.generation \in Generation /\ ~Closed(eng)
  BY <1>1 DEF EngineState, Shape
<1>3. eng.probe # None => /\ eng.probe \in Probe /\ eng.probe.gen = eng.generation
                          /\ eng.generation \in Generation /\ ~Closed(eng)
                          /\ eng.handshake = "off" /\ eng.start = "off"
  BY <1>1 DEF EngineState, Shape
<1>4. eng.generation \in Nat
  BY <1>1, GenerationNat
<1>5. ASSUME NEW f \in Frames, Capture(f) PROVE Inner'
  <2> DEFINE ev == [type |-> "packet", gen |-> eng.session.gen, frame |-> f]
  <2>1. eng.session # None /\ queue' = Append(queue, ev) /\ UNCHANGED <<eng, pc, event>>
    BY <1>5 DEF Capture, Deliver
  <2>2. ev \in Event /\ Fresh(ev, eng)
    BY <1>2, <1>4, <2>1 DEF Event, Reports, Fresh
  <2> QED BY <1>1, <2>1, <2>2, InnerDeliver
<1>6. ASSUME CaptureFails PROVE Inner'
  <2> DEFINE ev == [type |-> "capture_error", gen |-> eng.session.gen]
             s == [eng.session EXCEPT !.reader = "closed"]
             d == [eng EXCEPT !.session = s]
  <2>1. eng.session # None /\ queue' = Append(queue, ev) /\ UNCHANGED <<pc, event>>
    BY <1>6 DEF CaptureFails, Deliver
  <2>2. eng' = d
    BY <1>6 DEF CaptureFails
  <2>3. ev \in Event /\ Fresh(ev, eng)
    BY <1>2, <1>4, <2>1 DEF Event, Reports, Fresh
  <2>4. s \in Session /\ s.gen = eng.session.gen /\ s.adapter = eng.session.adapter
    BY <1>2, <2>1 DEF Session
  <2>5. s # None
    BY <2>4, EngineAssumption
  <2> HIDE DEF s, ev
  <2>6. d \in EngineState
    BY <1>1, <2>4 DEF EngineState
  <2>7. /\ d.session = s /\ d.probe = eng.probe
        /\ d.state = eng.state /\ d.internet = eng.internet
        /\ d.suspended = eng.suspended /\ d.manual_disconnect = eng.manual_disconnect
        /\ d.config = eng.config /\ d.adapter = eng.adapter /\ d.candidates = eng.candidates
        /\ d.generation = eng.generation /\ d.retry = eng.retry
        /\ d.handshake = eng.handshake /\ d.start = eng.start /\ d.spill = eng.spill
    BY <1>1 DEF EngineState
  <2> HIDE DEF d
  <2> QED BY <2>1, <2>2, <2>3, <2>4, <2>5, <2>6, <2>7, InnerDeliver
<1>7. ASSUME NEW up \in BOOLEAN, ProbeEnds(up) PROVE Inner'
  <2> DEFINE ev == [type |-> "connectivity", gen |-> eng.probe.gen, up |-> up]
             r == IF up THEN "up" ELSE "down"
             p == [eng.probe EXCEPT !.result = r]
             d == [eng EXCEPT !.probe = p]
  <2>1. eng.probe # None /\ queue' = Append(queue, ev) /\ UNCHANGED <<pc, event>>
    BY <1>7 DEF ProbeEnds, Deliver
  <2>2. eng' = d
    BY <1>7 DEF ProbeEnds
  <2>3. ev \in Event /\ Fresh(ev, eng)
    BY <1>3, <1>4, <2>1 DEF Event, Fresh
  <2>4. r \in {"up", "down"}
    OBVIOUS
  <2> HIDE DEF r, ev
  <2>5. p \in Probe /\ p.gen = eng.probe.gen
    BY <1>3, <2>1, <2>4 DEF Probe
  <2>6. p # None
    BY <2>5, EngineAssumption
  <2> HIDE DEF p
  <2>7. d \in EngineState
    BY <1>1, <2>5 DEF EngineState
  <2>8. /\ d.probe = p /\ d.session = eng.session
        /\ d.state = eng.state /\ d.internet = eng.internet
        /\ d.suspended = eng.suspended /\ d.manual_disconnect = eng.manual_disconnect
        /\ d.config = eng.config /\ d.adapter = eng.adapter /\ d.candidates = eng.candidates
        /\ d.generation = eng.generation /\ d.retry = eng.retry
        /\ d.handshake = eng.handshake /\ d.start = eng.start /\ d.spill = eng.spill
    BY <1>1 DEF EngineState
  <2> HIDE DEF d
  <2> QED BY <2>1, <2>2, <2>3, <2>5, <2>6, <2>7, <2>8, InnerDeliver
<1> QED BY <1>5, <1>6, <1>7 DEF Workers

LEMMA InnerStopping ==
  ASSUME TypeOK, Inner, NEW q \in Seq(Event), AllFresh(q, eng), Stopping(q)
  PROVE  Inner'
<1> DEFINE i == Invalidate(eng)
           d == Status(i, "Stopped")
<1>1. eng \in EngineState /\ eng.spill = <<>> /\ Good(eng) /\ eng.generation \in Nat
  BY GenerationNat DEF TypeOK, Inner
<1>2. /\ i \in EngineState /\ i.generation = eng.generation + 1 /\ Quiet(i)
      /\ i.suspended = eng.suspended /\ i.manual_disconnect = eng.manual_disconnect
      /\ i.config = eng.config /\ i.adapter = eng.adapter
      /\ i.candidates = eng.candidates /\ i.retry = eng.retry /\ i.spill = <<>>
  BY <1>1, InvalidateType, InvalidateFields DEF Quiet
<1> HIDE DEF i
<1>3. /\ d \in EngineState /\ d.state = "Stopped" /\ ~d.internet
      /\ d.generation = eng.generation + 1 /\ Quiet(d)
      /\ d.suspended = eng.suspended /\ d.manual_disconnect = eng.manual_disconnect
      /\ d.config = eng.config /\ d.adapter = eng.adapter
      /\ d.candidates = eng.candidates /\ d.retry = eng.retry /\ d.spill = <<>>
  BY <1>2, StatusType, StatusFields DEF Quiet, States
<1>4. eng' = d /\ queue' = q /\ pc' = "done"
  BY DEF Stopping, i
<1> HIDE DEF d
<1>5. Good(d)
  BY <1>1, <1>3 DEF Good, Shape, Settled, SpillPast, Quiet
<1>6. Later(eng, d)
  BY <1>1, <1>3 DEF Later
<1>7. AllFresh(q, d)
  <2>1. \A j \in DOMAIN q : q[j] \in Event
    OBVIOUS
  <2> QED BY <1>1, <1>3, <1>6, <2>1, FreshLater DEF AllFresh
<1> QED BY <1>4, <1>5, <1>7 DEF Inner

LEMMA InnerDispatch ==
  ASSUME TypeOK, Inner, NEW type, NEW S, Dispatch(type, S),
         \A d \in S : d \in EngineState /\ Good(d) /\ Later(eng, d)
  PROVE  Inner'
<1>1. PICK d \in S : Become(d, queue)
  BY DEF Dispatch
<1>2. pc' = "tick"
  BY DEF Dispatch
<1>3. Good(eng') /\ AllFresh(queue', eng')
  BY <1>1, BecomeSafe DEF TypeOK, Inner
<1> QED BY <1>2, <1>3 DEF Inner

LEMMA InnerDue ==
  ASSUME TypeOK, Inner, NEW S, Due(S),
         \A d \in S : d \in EngineState /\ Good(d) /\ Later(eng, d)
  PROVE  Inner'
<1>1. PICK d \in S : Become(d, queue) /\ pc' \in {"due", "wait"}
  BY DEF Due
<1>2. Good(eng') /\ AllFresh(queue', eng')
  BY <1>1, BecomeSafe DEF TypeOK, Inner
<1> QED BY <1>1, <1>2 DEF Inner

LEMMA ExpireSafe ==
  ASSUME NEW e \in EngineState, Good(e), NEW due
  PROVE  Good(Expire(e, due)) /\ Later(e, Expire(e, due))
<1> DEFINE r == IF "retry" \in due /\ e.retry = "armed" THEN "expired" ELSE e.retry
           h == IF "handshake" \in due /\ e.handshake = "armed" THEN "expired" ELSE e.handshake
           s == IF "start" \in due /\ e.start = "armed" THEN "expired" ELSE e.start
           c == IF "reconcile" \in due THEN "expired" ELSE e.reconcile
           d == [e EXCEPT !.retry = r, !.handshake = h, !.start = s, !.reconcile = c]
<1>1. Expire(e, due) = d
  BY DEF Expire
<1>2. /\ r = "off" <=> e.retry = "off"
      /\ h = "off" <=> e.handshake = "off"
      /\ s = "off" <=> e.start = "off"
  OBVIOUS
<1> HIDE DEF r, h, s, c
<1>3. /\ d.retry = r /\ d.handshake = h /\ d.start = s
      /\ d.state = e.state /\ d.internet = e.internet
      /\ d.suspended = e.suspended /\ d.manual_disconnect = e.manual_disconnect
      /\ d.config = e.config /\ d.adapter = e.adapter /\ d.candidates = e.candidates
      /\ d.session = e.session /\ d.probe = e.probe /\ d.generation = e.generation
      /\ d.spill = e.spill
  BY DEF EngineState
<1> HIDE DEF d
<1>4. Good(d)
  BY <1>2, <1>3 DEF Good, Shape, Settled, SpillPast, Closed, Allowed
<1> QED BY <1>1, <1>2, <1>3, <1>4 DEF Later, Closed, Allowed

LEMMA InnerLoop ==
  ASSUME TypeOK, Inner,
         Boot \/ TakeEvent \/ Timeout \/ TickStopped \/ \E due \in Dues : TickDrain(due)
  PROVE  Inner'
<1> DEFINE drained == DrainPower(eng, power)
<1>1. eng \in EngineState /\ Good(eng) /\ eng.spill = <<>> /\ link \subseteq Adapters
      /\ queue \in Seq(Event) /\ Len(queue) <= QueueCap /\ AllFresh(queue, eng)
  BY DEF TypeOK, Inner
<1>2. /\ drained \in EngineState /\ Good(drained) /\ Later(eng, drained)
      /\ drained.manual_disconnect = eng.manual_disconnect
      /\ drained.candidates \subseteq eng.candidates
  BY <1>1, DrainPowerType, DrainPowerSafe
<1> HIDE DEF drained
<1>3. CASE Boot
  <2>1. PICK s \in IF drained.suspended \/ drained.retry # "off" THEN {drained} ELSE Start(drained) :
          Become(s, queue)
    BY <1>3 DEF Boot, drained
  <2>2. ~drained.manual_disconnect /\ drained.candidates = {}
    BY <1>2, <1>3 DEF Boot, Inner
  <2>3. s \in EngineState /\ Good(s) /\ Later(eng, s)
    <3>1. CASE s = drained
      BY <1>2, <3>1
    <3>2. CASE ~drained.suspended /\ s \in Start(drained)
      <4>1. s \in EngineState /\ Good(s) /\ Later(drained, s)
        BY <1>1, <1>2, <2>2, <3>2, StartType, StartSafe
      <4> QED BY <1>1, <1>2, <4>1, LaterTransitive
    <3> QED BY <2>1, <3>1, <3>2
  <2>4. Good(eng') /\ AllFresh(queue', eng') /\ pc' = "wait"
    BY <1>1, <1>3, <2>1, <2>3, BecomeSafe DEF Boot
  <2> QED BY <2>4 DEF Inner
<1>4. CASE TakeEvent
  <2>1. PICK e \in DrainNetwork(drained, network /\ Head(queue).type # "network") :
          Become(e, Tail(queue))
    BY <1>4 DEF TakeEvent, drained
  <2>2. e \in EngineState /\ Good(e) /\ Later(eng, e)
    <3>1. e \in EngineState /\ Good(e) /\ Later(drained, e)
      BY <1>1, <1>2, <2>1, DrainNetworkType, DrainNetworkSafe
    <3> QED BY <1>1, <1>2, <3>1, LaterTransitive
  <2>3. /\ Tail(queue) \in Seq(Event) /\ Head(queue) \in Event
        /\ AllFresh(Tail(queue), eng) /\ Fresh(Head(queue), eng)
    <3>1. queue # <<>>
      BY <1>4 DEF TakeEvent
    <3> QED BY <1>1, <3>1, TailType, TailFresh
  <2>4. Good(eng') /\ AllFresh(queue', eng') /\ Later(eng, eng') /\ eng' \in EngineState
    BY <1>1, <2>1, <2>2, <2>3, BecomeSafe
  <2>5. event' = Head(queue) /\ pc' = "dispatch"
    BY <1>4 DEF TakeEvent
  <2>6. Fresh(event', eng')
    BY <1>1, <2>3, <2>4, <2>5, FreshLater
  <2> QED BY <2>4, <2>5, <2>6 DEF Inner
<1>5. CASE Timeout
  BY <1>5 DEF Timeout, Inner
<1>6. CASE TickStopped
  BY <1>6 DEF TickStopped, Inner
<1>7. ASSUME NEW due \in Dues, TickDrain(due) PROVE Inner'
  <2>1. PICK e \in DrainNetwork(drained, network) :
          LET now == IF e.suspended THEN e ELSE Expire(e, due)
          IN Become(now, queue) /\ pc' = IF SomeDue(now) THEN "due" ELSE "wait"
    BY <1>7 DEF TickDrain, drained
  <2>2. e \in EngineState /\ Good(e) /\ Later(eng, e)
    <3>1. e \in EngineState /\ Good(e) /\ Later(drained, e)
      BY <1>1, <1>2, <2>1, DrainNetworkType, DrainNetworkSafe
    <3> QED BY <1>1, <1>2, <3>1, LaterTransitive
  <2> DEFINE now == IF e.suspended THEN e ELSE Expire(e, due)
  <2>3. now \in EngineState /\ Good(now) /\ Later(eng, now)
    <3>1. now \in EngineState /\ Good(now) /\ Later(e, now)
      BY <2>2, ExpireType, ExpireSafe, LaterReflexive
    <3> HIDE DEF now
    <3> QED BY <1>1, <2>2, <3>1, LaterTransitive
  <2>4. Become(now, queue) /\ pc' \in {"due", "wait"}
    BY <2>1
  <2> HIDE DEF now
  <2>5. Good(eng') /\ AllFresh(queue', eng')
    BY <1>1, <2>3, <2>4, BecomeSafe
  <2> QED BY <2>4, <2>5 DEF Inner
<1> QED BY <1>3, <1>4, <1>5, <1>6, <1>7

LEMMA InnerHandle ==
  ASSUME TypeOK, Inner,
         \/ HandlePacket \/ HandleCaptureError \/ HandleConnectivity
         \/ HandleControl \/ HandlePower \/ HandleNetwork
  PROVE  Inner'
<1>1. eng \in EngineState /\ Good(eng) /\ eng.spill = <<>> /\ link \subseteq Adapters
  BY DEF TypeOK, Inner
<1>2. pc = "dispatch" => event \in Event /\ Fresh(event, eng)
  BY DEF TypeOK, Inner
<1>3. CASE HandlePacket
  <2>1. event \in Event /\ event.type = "packet" /\ Fresh(event, eng)
    BY <1>2, <1>3 DEF HandlePacket, Dispatch
  <2>2. Expected(eng, event.gen) /\ event.frame \in Frames
    BY <2>1, EventFields DEF Fresh, Callbacks, Expected
  <2>3. \A d \in Packet(eng, event.gen, event.frame) :
          d \in EngineState /\ Good(d) /\ Later(eng, d)
    BY <1>1, <2>2, PacketType, PacketSafe
  <2> QED BY <1>3, <2>3, InnerDispatch DEF HandlePacket
<1>4. CASE HandleCaptureError
  <2>1. event \in Event /\ event.type = "capture_error" /\ Fresh(event, eng)
    BY <1>2, <1>4 DEF HandleCaptureError, Dispatch
  <2>2. Expected(eng, event.gen)
    BY <2>1 DEF Fresh, Callbacks, Expected
  <2>3. \A d \in CaptureError(eng, event.gen) :
          d \in EngineState /\ Good(d) /\ Later(eng, d)
    BY <1>1, <2>2, FailedType, CaptureErrorSafe DEF CaptureError
  <2> QED BY <1>4, <2>3, InnerDispatch DEF HandleCaptureError
<1>5. CASE HandleConnectivity
  <2>1. event \in Event /\ event.type = "connectivity" /\ Fresh(event, eng)
    BY <1>2, <1>5 DEF HandleConnectivity, Dispatch
  <2>2. /\ Expected(eng, event.gen) /\ event.up \in BOOLEAN
        /\ event.gen = eng.generation => eng.handshake = "off" /\ eng.start = "off"
    BY <2>1, EventFields DEF Fresh, Callbacks, Expected
  <2>3. \A d \in Connectivity(eng, event.gen, event.up) :
          d \in EngineState /\ Good(d) /\ Later(eng, d)
    BY <1>1, <2>2, ConnectivityType, ConnectivitySafe
  <2> QED BY <1>5, <2>3, InnerDispatch DEF HandleConnectivity
<1>6. CASE HandleControl
  <2>1. event.call \in Calls
    BY <1>2, <1>6, EventFields DEF HandleControl, Dispatch
  <2>2. \A d \in HandleCall(eng, event.call) :
          d \in EngineState /\ Good(d) /\ Later(eng, d)
    BY <1>1, <2>1, HandleCallType, HandleCallSafe
  <2> QED BY <1>6, <2>2, InnerDispatch DEF HandleControl
<1>7. CASE HandlePower
  BY <1>1, <1>7, LaterReflexive, InnerDispatch DEF HandlePower
<1>8. CASE HandleNetwork
  <2>1. \A o \in NetworkChanged(eng) : Sound(eng, o)
    BY <1>1, NetworkChangedSafe
  <2>2. NetworkChanged(eng) \in SUBSET Outcome
    BY <1>1, NetworkChangedType
  <2>3. \A d \in OrFailed(NetworkChanged(eng)) :
          d \in EngineState /\ Good(d) /\ Later(eng, d)
    BY <1>1, <2>1, <2>2, OrFailedType, OrFailedSafe
  <2> QED BY <1>8, <2>3, InnerDispatch DEF HandleNetwork
<1> QED BY <1>3, <1>4, <1>5, <1>6, <1>7, <1>8

LEMMA InnerDeadline ==
  ASSUME TypeOK, Inner, Reconcile \/ HandshakeTimeout \/ ResendStart \/ RetryNow
  PROVE  Inner'
<1>1. eng \in EngineState /\ Good(eng) /\ eng.spill = <<>> /\ link \subseteq Adapters
  BY DEF TypeOK, Inner
<1>2. CASE Reconcile
  <2> DEFINE quiet == [eng EXCEPT !.reconcile = "armed"]
             reloaded == {quiet} \cup UNION {ApplyConfig(quiet, c) : c \in Configs \ {eng.config}}
             results == UNION {OrFailed(NetworkChanged(e)) : e \in reloaded}
  <2>1. Due(results)
    BY <1>2 DEF Reconcile
  <2>2. quiet \in EngineState /\ Alike(eng, quiet) /\ quiet.spill = <<>>
    BY <1>1 DEF EngineState, Deadline, Alike
  <2> HIDE DEF quiet
  <2>3. Good(quiet) /\ Later(eng, quiet)
    BY <1>1, <2>2, AlikeSafe
  <2>4. \A e \in reloaded : e \in EngineState /\ Good(e) /\ Later(eng, e)
    <3> TAKE e \in reloaded
    <3>1. CASE e = quiet
      BY <2>2, <2>3, <3>1
    <3>2. ASSUME NEW c \in Configs, e \in ApplyConfig(quiet, c)
          PROVE  e \in EngineState /\ Good(e) /\ Later(eng, e)
      <4>1. e \in EngineState /\ Good(e) /\ Later(quiet, e)
        BY <1>1, <2>2, <2>3, <3>2, ApplyConfigType, ApplyConfigSafe
      <4> QED BY <1>1, <2>2, <2>3, <4>1, LaterTransitive
    <3> QED BY <3>1, <3>2
  <2> HIDE DEF reloaded
  <2>5. \A d \in results : d \in EngineState /\ Good(d) /\ Later(eng, d)
    <3> TAKE d \in results
    <3>1. PICK e \in reloaded : d \in OrFailed(NetworkChanged(e))
      OBVIOUS
    <3>2. e \in EngineState /\ Good(e) /\ Later(eng, e)
      BY <2>4
    <3>3. NetworkChanged(e) \in SUBSET Outcome /\ \A o \in NetworkChanged(e) : Sound(e, o)
      BY <1>1, <3>2, NetworkChangedType, NetworkChangedSafe
    <3>4. d \in EngineState /\ Good(d) /\ Later(e, d)
      BY <3>1, <3>2, <3>3, OrFailedType, OrFailedSafe
    <3> QED BY <1>1, <3>2, <3>4, LaterTransitive
  <2> HIDE DEF results
  <2> QED BY <2>1, <2>5, InnerDue
<1>3. CASE HandshakeTimeout
  <2>1. Ready(eng) /\ Allowed(eng)
    <3>1. ~Closed(eng)
      BY <1>1, <1>3 DEF HandshakeTimeout, Good, Shape
    <3> QED BY <1>1, <3>1, GoodReady DEF Closed
  <2>2. \A d \in Failed(eng) : d \in EngineState /\ Good(d) /\ Later(eng, d)
    BY <1>1, <2>1, FailedType, FailedSafe DEF Later
  <2> QED BY <1>3, <2>2, InnerDue DEF HandshakeTimeout
<1>4. CASE ResendStart
  <2> DEFINE again == [eng EXCEPT !.start = "armed"]
             results == {again} \cup (IF Faults /\ eng.session # None THEN Failed(eng) ELSE {})
  <2>1. Due(results)
    BY <1>4 DEF ResendStart
  <2>2. eng.start = "expired"
    BY <1>4 DEF ResendStart
  <2>3. ~Closed(eng)
    BY <1>1, <2>2 DEF Good, Shape
  <2>4. Ready(eng) /\ Allowed(eng)
    BY <1>1, <2>3, GoodReady DEF Closed
  <2>5. /\ again \in EngineState /\ again.start = "armed"
        /\ again.state = eng.state /\ again.internet = eng.internet
        /\ again.suspended = eng.suspended /\ again.manual_disconnect = eng.manual_disconnect
        /\ again.config = eng.config /\ again.adapter = eng.adapter
        /\ again.candidates = eng.candidates
        /\ again.session = eng.session /\ again.probe = eng.probe
        /\ again.generation = eng.generation /\ again.retry = eng.retry
        /\ again.handshake = eng.handshake /\ again.spill = eng.spill
    BY <1>1 DEF EngineState, Deadline
  <2> HIDE DEF again
  <2>6. Good(again) /\ Later(eng, again)
    BY <1>1, <2>2, <2>3, <2>5 DEF Good, Shape, Settled, SpillPast, Closed, Allowed, Later
  <2>7. \A d \in results : d \in EngineState /\ Good(d) /\ Later(eng, d)
    BY <1>1, <2>4, <2>5, <2>6, FailedType, FailedSafe DEF Later
  <2> HIDE DEF results
  <2> QED BY <2>1, <2>7, InnerDue
<1>5. CASE RetryNow
  <2> DEFINE e == [eng EXCEPT !.retry = "off"]
  <2>1. Due(OrFailed(Authenticate(e))) /\ eng.retry = "expired"
    BY <1>5 DEF RetryNow
  <2>2. /\ e \in EngineState /\ e.spill = eng.spill /\ e.generation = eng.generation
        /\ e.state = eng.state /\ e.internet = eng.internet
        /\ e.suspended = eng.suspended /\ e.manual_disconnect = eng.manual_disconnect
    BY <1>1 DEF EngineState, Deadline
  <2> HIDE DEF e
  <2>3. Ready(eng)
    BY <1>1, <2>1, GoodReady DEF Good, Shape
  <2>4. Ready(e)
    BY <2>2, <2>3 DEF Ready, SpillPast
  <2>5. \A o \in Authenticate(e) : Sound(eng, o)
    <3> TAKE o \in Authenticate(e)
    <3>1. Attempted(e, o)
      BY <1>1, <2>2, <2>4, AuthenticateSafe
    <3>2. Sound(e, o) /\ Later(eng, o.eng)
      BY <2>2, <3>1, AttemptedSound DEF Attempted, Later
    <3> QED BY <3>2 DEF Sound
  <2>6. Authenticate(e) \in SUBSET Outcome
    BY <1>1, <2>2, AuthenticateType
  <2>7. \A d \in OrFailed(Authenticate(e)) : d \in EngineState /\ Good(d) /\ Later(eng, d)
    BY <1>1, <2>5, <2>6, OrFailedType, OrFailedSafe
  <2> QED BY <2>1, <2>7, InnerDue
<1> QED BY <1>2, <1>3, <1>4, <1>5

LEMMA InnerStep ==
  ASSUME TypeOK, Inner, [Next]_vars
  PROVE  Inner'
<1>1. CASE World
  BY <1>1, InnerWorld
<1>2. CASE Workers
  BY <1>2, InnerWorkers
<1>3. CASE Thread
  <2>1. CASE BootStopped
    BY <2>1, InnerStopping DEF BootStopped, TypeOK, Inner
  <2>2. CASE TakeStopped
    <3>1. queue # <<>> /\ Stopping(Tail(queue))
      BY <2>2 DEF TakeStopped
    <3>2. Tail(queue) \in Seq(Event) /\ AllFresh(Tail(queue), eng)
      BY <3>1, TailType, TailFresh DEF TypeOK, Inner
    <3> QED BY <3>1, <3>2, InnerStopping
  <2> QED BY <1>3, <2>1, <2>2, InnerLoop, InnerHandle, InnerDeadline DEF Thread
<1>4. CASE Finished \/ UNCHANGED vars
  BY <1>4 DEF Finished, vars, Inner
<1> QED BY <1>1, <1>2, <1>3, <1>4 DEF Next

-----------------------------------------------------------------------------
(* The theorems.                                                           *)

\* The invariant is inductive: no method, whatever call of it fails, and no order of
\* the steps of the engine, its workers and its clients leads out of it.
THEOREM Inductive == Spec => []IInv
<1>1. Init => IInv
  BY InitType, InnerInit, InvSplit
<1>2. IInv /\ [Next]_vars => IInv'
  <2> SUFFICES ASSUME IInv, [Next]_vars PROVE IInv'
    OBVIOUS
  <2>1. TypeOK /\ Inner
    BY InvSplit
  <2>2. TypeOK' /\ Inner'
    BY <2>1, TypeStep, InnerStep
  <2> QED BY <2>2 DEF IInv, Inner, AllFresh
<1> QED BY <1>1, <1>2, PTL DEF Spec

\* A manual disconnect holds: nothing that was under way, and nothing that arrives
\* later, leaves or begins an attempt (engine.rs logoff, resume, apply_config, retry).
THEOREM ManualHolds == Spec => []ManualStaysOff
<1>1. IInv => ManualStaysOff
  BY DEF IInv, Good, Shape, Settled, Closed, ManualStaysOff
<1> QED BY <1>1, Inductive, PTL

\* A suspended machine keeps no capture, probe or timer (engine.rs suspend).
THEOREM SuspendHolds == Spec => []SuspendedIsQuiet
<1>1. IInv => SuspendedIsQuiet
  BY DEF IInv, Good, Shape, Settled, Closed, SuspendedIsQuiet
<1> QED BY <1>1, Inductive, PTL

\* "Authenticating" is always timed, or waits for a probe (engine.rs next_candidate,
\* packet, tick).
THEOREM AuthenticatingEnds == Spec => []NeverStuckAuthenticating
<1>1. IInv => NeverStuckAuthenticating
  BY DEF IInv, Good, Shape, Settled, NeverStuckAuthenticating
<1> QED BY <1>1, Inductive, PTL

\* Online nothing of the attempt is left (engine.rs connectivity).
THEOREM OnlineSettles == Spec => []OnlineIsSettled
<1>1. IInv => OnlineIsSettled
  BY DEF IInv, Good, Shape, Settled, OnlineIsSettled
<1> QED BY <1>1, Inductive, PTL

\* The running capture is the current attempt's, on an adapter the configuration
\* allows, and no callback is from the future (engine.rs next_candidate, invalidate).
THEOREM SessionStaysCurrent == Spec => []SessionIsCurrent
<1>1. IInv => SessionIsCurrent
  BY DEF IInv, Good, Shape, Fresh, SessionIsCurrent
<1> QED BY <1>1, Inductive, PTL

\* Without automatic authentication no retry is pending (engine.rs failed, resume,
\* apply_config).
THEOREM RetriesAreAsked == Spec => []NoRetryUnasked
<1>1. IInv => NoRetryUnasked
  BY DEF IInv, Good, Shape, NoRetryUnasked
<1> QED BY <1>1, Inductive, PTL

-----------------------------------------------------------------------------
(***************************************************************************)
(* III. What a step may do.                                                *)
(*                                                                         *)
(* Every method but three is a Move: it keeps the authenticator or drops   *)
(* it, enters Authenticated in no case, keeps capture and probe or begins  *)
(* a new generation, and shortens the wait only for a reason.  Moves       *)
(* compose, so that this is shown of each method from the methods it       *)
(* calls.  The three are a frame that is answered, a success that starts   *)
(* the probe, and the answer of a probe.                                   *)
(***************************************************************************)

\* The attempt goes on as it was, or a new generation has begun.
Carries(e, d) ==
  /\ d.peer \in {NoPeer, e.peer}
  /\ d.state = "Authenticated" => e.state = "Authenticated"
  /\ \/ d.generation > e.generation
     \/ d.generation = e.generation /\ d.probe = e.probe /\ d.session = e.session

\* The wait before a retry is not shortened but for a reason.
Waits(e, d) ==
  /\ d.config = e.config
  /\ d.adapters \in {e.adapters, link}
  /\ d.retry_attempt < e.retry_attempt =>
       e.state = "Authenticated" \/ (e.adapters = {} /\ d.adapters # {})

Move(e, d) == d \in EngineState /\ Carries(e, d) /\ Waits(e, d)

\* Engines that differ in nothing a Move looks at.
Same(e, d) ==
  /\ d.peer = e.peer /\ d.state = e.state /\ d.generation = e.generation
  /\ d.probe = e.probe /\ d.session = e.session /\ d.config = e.config
  /\ d.adapters = e.adapters /\ d.retry_attempt = e.retry_attempt

LEMMA AttemptNat == ASSUME NEW e \in EngineState PROVE e.retry_attempt \in Nat
BY EngineAssumption DEF EngineState, Attempt

LEMMA CarriesTransitive ==
  ASSUME NEW e \in EngineState, NEW m \in EngineState, NEW d \in EngineState,
         Carries(e, m), Carries(m, d)
  PROVE  Carries(e, d)
BY GenerationNat DEF Carries

LEMMA MoveTransitive ==
  ASSUME NEW e \in EngineState, NEW m, NEW d, Move(e, m), Move(m, d)
  PROVE  Move(e, d)
<1>1. Carries(e, d)
  BY CarriesTransitive DEF Move
<1>2. e.retry_attempt \in Nat /\ m.retry_attempt \in Nat /\ d.retry_attempt \in Nat
  BY AttemptNat DEF Move
<1>3. Waits(e, d)
  BY <1>2 DEF Move, Waits, Carries
<1> QED BY <1>1, <1>3 DEF Move

LEMMA SameMoves ==
  ASSUME NEW e \in EngineState, NEW d \in EngineState, Same(e, d)
  PROVE  Move(e, d)
<1>1. e.retry_attempt \in Nat
  BY AttemptNat
<1> QED BY <1>1 DEF Same, Move, Carries, Waits

LEMMA MoveReflexive == ASSUME NEW e \in EngineState PROVE Move(e, e)
BY SameMoves DEF Same

-----------------------------------------------------------------------------
(* The methods that only set fields.                                       *)

LEMMA StatusMoves ==
  ASSUME NEW e \in EngineState, NEW s \in States \ {"Authenticated"}
  PROVE  Move(e, Status(e, s))
<1> DEFINE d == Status(e, s)
<1>1. d \in EngineState /\ d.state = s
  BY StatusType, StatusFields
<1>2. /\ d.peer = e.peer /\ d.generation = e.generation
      /\ d.probe = e.probe /\ d.session = e.session /\ d.config = e.config
      /\ d.adapters = e.adapters /\ d.retry_attempt = e.retry_attempt
  BY DEF Status, EngineState
<1>3. e.retry_attempt \in Nat
  BY AttemptNat
<1> HIDE DEF d
<1>4. Move(e, d)
  BY <1>1, <1>2, <1>3 DEF Move, Carries, Waits
<1> QED BY <1>4 DEF d

LEMMA InvalidateMoves ==
  ASSUME NEW e \in EngineState
  PROVE  Move(e, Invalidate(e))
<1> DEFINE d == Invalidate(e)
<1>1. d \in EngineState /\ d.state = e.state /\ d.generation = e.generation + 1
      /\ d.config = e.config /\ d.adapters = e.adapters
  BY InvalidateType, InvalidateFields
<1>2. d.peer = NoPeer /\ d.retry_attempt = e.retry_attempt
  BY DEF Invalidate, EngineState
<1>3. e.retry_attempt \in Nat /\ e.generation \in Nat
  BY AttemptNat, GenerationNat
<1> HIDE DEF d
<1>4. Move(e, d)
  BY <1>1, <1>2, <1>3 DEF Move, Carries, Waits
<1> QED BY <1>4 DEF d

LEMMA BeginAttemptMoves ==
  ASSUME NEW e \in EngineState
  PROVE  Move(e, BeginAttempt(e))
<1> DEFINE i == Invalidate(e)
           d == [i EXCEPT !.retry = "off", !.candidates = {}]
<1>1. i \in EngineState /\ Move(e, i)
  BY InvalidateType, InvalidateMoves
<1>2. d = BeginAttempt(e)
  BY DEF BeginAttempt
<1>3. d \in EngineState
  BY <1>2, BeginAttemptType
<1> HIDE DEF i
<1>4. Same(i, d)
  BY <1>1 DEF Same, EngineState
<1>5. Move(i, d)
  BY <1>1, <1>3, <1>4, SameMoves
<1>6. Move(e, d)
  BY <1>1, <1>5, MoveTransitive
<1> QED BY <1>2, <1>6

\* An attempt that ends resets the wait only if it had succeeded.
LEMMA EndAttemptMoves ==
  ASSUME NEW e \in EngineState
  PROVE  Move(e, EndAttempt(e))
<1> DEFINE d == EndAttempt(e)
           n == IF e.state = "Authenticated" THEN 0 ELSE e.retry_attempt
<1>1. /\ d \in EngineState /\ d.state = e.state /\ d.generation = e.generation + 1
      /\ d.config = e.config
  BY EndAttemptType, EndAttemptFields
<1>2. d.peer = NoPeer /\ d.adapters = e.adapters
  BY DEF EndAttempt, Invalidate, EngineState
<1>3. d.retry_attempt = n
  <2>1. Invalidate(e) \in EngineState /\ Invalidate(e).retry_attempt = e.retry_attempt
    BY InvalidateType DEF Invalidate, EngineState
  <2> QED BY <2>1 DEF EndAttempt, EngineState
<1>4. e.retry_attempt \in Nat /\ e.generation \in Nat
  BY AttemptNat, GenerationNat
<1> HIDE DEF d
<1>5. Move(e, d)
  BY <1>1, <1>2, <1>3, <1>4 DEF Move, Carries, Waits
<1> QED BY <1>5 DEF d

LEMMA GiveUpMoves ==
  ASSUME NEW e \in EngineState
  PROVE  Move(e, GiveUp(e))
<1> DEFINE n == IF e.retry_attempt < MaxAttempt THEN e.retry_attempt + 1 ELSE e.retry_attempt
           m == [e EXCEPT !.retry = "armed", !.retry_attempt = n]
<1>1. n \in Attempt /\ n \in Nat /\ n >= e.retry_attempt /\ e.retry_attempt \in Nat
  BY EngineAssumption DEF EngineState, Attempt
<1>2. GiveUp(e) \in {Status(e, "Failed"), Status(m, "Idle")}
  BY DEF GiveUp
<1> HIDE DEF n
<1>3. m \in EngineState
  BY <1>1 DEF EngineState, Deadline
<1>4. /\ m.peer = e.peer /\ m.state = e.state /\ m.generation = e.generation
      /\ m.probe = e.probe /\ m.session = e.session /\ m.config = e.config
      /\ m.adapters = e.adapters /\ m.retry_attempt = n
  BY DEF EngineState
<1> HIDE DEF m
<1>5. Move(e, m)
  BY <1>1, <1>3, <1>4 DEF Move, Carries, Waits
<1>6. Move(e, Status(e, "Failed")) /\ Move(m, Status(m, "Idle"))
  BY <1>3, StatusMoves DEF States
<1>7. Move(e, Status(m, "Idle"))
  BY <1>5, <1>6, MoveTransitive
<1> QED BY <1>2, <1>6, <1>7

LEMMA RefreshMoves ==
  ASSUME NEW e \in EngineState, link \subseteq Adapters, NEW o \in RefreshAdapters(e)
  PROVE  Move(e, o.eng)
<1>1. o.eng \in EngineState
  BY RefreshType DEF Outcome
<1>2. o.eng = e \/ o.eng = [e EXCEPT !.adapters = link]
  BY RefreshCases DEF Ok, Err
<1>3. o.eng.adapters \in {e.adapters, link}
  BY <1>2 DEF EngineState
<1>4. /\ o.eng.peer = e.peer /\ o.eng.state = e.state /\ o.eng.generation = e.generation
      /\ o.eng.probe = e.probe /\ o.eng.session = e.session /\ o.eng.config = e.config
      /\ o.eng.retry_attempt = e.retry_attempt
  BY <1>2 DEF EngineState
<1>5. e.retry_attempt \in Nat
  BY AttemptNat
<1> QED BY <1>1, <1>3, <1>4, <1>5 DEF Move, Carries, Waits

-----------------------------------------------------------------------------
(* Attempts.                                                               *)

LEMMA ReachMoves ==
  ASSUME NEW e \in EngineState, NEW a \in e.candidates
  PROVE  Move(e, Reach(e, a))
<1> DEFINE d == Reach(e, a)
<1>1. /\ d \in EngineState /\ d.generation > e.generation /\ d.state = e.state
      /\ d.config = e.config
  BY ReachType, ReachFields
<1>2. d.peer = NoPeer /\ d.adapters = e.adapters /\ d.retry_attempt = e.retry_attempt
  BY DEF Reach, Invalidate, EngineState
<1>3. e.retry_attempt \in Nat
  BY AttemptNat
<1> HIDE DEF d
<1>4. Move(e, d)
  BY <1>1, <1>2, <1>3 DEF Move, Carries, Waits
<1> QED BY <1>4 DEF d

\* A capture is only opened under a new generation.
LEMMA OpenedMoves ==
  ASSUME NEW e \in EngineState, NEW a \in e.candidates
  PROVE  Move(e, Opened(Reach(e, a), a))
<1> DEFINE r == Reach(e, a)
           d == Opened(r, a)
<1>1. a \in Adapters
  BY DEF EngineState
<1>2. /\ r \in EngineState /\ r.generation > e.generation /\ r.config = e.config
      /\ r.peer = NoPeer /\ r.adapters = e.adapters /\ r.retry_attempt = e.retry_attempt
  <2>1. r \in EngineState /\ r.generation > e.generation /\ r.config = e.config
    BY ReachType, ReachFields
  <2>2. r.peer = NoPeer /\ r.adapters = e.adapters /\ r.retry_attempt = e.retry_attempt
    BY DEF Reach, Invalidate, EngineState
  <2> QED BY <2>1, <2>2
<1> HIDE DEF r
<1>3. d \in EngineState /\ d.generation = r.generation /\ d.state = "Authenticating"
      /\ d.config = r.config
  BY <1>1, <1>2, OpenedType, OpenedFields
<1>4. d.peer = r.peer /\ d.adapters = r.adapters /\ d.retry_attempt = r.retry_attempt
  BY <1>2 DEF Opened, Status, EngineState
<1>5. e.retry_attempt \in Nat
  BY AttemptNat
<1> HIDE DEF d
<1>6. Move(e, d)
  BY <1>2, <1>3, <1>4, <1>5 DEF Move, Carries, Waits
<1> QED BY <1>6 DEF d, r

LEMMA NoneOpenedMoves ==
  ASSUME NEW e \in EngineState, e.candidates # {}
  PROVE  Move(e, NoneOpened(e))
<1> DEFINE d == NoneOpened(e)
<1>1. d \in EngineState /\ d.generation > e.generation /\ d.state = e.state
      /\ d.config = e.config
  BY NoneOpenedType, NoneOpenedFields
<1>2. d.peer = NoPeer /\ d.adapters = e.adapters /\ d.retry_attempt = e.retry_attempt
  BY DEF NoneOpened, Invalidate, EngineState
<1>3. e.retry_attempt \in Nat
  BY AttemptNat
<1> HIDE DEF d
<1>4. Move(e, d)
  BY <1>1, <1>2, <1>3 DEF Move, Carries, Waits
<1> QED BY <1>4 DEF d

LEMMA NextCandidateMoves ==
  ASSUME NEW e \in EngineState, NEW o \in NextCandidate(e)
  PROVE  Move(e, o.eng)
<1>1. CASE o = Ok(NoCandidate(e))
  <2> DEFINE i == Invalidate(e)
             m == [i EXCEPT !.adapter = None]
  <2>1. i \in EngineState /\ Move(e, i)
    BY InvalidateType, InvalidateMoves
  <2> HIDE DEF i
  <2>2. m \in EngineState /\ Same(i, m)
    BY <2>1, SMTT(30) DEF EngineState, Same
  <2> HIDE DEF m
  <2>3. Move(i, m) /\ Move(m, Status(m, "Idle"))
    BY <2>1, <2>2, SameMoves, StatusMoves DEF States
  <2>4. Move(e, Status(m, "Idle"))
    BY <2>1, <2>3, MoveTransitive
  <2>5. o.eng = Status(m, "Idle")
    BY <1>1 DEF Ok, NoCandidate, m, i
  <2> QED BY <2>4, <2>5
<1>2. ASSUME NEW a \in e.candidates, o = Ok(Opened(Reach(e, a), a)) PROVE Move(e, o.eng)
  BY <1>2, OpenedMoves DEF Ok
<1>3. CASE e.candidates # {} /\ o = Err(NoneOpened(e))
  BY <1>3, NoneOpenedMoves DEF Err
<1>4. ASSUME NEW a \in e.candidates, NEW s \in Spills(Reach(e, a).generation),
             o = Err(Spilled(Reach(e, a), s))
      PROVE  Move(e, o.eng)
  <2> DEFINE r == Reach(e, a)
  <2>1. r \in EngineState /\ Move(e, r)
    BY ReachType, ReachMoves
  <2>2. o.eng = Spilled(r, s) /\ Spilled(r, s) \in EngineState
    BY <1>4, <2>1, SpilledType DEF Err
  <2> HIDE DEF r
  <2>3. Same(r, Spilled(r, s))
    BY <2>1 DEF Spilled, Same, EngineState
  <2> QED BY <2>1, <2>2, <2>3, SameMoves, MoveTransitive
<1> QED BY <1>1, <1>2, <1>3, <1>4, NextCandidateCases

LEMMA FailedMoves ==
  ASSUME NEW e \in EngineState, NEW d \in Failed(e)
  PROVE  Move(e, d)
<1> DEFINE f == EndAttempt(e)
<1>1. f \in EngineState /\ Move(e, f)
  BY EndAttemptType, EndAttemptMoves
<1>2. \/ d = GiveUp(f)
      \/ \E o \in NextCandidate(f) : d = IF o.ok THEN o.eng ELSE GiveUp(o.eng)
  BY FailedCases
<1> HIDE DEF f
<1>3. CASE d = GiveUp(f)
  BY <1>1, <1>3, GiveUpMoves, MoveTransitive
<1>4. ASSUME NEW o \in NextCandidate(f), d = IF o.ok THEN o.eng ELSE GiveUp(o.eng)
      PROVE  Move(e, d)
  <2>1. o.eng \in EngineState /\ Move(f, o.eng)
    BY <1>1, NextCandidateMoves DEF Move
  <2>2. Move(e, o.eng) /\ Move(o.eng, GiveUp(o.eng))
    BY <1>1, <2>1, GiveUpMoves, MoveTransitive
  <2> QED BY <1>4, <2>2, MoveTransitive
<1> QED BY <1>2, <1>3, <1>4

LEMMA OrFailedMoves ==
  ASSUME NEW e \in EngineState, NEW S, \A o \in S : Move(e, o.eng), NEW d \in OrFailed(S)
  PROVE  Move(e, d)
<1>1. PICK o \in S : d \in IF o.ok THEN {o.eng} ELSE Failed(o.eng)
  BY DEF OrFailed
<1>2. Move(e, o.eng) /\ o.eng \in EngineState
  BY <1>1 DEF Move
<1>3. CASE d = o.eng
  BY <1>2, <1>3
<1>4. CASE d \in Failed(o.eng)
  BY <1>2, <1>4, FailedMoves, MoveTransitive
<1> QED BY <1>1, <1>3, <1>4

LEMMA AuthenticateMoves ==
  ASSUME NEW e \in EngineState, link \subseteq Adapters, NEW o \in Authenticate(e)
  PROVE  Move(e, o.eng)
<1> DEFINE b == BeginAttempt(e)
<1>1. b \in EngineState /\ Move(e, b)
  BY BeginAttemptType, BeginAttemptMoves
<1>2. \/ o = Err(e)
      \/ o = Err(b)
      \/ \E r \in RefreshAdapters(b) : o \in TryCandidates(r.eng)
  BY AuthenticateCases
<1> HIDE DEF b
<1>3. CASE o = Err(e)
  BY <1>3, MoveReflexive DEF Err
<1>4. CASE o = Err(b)
  BY <1>1, <1>4 DEF Err
<1>5. ASSUME NEW r \in RefreshAdapters(b), o \in TryCandidates(r.eng) PROVE Move(e, o.eng)
  <2> DEFINE c == Select(r.eng)
             t == [r.eng EXCEPT !.candidates = c]
  <2>1. r.eng \in EngineState /\ Move(b, r.eng)
    BY <1>1, RefreshMoves DEF Move
  <2>2. c \in SUBSET Adapters
    BY <2>1 DEF Select, EngineState
  <2>3. o \in NextCandidate(t)
    BY <1>5 DEF TryCandidates
  <2> HIDE DEF c
  <2>4. t \in EngineState /\ Same(r.eng, t)
    BY <2>1, <2>2 DEF EngineState, Same
  <2> HIDE DEF t
  <2>5. Move(r.eng, t) /\ Move(t, o.eng)
    BY <2>1, <2>3, <2>4, SameMoves, NextCandidateMoves
  <2>6. Move(b, o.eng)
    BY <1>1, <2>1, <2>5, MoveTransitive
  <2> QED BY <1>1, <2>6, MoveTransitive
<1> QED BY <1>2, <1>3, <1>4, <1>5

LEMMA StartMoves ==
  ASSUME NEW e \in EngineState, link \subseteq Adapters, NEW d \in Start(e)
  PROVE  Move(e, d)
<1> DEFINE S == UNION {IF r.ok /\ e.config.auto_auth THEN Authenticate(r.eng) ELSE {r} :
                         r \in RefreshAdapters(e)}
<1>1. ASSUME NEW o \in S PROVE Move(e, o.eng)
  <2>1. PICK r \in RefreshAdapters(e) : o = r \/ o \in Authenticate(r.eng)
    OBVIOUS
  <2>2. r.eng \in EngineState /\ Move(e, r.eng)
    BY RefreshMoves DEF Move
  <2> QED BY <2>1, <2>2, AuthenticateMoves, MoveTransitive
<1>2. d \in OrFailed(S)
  BY DEF Start
<1> HIDE DEF S
<1> QED BY <1>1, <1>2, OrFailedMoves

-----------------------------------------------------------------------------
(* A scan.                                                                 *)

LEMMA ScannedMoves ==
  ASSUME NEW e \in EngineState, link \subseteq Adapters, NEW r \in RefreshAdapters(e), r.ok
  PROVE  Move(e, Scanned(r.eng, e.adapters))
<1> DEFINE m == r.eng
           n == IF e.adapters = {} /\ m.adapters # {} THEN 0 ELSE m.retry_attempt
           f == [m EXCEPT !.retry_attempt = n]
           j == Invalidate(f)
           i == [j EXCEPT !.adapter = None, !.retry = "off"]
<1>1. m \in EngineState /\ Move(e, m)
  BY RefreshMoves DEF Move
<1>2. Scanned(m, e.adapters) \in {f, Status(i, "Idle")}
  BY DEF Scanned
<1>3. n \in Attempt
  BY <1>1, Numbers DEF EngineState
<1>4. m.retry_attempt = e.retry_attempt /\ e.retry_attempt \in Nat
  BY RefreshCases, AttemptNat DEF Ok, Err, EngineState
<1> HIDE DEF m
<1>5. f \in EngineState
  BY <1>1, <1>3 DEF EngineState
<1>6. /\ f.peer = m.peer /\ f.state = m.state /\ f.generation = m.generation
      /\ f.probe = m.probe /\ f.session = m.session /\ f.config = m.config
      /\ f.adapters = m.adapters /\ f.retry_attempt = n
  BY <1>1 DEF EngineState
<1> HIDE DEF f
<1>7. Move(e, f)
  BY <1>1, <1>4, <1>5, <1>6 DEF Move, Carries, Waits
<1>8. j \in EngineState /\ Move(f, j)
  BY <1>5, InvalidateType, InvalidateMoves
<1> HIDE DEF j
<1>9. i \in EngineState /\ Same(j, i)
  BY <1>8, ZenonT(60) DEF EngineState, Deadline, Same
<1> HIDE DEF i
<1>10. Move(j, i) /\ Move(i, Status(i, "Idle"))
  BY <1>8, <1>9, SameMoves, StatusMoves DEF States
<1>11. Move(e, i)
  BY <1>7, <1>8, <1>10, MoveTransitive
<1>12. Move(e, Status(i, "Idle"))
  BY <1>10, <1>11, MoveTransitive
<1> QED BY <1>2, <1>7, <1>12 DEF m

LEMMA NetworkChangedMoves ==
  ASSUME NEW e \in EngineState, link \subseteq Adapters, NEW o \in NetworkChanged(e)
  PROVE  Move(e, o.eng)
<1>1. CASE o = Ok(e)
  BY <1>1, MoveReflexive DEF Ok
<1>2. ASSUME NEW r \in RefreshAdapters(e), r.ok, o \in Reconnect(Scanned(r.eng, e.adapters))
      PROVE  Move(e, o.eng)
  <2> DEFINE s == Scanned(r.eng, e.adapters)
  <2>1. s \in EngineState /\ Move(e, s)
    BY <1>2, ScannedMoves DEF Move
  <2>2. o = Ok(s) \/ o \in Authenticate(s)
    BY <1>2 DEF Reconnect
  <2> HIDE DEF s
  <2>3. Move(s, o.eng)
    BY <2>1, <2>2, AuthenticateMoves, MoveReflexive DEF Ok
  <2> QED BY <2>1, <2>3, MoveTransitive
<1> QED BY <1>1, <1>2 DEF NetworkChanged

LEMMA DrainNetworkMoves ==
  ASSUME NEW e \in EngineState, link \subseteq Adapters, NEW p, NEW d \in DrainNetwork(e, p)
  PROVE  Move(e, d)
<1>1. \A o \in NetworkChanged(e) : Move(e, o.eng)
  BY NetworkChangedMoves
<1> QED BY <1>1, OrFailedMoves, MoveReflexive DEF DrainNetwork

\* Online, a scan costs the session only if the adapter is gone.
LEMMA ScanKeepsSession ==
  ASSUME NEW e \in EngineState, link \subseteq Adapters, e.state = "Authenticated", e.session # None,
         NEW d \in OrFailed(NetworkChanged(e))
  PROVE  d.session = e.session \/ e.adapter \notin d.adapters
<1>1. PICK o \in NetworkChanged(e) : d \in IF o.ok THEN {o.eng} ELSE Failed(o.eng)
  BY DEF OrFailed
<1>2. CASE o = Ok(e)
  BY <1>1, <1>2 DEF Ok
<1>3. ASSUME NEW r \in RefreshAdapters(e), r.ok, o \in Reconnect(Scanned(r.eng, e.adapters))
      PROVE  d.session = e.session \/ e.adapter \notin d.adapters
  <2> DEFINE m == r.eng
             s == Scanned(m, e.adapters)
             n == IF e.adapters = {} /\ m.adapters # {} THEN 0 ELSE m.retry_attempt
             f == [m EXCEPT !.retry_attempt = n]
  <2>1. m \in EngineState /\ m = [e EXCEPT !.adapters = link]
    BY <1>3, RefreshCases, RefreshType DEF Ok, Err, Outcome
  <2>2. m.session = e.session /\ m.adapter = e.adapter /\ m.adapters = link
    BY <2>1 DEF EngineState
  <2>3. CASE e.adapter \in link \cup {None}
    <3>1. s = f
      BY <2>2, <2>3 DEF Scanned
    <3>2. f.session = e.session
      BY <2>1, <2>2 DEF EngineState
    <3>3. o = Ok(s)
      BY <1>3, <3>1, <3>2 DEF Reconnect
    <3> QED BY <1>1, <3>1, <3>2, <3>3 DEF Ok
  <2>4. CASE e.adapter \notin link
    <3>1. s.adapters = link /\ s \in EngineState
      <4>1. Move(e, s)
        BY <1>3, ScannedMoves
      <4>2. s \in EngineState
        BY <4>1 DEF Move
      <4>3. Scanned(m, e.adapters) =
              IF m.adapter \in m.adapters \cup {None} THEN f
              ELSE Status([Invalidate(f) EXCEPT !.adapter = None, !.retry = "off"], "Idle")
        BY DEF Scanned
      <4>4. f.adapters = link /\ Invalidate(f).adapters = link
        BY <2>1, <2>2 DEF EngineState, Invalidate
      <4> QED BY <4>2, <4>3, <4>4 DEF Status
    <3>2. o = Ok(s) \/ o \in Authenticate(s)
      BY <1>3 DEF Reconnect
    <3> HIDE DEF s
    <3>3. Move(s, o.eng) /\ o.eng \in EngineState
      BY <3>1, <3>2, AuthenticateMoves, MoveReflexive DEF Ok, Move
    <3>4. Move(s, d)
      BY <1>1, <3>1, <3>3, FailedMoves, MoveTransitive
    <3>5. d.adapters = link
      BY <3>1, <3>4 DEF Move, Waits
    <3> QED BY <2>4, <3>5
  <2> QED BY <2>3, <2>4
<1> QED BY <1>1, <1>2, <1>3 DEF NetworkChanged

-----------------------------------------------------------------------------
(* Power, configuration and calls.                                         *)

LEMMA PowerCarries ==
  ASSUME NEW e \in EngineState, NEW p
  PROVE  LET d == DrainPower(e, p)
         IN /\ Carries(e, d) /\ d.config = e.config
            /\ d = e \/ p \in {"suspend", "resume"}
<1> DEFINE i == Invalidate(e)
           quiet == [i EXCEPT !.candidates = {}, !.adapter = None,
                              !.retry = "off", !.retry_attempt = 0]
           d == DrainPower(e, p)
<1>1. /\ i \in EngineState /\ i.state = e.state /\ i.generation = e.generation + 1
      /\ i.config = e.config /\ i.peer = NoPeer
  BY InvalidateType, InvalidateFields DEF Invalidate, EngineState
<1>2. \/ p = "suspend" /\ d = Status([quiet EXCEPT !.suspended = TRUE], "Idle")
      \/ p = "resume" /\ \E r \in Deadline :
           d = Status([quiet EXCEPT !.suspended = FALSE, !.retry = r], "Idle")
      \/ d = e
  BY DEF DrainPower, Deadline
<1> HIDE DEF i
<1>3. /\ quiet \in EngineState /\ quiet.generation = e.generation + 1
      /\ quiet.config = e.config /\ quiet.peer = NoPeer
  BY <1>1, Numbers, ZenonT(60) DEF EngineState, Deadline
<1> HIDE DEF quiet
<1>4. CASE d = e
  BY <1>4 DEF Carries
<1>5. ASSUME NEW m \in EngineState, m.generation = e.generation + 1, m.config = e.config,
             m.peer = NoPeer, d = Status(m, "Idle")
      PROVE  Carries(e, d) /\ d.config = e.config
  <2>1. d.state = "Idle" /\ d.generation = e.generation + 1 /\ d.config = e.config
    BY <1>5, StatusFields
  <2>2. d.peer = NoPeer
    BY <1>5 DEF Status, EngineState
  <2>3. e.generation \in Nat
    BY GenerationNat
  <2> HIDE DEF d
  <2> QED BY <2>1, <2>2, <2>3 DEF Carries
<1>6. CASE p = "suspend" /\ d = Status([quiet EXCEPT !.suspended = TRUE], "Idle")
  <2> DEFINE m == [quiet EXCEPT !.suspended = TRUE]
  <2>1. m \in EngineState /\ m.generation = e.generation + 1 /\ m.config = e.config
        /\ m.peer = NoPeer
    BY <1>3, ZenonT(60) DEF EngineState
  <2> HIDE DEF m, d
  <2>2. d = Status(m, "Idle")
    BY <1>6 DEF m
  <2>3. Carries(e, d) /\ d.config = e.config
    BY <1>5, <2>1, <2>2
  <2> QED BY <1>6, <2>3 DEF d
<1>7. ASSUME p = "resume", NEW r \in Deadline,
             d = Status([quiet EXCEPT !.suspended = FALSE, !.retry = r], "Idle")
      PROVE  Carries(e, d) /\ d.config = e.config /\ p \in {"suspend", "resume"}
  <2> DEFINE m == [quiet EXCEPT !.suspended = FALSE, !.retry = r]
  <2>1. m \in EngineState /\ m.generation = e.generation + 1 /\ m.config = e.config
        /\ m.peer = NoPeer
    BY <1>3, ZenonT(60) DEF EngineState
  <2> HIDE DEF m, d
  <2>2. d = Status(m, "Idle")
    BY <1>7 DEF m
  <2>3. Carries(e, d) /\ d.config = e.config
    BY <1>5, <2>1, <2>2
  <2> QED BY <1>7, <2>3 DEF d
<1> QED BY <1>2, <1>4, <1>6, <1>7

LEMMA ConfiguredCarries ==
  ASSUME NEW e \in EngineState, NEW c \in Configs
  PROVE  Carries(e, Configured(e, c)) /\ Configured(e, c).config = c
<1> DEFINE n == IF ~e.config.auto_auth /\ c.auto_auth THEN 0 ELSE e.retry_attempt
           r == IF c.auto_auth THEN e.retry ELSE "off"
           set == [e EXCEPT !.config = c, !.retry_attempt = n, !.retry = r]
           j == Invalidate(set)
           i == [j EXCEPT !.retry = "off", !.retry_attempt = 0]
<1>1. n \in Attempt /\ r \in Deadline /\ c \in Config /\ e.generation \in Nat
  BY EngineAssumption, Numbers, GenerationNat DEF EngineState, Deadline
<1>2. Configured(e, c) \in {set, Status(i, "Idle")}
  BY DEF Configured
<1> HIDE DEF n, r
<1>3. /\ set \in EngineState /\ set.config = c
      /\ set.peer = e.peer /\ set.state = e.state /\ set.generation = e.generation
      /\ set.probe = e.probe /\ set.session = e.session
  BY <1>1 DEF EngineState
<1> HIDE DEF set
<1>4. /\ j \in EngineState /\ j.generation = e.generation + 1 /\ j.config = c
      /\ j.peer = NoPeer
  BY <1>3, InvalidateType, InvalidateFields DEF Invalidate, EngineState
<1> HIDE DEF j
<1>5. /\ i \in EngineState /\ i.generation = e.generation + 1 /\ i.config = c
      /\ i.peer = NoPeer
  BY <1>4, Numbers, ZenonT(60) DEF EngineState, Deadline
<1> HIDE DEF i
<1>6. CASE Configured(e, c) = set
  BY <1>3, <1>6 DEF Carries
<1>7. CASE Configured(e, c) = Status(i, "Idle")
  <2> DEFINE d == Status(i, "Idle")
  <2>1. d.state = "Idle" /\ d.generation = e.generation + 1 /\ d.config = c
    BY <1>5, StatusFields
  <2>2. d.peer = NoPeer
    BY <1>5 DEF Status, EngineState
  <2> HIDE DEF d
  <2>3. Carries(e, d) /\ d.config = c
    BY <1>1, <2>1, <2>2 DEF Carries
  <2> QED BY <1>7, <2>3 DEF d
<1> QED BY <1>2, <1>6, <1>7

LEMMA ApplyConfigCarries ==
  ASSUME NEW e \in EngineState, link \subseteq Adapters, NEW c \in Configs,
         NEW d \in ApplyConfig(e, c)
  PROVE  d \in EngineState /\ Carries(e, d) /\ d.config = c
<1> DEFINE f == Configured(e, c)
<1>1. f \in EngineState /\ Carries(e, f) /\ f.config = c
  BY ConfiguredType, ConfiguredCarries
<1>2. d = f \/ d \in OrFailed(Authenticate(f))
  BY DEF ApplyConfig
<1> HIDE DEF f
<1>3. Move(f, d)
  <2>1. \A o \in Authenticate(f) : Move(f, o.eng)
    BY <1>1, AuthenticateMoves
  <2> QED BY <1>1, <1>2, <2>1, OrFailedMoves, MoveReflexive
<1> QED BY <1>1, <1>3, CarriesTransitive DEF Move, Waits

LEMMA ConnectCarries ==
  ASSUME NEW e \in EngineState, link \subseteq Adapters, NEW d \in Connect(e)
  PROVE  d \in EngineState /\ Carries(e, d)
<1> DEFINE asked == [e EXCEPT !.manual_disconnect = FALSE, !.retry_attempt = 0]
<1>1. asked \in EngineState
  BY Numbers DEF EngineState
<1>2. /\ asked.peer = e.peer /\ asked.state = e.state /\ asked.generation = e.generation
      /\ asked.probe = e.probe /\ asked.session = e.session
  BY DEF EngineState
<1>3. \/ d = e
      \/ \E o \in Authenticate(asked) : d = IF o.ok THEN o.eng ELSE Status(o.eng, "Failed")
  BY DEF Connect
<1> HIDE DEF asked
<1>4. Carries(e, e) /\ Carries(e, asked)
  BY <1>2 DEF Carries
<1>5. ASSUME NEW o \in Authenticate(asked), d \in {o.eng, Status(o.eng, "Failed")}
      PROVE  d \in EngineState /\ Carries(e, d)
  <2>1. Move(asked, o.eng) /\ o.eng \in EngineState
    BY <1>1, AuthenticateMoves DEF Move
  <2>2. Move(o.eng, Status(o.eng, "Failed"))
    BY <2>1, StatusMoves DEF States
  <2>3. Move(asked, d)
    BY <1>1, <1>5, <2>1, <2>2, MoveTransitive
  <2> QED BY <1>1, <1>4, <2>3, CarriesTransitive DEF Move
<1> QED BY <1>3, <1>4, <1>5

LEMMA LogoffMoves ==
  ASSUME NEW e \in EngineState
  PROVE  Move(e, Logoff(e))
<1> DEFINE j == Invalidate(e)
           i == [j EXCEPT !.manual_disconnect = TRUE, !.retry = "off", !.candidates = {}]
<1>1. j \in EngineState /\ Move(e, j)
  BY InvalidateType, InvalidateMoves
<1>2. Logoff(e) = Status(i, "Idle")
  BY DEF Logoff
<1> HIDE DEF j
<1>3. i \in EngineState /\ Same(j, i)
  BY <1>1, ZenonT(60) DEF EngineState, Deadline, Same
<1> HIDE DEF i
<1>4. Move(j, i) /\ Move(i, Status(i, "Idle"))
  BY <1>1, <1>3, SameMoves, StatusMoves DEF States
<1>5. Move(e, i)
  BY <1>1, <1>4, MoveTransitive
<1> QED BY <1>2, <1>4, <1>5, MoveTransitive

\* A call shortens the wait only if it asks for a connection or another configuration.
LEMMA HandleCallCarries ==
  ASSUME NEW e \in EngineState, link \subseteq Adapters, NEW c \in Calls,
         NEW d \in HandleCall(e, c)
  PROVE  /\ d \in EngineState /\ Carries(e, d)
         /\ Waits(e, d) \/ c.action \in {"authenticate", "connect", "set_config"}
<1>1. c.action \in {"set_config", "connect"} => c.config \in Configs
  BY EngineAssumption DEF Call
<1>2. Move(e, e)
  BY MoveReflexive
<1>3. CASE c.action = "authenticate"
  BY <1>3, ConnectCarries DEF HandleCall
<1>4. CASE c.action = "logoff"
  BY <1>4, LogoffMoves DEF HandleCall, Move
<1>5. CASE c.action = "interfaces"
  BY <1>5, RefreshMoves DEF HandleCall, Move
<1>6. CASE c.action = "set_config"
  BY <1>1, <1>2, <1>6, ApplyConfigCarries DEF HandleCall, Move
<1>7. CASE c.action = "connect"
  <2> DEFINE n == c.config
             f == [e EXCEPT !.config = n]
  <2>1. n \in Config
    BY <1>1, <1>7, EngineAssumption
  <2>2. d = e \/ d \in Connect(f)
    BY <1>7 DEF HandleCall
  <2> HIDE DEF n
  <2>3. /\ f \in EngineState /\ f.peer = e.peer /\ f.state = e.state
        /\ f.generation = e.generation /\ f.probe = e.probe /\ f.session = e.session
    BY <2>1 DEF EngineState
  <2> HIDE DEF f
  <2>4. Carries(e, f)
    BY <2>3 DEF Carries
  <2>5. d = e \/ (d \in EngineState /\ Carries(f, d))
    BY <2>2, <2>3, ConnectCarries
  <2> QED BY <1>2, <1>7, <2>3, <2>4, <2>5, CarriesTransitive DEF Move
<1>8. c.action \in {"authenticate", "logoff", "interfaces", "set_config", "connect"}
  BY EngineAssumption DEF Call
<1> QED BY <1>3, <1>4, <1>5, <1>6, <1>7, <1>8

-----------------------------------------------------------------------------
(* Frames and the answers of probes.                                       *)

\* What a frame does: another authenticator is taken only online and for a request, and
\* a probe is only begun where there is none.
Exchanged(e, f, d) ==
  /\ d \in EngineState /\ Waits(e, d)
  /\ d.state = "Authenticated" => e.state = "Authenticated"
  /\ \/ d.peer \in {NoPeer, e.peer} \/ e.peer = NoPeer
     \/ f.kind = "request" /\ (e.state = "Authenticated" \/ e.probe # None)
  /\ \/ d.generation > e.generation
     \/ /\ d.generation = e.generation /\ d.session = e.session
        /\ d.probe = e.probe \/ e.probe = None

LEMMA MoveExchanges ==
  ASSUME NEW e \in EngineState, NEW f, NEW m, NEW d, Exchanged(e, f, m), Move(m, d)
  PROVE  Exchanged(e, f, d)
<1>1. /\ e.retry_attempt \in Nat /\ m.retry_attempt \in Nat /\ d.retry_attempt \in Nat
      /\ e.generation \in Nat /\ m.generation \in Nat /\ d.generation \in Nat
  BY AttemptNat, GenerationNat DEF Exchanged, Move
<1>2. Waits(e, d)
  BY <1>1 DEF Exchanged, Move, Waits, Carries
<1>3. d.state = "Authenticated" => e.state = "Authenticated"
  BY DEF Exchanged, Move, Carries
<1>4. \/ d.peer \in {NoPeer, e.peer} \/ e.peer = NoPeer
      \/ f.kind = "request" /\ (e.state = "Authenticated" \/ e.probe # None)
  BY DEF Exchanged, Move, Carries
<1>5. \/ d.generation > e.generation
      \/ /\ d.generation = e.generation /\ d.session = e.session
         /\ d.probe = e.probe \/ e.probe = None
  BY <1>1 DEF Exchanged, Move, Carries
<1> QED BY <1>2, <1>3, <1>4, <1>5 DEF Exchanged, Move

LEMMA ReflexiveExchange ==
  ASSUME NEW e \in EngineState, NEW f
  PROVE  Exchanged(e, f, e)
BY MoveReflexive DEF Move, Carries, Exchanged

\* The authenticator that is taken has sent a request, and another one only online.
LEMMA PeerTaken ==
  ASSUME NEW peer, NEW f, NEW online, PeerAfter(peer, f, online) # peer
  PROVE  f.kind = "request" /\ (peer = NoPeer \/ online)
BY DEF PeerAfter, Receive, Admitted, IsRequest, Answer

LEMMA HeardExchanges ==
  ASSUME NEW e \in EngineState, NEW f \in Frames
  PROVE  Exchanged(e, f, Heard(e, f, e.state = "Authenticated" \/ e.probe # None))
<1> DEFINE online == e.state = "Authenticated" \/ e.probe # None
           p == PeerAfter(e.peer, f, online)
           d == Heard(e, f, online)
<1>1. d = [e EXCEPT !.peer = p] /\ d \in EngineState
  BY HeardType DEF Heard
<1>2. p \in {NoPeer, e.peer} \/ e.peer = NoPeer
      \/ (f.kind = "request" /\ (e.state = "Authenticated" \/ e.probe # None))
  BY PeerTaken
<1>3. e.retry_attempt \in Nat
  BY AttemptNat
<1> HIDE DEF p, d
<1>4. /\ d.peer = p /\ d.state = e.state /\ d.generation = e.generation
      /\ d.probe = e.probe /\ d.session = e.session /\ d.config = e.config
      /\ d.adapters = e.adapters /\ d.retry_attempt = e.retry_attempt
  BY <1>1 DEF EngineState
<1>5. Exchanged(e, f, d)
  BY <1>1, <1>2, <1>3, <1>4 DEF Exchanged, Waits
<1> QED BY <1>5 DEF d

LEMMA GrantedMoves ==
  ASSUME NEW e \in EngineState
  PROVE  Move(e, Granted(e)) /\ Move(e, Status(Granted(e), "Authenticating"))
<1>1. Granted(e) \in EngineState
  BY ProbingType
<1>2. Same(e, Granted(e))
  BY DEF Granted, Same, EngineState
<1> QED BY <1>1, <1>2, SameMoves, StatusMoves, MoveTransitive DEF States

LEMMA ProbingExchanges ==
  ASSUME NEW e \in EngineState, NEW f, e.probe = None
  PROVE  Exchanged(e, f, Probing(e))
<1> DEFINE m == Status(Granted(e), "Authenticating")
           d == Probing(e)
<1>1. m \in EngineState /\ d \in EngineState /\ Move(e, m)
  BY ProbingType, GrantedMoves
<1>2. m.state = "Authenticating" /\ m.generation = e.generation /\ m.session = e.session
  <2>1. Granted(e) \in EngineState
    BY ProbingType
  <2>2. Granted(e).generation = e.generation /\ Granted(e).session = e.session
    BY DEF Granted, EngineState
  <2> QED BY <2>1, <2>2, StatusFields
<1>3. d = [m EXCEPT !.probe = [gen |-> e.generation, result |-> "running"]]
  BY DEF Probing
<1> HIDE DEF m, d
<1>4. /\ d.peer = m.peer /\ d.state = m.state /\ d.generation = m.generation
      /\ d.session = m.session /\ d.config = m.config
      /\ d.adapters = m.adapters /\ d.retry_attempt = m.retry_attempt
  BY <1>1, <1>3 DEF EngineState
<1>5. Exchanged(e, f, d)
  BY <1>1, <1>2, <1>4 DEF Exchanged, Move, Carries, Waits
<1> QED BY <1>5 DEF d

LEMMA PacketExchanges ==
  ASSUME NEW e \in EngineState, NEW g, NEW f \in Frames, NEW d \in Packet(e, g, f)
  PROVE  Exchanged(e, f, d)
<1> DEFINE online == e.state = "Authenticated" \/ e.probe # None
           h == Heard(e, f, online)
           a == [h EXCEPT !.start = "off"]
<1>1. h \in EngineState /\ Exchanged(e, f, h)
  BY HeardType, HeardExchanges
<1>2. Exchanged(e, f, e)
  BY ReflexiveExchange
<1>3. \/ d = e
      \/ d = a
      \/ d \in Failed(h)
      \/ d = Granted(e)
      \/ ~online /\ d = Probing(e)
      \/ d \in Failed(Status(Granted(e), "Authenticating"))
      \/ d \in Failed(e)
  BY PacketCases
<1> HIDE DEF h
<1>4. a \in EngineState /\ Same(h, a)
  BY <1>1 DEF EngineState, Deadline, Same
<1> HIDE DEF a
<1>5. CASE d = a
  BY <1>1, <1>4, <1>5, SameMoves, MoveExchanges
<1>6. CASE d \in Failed(h)
  BY <1>1, <1>6, FailedMoves, MoveExchanges
<1>7. CASE d = Granted(e)
  BY <1>2, <1>7, GrantedMoves, MoveExchanges
<1>8. CASE ~online /\ d = Probing(e)
  BY <1>8, ProbingExchanges
<1>9. CASE d \in Failed(Status(Granted(e), "Authenticating"))
  <2>1. Move(e, d)
    BY <1>9, ProbingType, GrantedMoves, FailedMoves, MoveTransitive
  <2> QED BY <1>2, <2>1, MoveExchanges
<1>10. CASE d \in Failed(e)
  BY <1>2, <1>10, FailedMoves, MoveExchanges
<1> QED BY <1>2, <1>3, <1>5, <1>6, <1>7, <1>8, <1>9, <1>10

\* Online, a frame costs the session only if it ends it or cannot be answered.
LEMMA PacketKeepsSession ==
  ASSUME NEW e \in EngineState, e.state = "Authenticated", NEW g, NEW f \in Frames,
         NEW d \in Packet(e, g, f)
  PROVE  d.session = e.session \/ f.kind \in {"failure", "malformed", "request"}
<1>1. SUFFICES ASSUME f.kind \notin {"failure", "malformed", "request"} PROVE d.session = e.session
  OBVIOUS
<1>2. Receive(e.peer, f, TRUE) \in {"ignore", "success"}
  <2>1. f.kind \in {"unsupported", "success", "other"}
    BY <1>1, EngineAssumption DEF Frame, FrameKinds
  <2> QED BY <2>1 DEF Receive, IsRequest, Answer
<1>3. d = e \/ d = Granted(e)
  BY <1>2 DEF Packet
<1> QED BY <1>3 DEF Granted, EngineState

LEMMA OnlineFields ==
  ASSUME NEW e \in EngineState
  PROVE  LET d == Online(e)
         IN /\ d \in EngineState /\ d.state = "Authenticated" /\ d.peer = e.peer
            /\ d.generation = e.generation /\ d.config = e.config /\ d.adapters = e.adapters
<1> DEFINE c == IF e.adapter = None THEN e.cache ELSE e.adapter
           d == Online(e)
<1>1. d \in EngineState
  BY OnlineType
<1>2. d = [e EXCEPT !.probe = None, !.candidates = {}, !.retry_attempt = 0, !.retry = "off",
                    !.cache = c, !.state = "Authenticated", !.internet = TRUE]
  BY DEF Online
<1> HIDE DEF c, d
<1>3. /\ d.state = "Authenticated" /\ d.peer = e.peer
      /\ d.generation = e.generation /\ d.config = e.config /\ d.adapters = e.adapters
  BY <1>2, SMTT(30) DEF EngineState
<1> QED BY <1>1, <1>3 DEF d

\* The answer of a probe is the only way to Authenticated.
LEMMA ConnectivityLeaves ==
  ASSUME NEW e \in EngineState, link \subseteq Adapters, NEW g, NEW up \in BOOLEAN,
         NEW d \in Connectivity(e, g, up)
  PROVE  /\ d \in EngineState /\ d.peer \in {NoPeer, e.peer} /\ d.generation >= e.generation
         /\ d.state = "Authenticated" => e.state = "Authenticated" \/ (g = e.generation /\ up)
         /\ Waits(e, d) \/ d.state = "Authenticated"
         /\ g # e.generation => d = e
<1>1. e.generation \in Nat
  BY GenerationNat
<1>2. CASE g # e.generation
  BY <1>1, <1>2, MoveReflexive DEF Connectivity, Move, Carries
<1>3. CASE g = e.generation /\ up
  <2> DEFINE o == Online(e)
  <2>1. PICK r \in RefreshAdapters(o) : d = r.eng
    BY <1>3 DEF Connectivity
  <2>2. /\ o \in EngineState /\ o.state = "Authenticated" /\ o.peer = e.peer
        /\ o.generation = e.generation
    BY OnlineFields
  <2> HIDE DEF o
  <2>3. d = o \/ d = [o EXCEPT !.adapters = link]
    BY <2>1, RefreshCases DEF Ok, Err
  <2>4. /\ d \in EngineState /\ d.state = "Authenticated" /\ d.peer = e.peer
        /\ d.generation = e.generation
    BY <2>2, <2>3 DEF EngineState
  <2> QED BY <1>1, <1>3, <2>4
<1>4. CASE g = e.generation /\ ~up
  <2> DEFINE n == [e EXCEPT !.probe = None]
  <2>1. d \in Failed(n)
    BY <1>4 DEF Connectivity
  <2>2. /\ n \in EngineState /\ n.peer = e.peer /\ n.state = e.state
        /\ n.generation = e.generation /\ n.config = e.config /\ n.adapters = e.adapters
        /\ n.retry_attempt = e.retry_attempt
    BY DEF EngineState
  <2> HIDE DEF n
  <2>3. Move(n, d)
    BY <2>1, <2>2, FailedMoves
  <2>4. Waits(e, d)
    BY <2>2, <2>3 DEF Move, Waits
  <2>5. d.peer \in {NoPeer, e.peer} /\ (d.state = "Authenticated" => e.state = "Authenticated")
    BY <2>2, <2>3 DEF Move, Carries
  <2>6. d \in EngineState /\ d.generation \in Nat /\ d.generation >= e.generation
    BY <1>1, <2>2, <2>3, GenerationNat DEF Move, Carries
  <2> QED BY <1>4, <2>4, <2>5, <2>6
<1> QED BY <1>2, <1>3, <1>4

-----------------------------------------------------------------------------
(* The answers that are queued.                                            *)

\* What was queued stays where it was, but for frames at the end.
Leads(q, r) ==
  \A i \in DOMAIN r : r[i].type = "connectivity" => i \in DOMAIN q /\ q[i] = r[i]

Answers(q, e) ==
  /\ \A i \in DOMAIN q : Given(q[i], e)
  /\ \A i, j \in DOMAIN q : Own(q[i], e) /\ Own(q[j], e) => i = j

\* The engine's probe is as it was, or its answers no longer count.
Onward(e, d) == d.generation > e.generation \/ (d.generation = e.generation /\ d.probe = e.probe)

LEMMA AnswerCarried ==
  ASSUME NEW e \in EngineState, NEW d \in EngineState, NEW x \in Event, Fresh(x, e), Given(x, e),
         Onward(e, d) \/ (d.generation >= e.generation /\ ~Own(x, e))
  PROVE  Given(x, d) /\ (Own(x, d) => Own(x, e))
<1>1. e.generation \in Nat /\ d.generation \in Nat
  BY GenerationNat
<1>2. x.type = "connectivity" => x.gen \in Nat /\ x.gen <= e.generation
  BY CallbackNat DEF Callbacks, Fresh
<1>3. Own(x, d) => Own(x, e) /\ d.generation = e.generation
  BY <1>1, <1>2 DEF Own, Onward
<1> QED BY <1>1, <1>3 DEF Given, Own, Onward

LEMMA AnswersCarried ==
  ASSUME NEW e \in EngineState, NEW d \in EngineState, NEW q \in Seq(Event), NEW r,
         AllFresh(q, e), Answers(q, e), Leads(q, r),
         Onward(e, d) \/ (d.generation >= e.generation /\ NoneOwn(q, e))
  PROVE  Answers(r, d) /\ (NoneOwn(q, e) => NoneOwn(r, d))
<1>1. \A i \in DOMAIN q : Given(q[i], d) /\ (Own(q[i], d) => Own(q[i], e))
  <2> TAKE i \in DOMAIN q
  <2>1. q[i] \in Event /\ Fresh(q[i], e) /\ Given(q[i], e)
    BY DEF AllFresh, Answers
  <2>2. Onward(e, d) \/ (d.generation >= e.generation /\ ~Own(q[i], e))
    BY DEF NoneOwn
  <2> QED BY <2>1, <2>2, AnswerCarried
<1>2. \A i \in DOMAIN r : Own(r[i], d) => i \in DOMAIN q /\ q[i] = r[i] /\ Own(q[i], e)
  BY <1>1 DEF Leads, Own
<1>3. \A i \in DOMAIN r : Given(r[i], d)
  BY <1>1, <1>2 DEF Given
<1>4. \A i, j \in DOMAIN r : Own(r[i], d) /\ Own(r[j], d) => i = j
  BY <1>2 DEF Answers
<1>5. NoneOwn(q, e) => NoneOwn(r, d)
  BY <1>2 DEF NoneOwn
<1> QED BY <1>3, <1>4, <1>5 DEF Answers

LEMMA AppendLeads ==
  ASSUME NEW q \in Seq(Event), NEW ev \in Event, ev.type # "connectivity"
  PROVE  Leads(q, Append(q, ev))
<1> SUFFICES ASSUME NEW i \in DOMAIN Append(q, ev), Append(q, ev)[i].type = "connectivity"
             PROVE  i \in DOMAIN q /\ q[i] = Append(q, ev)[i]
  BY DEF Leads
<1>1. i \in 1..Len(q) \/ i = Len(q) + 1
  OBVIOUS
<1>2. i # Len(q) + 1
  <2>1. Append(q, ev)[Len(q) + 1] = ev
    OBVIOUS
  <2> QED BY <2>1
<1> QED BY <1>1, <1>2

LEMMA TailAnswers ==
  ASSUME NEW e, NEW q \in Seq(Event), q # <<>>, Answers(q, e)
  PROVE  /\ Answers(Tail(q), e) /\ Given(Head(q), e)
         /\ Own(Head(q), e) => NoneOwn(Tail(q), e)
<1>1. 1 \in DOMAIN q /\ Head(q) = q[1]
  OBVIOUS
<1>2. \A i \in DOMAIN Tail(q) : i \in Nat /\ Tail(q)[i] = q[i + 1] /\ i + 1 \in DOMAIN q /\ i + 1 # 1
  OBVIOUS
<1>3. \A i \in DOMAIN Tail(q) : Given(Tail(q)[i], e)
  BY <1>2 DEF Answers
<1>4. \A i, j \in DOMAIN Tail(q) : Own(Tail(q)[i], e) /\ Own(Tail(q)[j], e) => i = j
  <2> SUFFICES ASSUME NEW i \in DOMAIN Tail(q), NEW j \in DOMAIN Tail(q),
                      Own(Tail(q)[i], e), Own(Tail(q)[j], e)
               PROVE  i = j
    OBVIOUS
  <2>1. i \in Nat /\ j \in Nat /\ i + 1 = j + 1
    BY <1>2 DEF Answers
  <2> QED BY <2>1
<1>5. Own(Head(q), e) => NoneOwn(Tail(q), e)
  BY <1>1, <1>2 DEF Answers, NoneOwn
<1> QED BY <1>1, <1>3, <1>4, <1>5 DEF Answers

\* The engine a step leaves, but for the frames of the captures it dropped.
LEMMA BecomeLeads ==
  ASSUME NEW d \in EngineState, NEW q \in Seq(Event), Become(d, q)
  PROVE  eng' \in EngineState /\ Same(d, eng') /\ eng'.adapter = d.adapter /\ Leads(q, queue')
<1> DEFINE m == [d EXCEPT !.spill = <<>>]
           both == q \o d.spill
<1>1. m \in EngineState /\ Same(d, m) /\ m.adapter = d.adapter
  <2>1. <<>> \in Seq(Reports)
    OBVIOUS
  <2> QED BY <2>1 DEF EngineState, Same
<1>2. d.spill \in Seq(Reports)
  BY DEF EngineState
<1>3. \A i \in DOMAIN both : both[i].type = "connectivity" => i \in DOMAIN q /\ q[i] = both[i]
  <2> SUFFICES ASSUME NEW i \in DOMAIN both, both[i].type = "connectivity"
               PROVE  i \in DOMAIN q /\ q[i] = both[i]
    OBVIOUS
  <2>1. Len(q) \in Nat /\ Len(d.spill) \in Nat /\ i \in 1..(Len(q) + Len(d.spill))
    BY <1>2
  <2>2. CASE i <= Len(q)
    BY <1>2, <2>1, <2>2
  <2>3. CASE i > Len(q)
    <3>1. both[i] = d.spill[i - Len(q)] /\ i - Len(q) \in DOMAIN d.spill
      BY <1>2, <2>1, <2>3
    <3>2. both[i] \in Reports
      BY <1>2, <3>1
    <3> QED BY <3>2 DEF Reports
  <2> QED BY <2>1, <2>2, <2>3
<1>4. both \in Seq(Event)
  <2>1. Reports \subseteq Event
    BY DEF Event
  <2> QED BY <1>2, <2>1
<1>5. eng' = m /\ (queue' = both \/ (queue' = SubSeq(both, 1, QueueCap) /\ Len(both) > QueueCap))
  BY DEF Become
<1> HIDE DEF both, m
<1>6. Leads(q, queue')
  <2>1. CASE queue' = SubSeq(both, 1, QueueCap) /\ Len(both) > QueueCap
    <3>1. QueueCap \in Nat /\ Len(both) \in Nat
      BY <1>4, EngineAssumption
    <3>2. \A i \in DOMAIN queue' : i \in DOMAIN both /\ queue'[i] = both[i]
      BY <1>4, <2>1, <3>1
    <3> QED BY <1>3, <3>2 DEF Leads
  <2> QED BY <1>3, <1>5, <2>1 DEF Leads
<1> QED BY <1>1, <1>5, <1>6

-----------------------------------------------------------------------------
(* The steps of the engine thread.                                         *)

\* The properties, as what they say of one step.
Pinned ==
  eng.peer # NoPeer /\ eng'.peer # NoPeer /\ eng'.peer # eng.peer
  => /\ eng.state = "Authenticated" \/ eng.probe # None
     /\ event.type = "packet" /\ event.frame.kind = "request"

Earned ==
  eng.state # "Authenticated" /\ eng'.state = "Authenticated"
  => eng.probe # None /\ eng.probe.result = "up" /\ ~eng.suspended

Kept ==
  eng.state = "Authenticated" /\ eng.session # None /\ eng'.session # eng.session
  => \/ eng'.session # None /\ eng'.session.reader = "closed"
     \/ eng.adapter \notin eng'.adapters
     \/ power # "none" \/ stop
     \/ pc = "dispatch" /\ event.type \in {"call", "capture_error"}
     \/ pc = "dispatch" /\ event.type = "packet"
          /\ event.frame.kind \in {"failure", "malformed", "request"}
     \/ pc = "due" /\ eng.reconcile = "expired" /\ eng'.config # eng.config

Paced ==
  eng'.retry_attempt < eng.retry_attempt
  => \/ "Authenticated" \in {eng.state, eng'.state}
     \/ pc = "dispatch" /\ event.type = "call"
          /\ event.call.action \in {"authenticate", "connect", "set_config"}
     \/ eng'.config # eng.config
     \/ power # "none"
     \/ eng.adapters = {} /\ eng'.adapters # {}

\* What all of them need of a step.
Lawful == Pinned /\ Earned /\ Kept /\ Paced

LEMMA CarriedLawful ==
  ASSUME eng \in EngineState, eng' \in EngineState, Carries(eng, eng')
  PROVE  Pinned /\ Earned
BY DEF Carries, Pinned, Earned

LEMMA WaitsPaced ==
  ASSUME eng \in EngineState, Waits(eng, eng')
  PROVE  Paced
BY DEF Waits, Paced

LEMMA SameCarries ==
  ASSUME NEW e, NEW d, NEW m, Same(d, m)
  PROVE  /\ Carries(e, d) => Carries(e, m)
         /\ Waits(e, d) => Waits(e, m)
         /\ \A f : Exchanged(e, f, d) /\ m \in EngineState => Exchanged(e, f, m)
BY DEF Same, Carries, Waits, Exchanged

LEMMA CarriesOnward ==
  ASSUME NEW e, NEW d, Carries(e, d)
  PROVE  Onward(e, d)
BY DEF Carries, Onward

\* A step that does not take an event, and after which none is being handled.
LEMMA AccountsKept ==
  ASSUME IInv, SInv, eng' \in EngineState, Leads(queue, queue'), pc' \notin {"boot", "dispatch"},
         Onward(eng, eng') \/ (eng'.generation >= eng.generation /\ NoneOwn(queue, eng))
  PROVE  SInv'
<1>1. eng \in EngineState /\ queue \in Seq(Event) /\ AllFresh(queue, eng) /\ Answers(queue, eng)
  BY DEF IInv, TypeOK, AllFresh, SInv, AnswersOnce, Answers
<1>2. Answers(queue', eng')
  BY <1>1, AnswersCarried
<1> QED BY <1>2 DEF SInv, AnswersOnce, Answers

LEMMA TakeAccounts ==
  ASSUME IInv, SInv, eng' \in EngineState, Carries(eng, eng'), queue # <<>>,
         Leads(Tail(queue), queue'), event' = Head(queue), pc' = "dispatch"
  PROVE  SInv'
<1>1. /\ eng \in EngineState /\ queue \in Seq(Event) /\ AllFresh(queue, eng)
      /\ Answers(queue, eng) /\ Onward(eng, eng')
  BY CarriesOnward DEF IInv, TypeOK, AllFresh, SInv, AnswersOnce, Answers
<1>2. /\ Tail(queue) \in Seq(Event) /\ Head(queue) \in Event
      /\ AllFresh(Tail(queue), eng) /\ Fresh(Head(queue), eng)
  BY <1>1, TailType, TailFresh
<1>3. /\ Answers(Tail(queue), eng) /\ Given(Head(queue), eng)
      /\ Own(Head(queue), eng) => NoneOwn(Tail(queue), eng)
  BY <1>1, TailAnswers
<1>4. Answers(queue', eng') /\ (NoneOwn(Tail(queue), eng) => NoneOwn(queue', eng'))
  BY <1>1, <1>2, <1>3, AnswersCarried
<1>5. Given(event', eng') /\ (Own(event', eng') => Own(Head(queue), eng))
  BY <1>1, <1>2, <1>3, AnswerCarried
<1> QED BY <1>3, <1>4, <1>5 DEF SInv, AnswersOnce, Answers, NoneOwn

LEMMA WorldLawful ==
  ASSUME IInv, SInv, World
  PROVE  SInv' /\ Lawful
<1>1. eng' = eng /\ pc' = pc /\ event' = event
  BY DEF World, PowerNotify, NetworkNotify, StopNotify, LinkChange, ClientCall
<1>2. /\ eng \in EngineState /\ queue \in Seq(Event) /\ AllFresh(queue, eng)
      /\ Answers(queue, eng) /\ Onward(eng, eng)
  BY DEF IInv, TypeOK, AllFresh, SInv, AnswersOnce, Answers, Onward
<1>3. Leads(queue, queue')
  <2>1. /\ [type |-> "power"] \in Event /\ [type |-> "network"] \in Event
        /\ [type |-> "stop"] \in Event
        /\ \A c \in Calls : [type |-> "call", call |-> c] \in Event
    BY DEF Event
  <2>2. \/ queue' = queue
        \/ \E ev \in Event : ev.type # "connectivity" /\ queue' = Append(queue, ev)
    <3>1. CASE \E p \in Powers : PowerNotify(p)
      BY <2>1, <3>1 DEF PowerNotify, TrySend
    <3>2. CASE NetworkNotify
      BY <2>1, <3>2 DEF NetworkNotify, TrySend
    <3>3. CASE StopNotify
      BY <2>1, <3>3 DEF StopNotify, TrySend
    <3>4. CASE \E a \in Adapters : LinkChange(a)
      BY <3>4 DEF LinkChange
    <3>5. CASE \E c \in Calls : ClientCall(c)
      BY <2>1, <3>5 DEF ClientCall
    <3> QED BY <3>1, <3>2, <3>3, <3>4, <3>5 DEF World
  <2>3. CASE queue' = queue
    BY <2>3 DEF Leads
  <2> QED BY <1>2, <2>2, <2>3, AppendLeads
<1>4. Answers(queue', eng) /\ (NoneOwn(queue, eng) => NoneOwn(queue', eng))
  BY <1>2, <1>3, AnswersCarried
<1>5. SInv'
  BY <1>1, <1>4 DEF SInv, AnswersOnce, Answers
<1>6. eng.retry_attempt \in Nat
  BY <1>2, AttemptNat
<1> QED BY <1>1, <1>5, <1>6 DEF Lawful, Pinned, Earned, Kept, Paced

\* A reader that says something, or closes, leaves what the probe has said.
LEMMA ReaderLawful ==
  ASSUME IInv, SInv, CaptureFails \/ \E f \in Frames : Capture(f)
  PROVE  SInv' /\ Lawful
<1> DEFINE s == [eng.session EXCEPT !.reader = "closed"]
<1>1. eng \in EngineState /\ Shape(eng) /\ queue \in Seq(Event)
      /\ AllFresh(queue, eng) /\ Answers(queue, eng)
  BY DEF IInv, TypeOK, Good, AllFresh, SInv, AnswersOnce, Answers
<1>2. eng.session # None /\ eng.session \in Session /\ eng.session.gen \in Generation
      /\ pc' = pc /\ event' = event
  BY <1>1 DEF CaptureFails, Capture, EngineState, Session
<1>3. \E ev \in Event : ev.type # "connectivity" /\ queue' = Append(queue, ev)
  <2>1. CASE CaptureFails
    <3> DEFINE ev == [type |-> "capture_error", gen |-> eng.session.gen]
    <3>1. ev \in Event
      BY <1>2 DEF Event, Reports
    <3> QED BY <2>1, <3>1 DEF CaptureFails, Deliver
  <2>2. ASSUME NEW f \in Frames, Capture(f)
        PROVE  \E ev \in Event : ev.type # "connectivity" /\ queue' = Append(queue, ev)
    <3> DEFINE ev == [type |-> "packet", gen |-> eng.session.gen, frame |-> f]
    <3>1. ev \in Event
      BY <1>2 DEF Event, Reports
    <3> QED BY <2>2, <3>1 DEF Capture, Deliver
  <2> QED BY <2>1, <2>2
<1>4. eng' = eng \/ eng' = [eng EXCEPT !.session = s]
  BY DEF CaptureFails, Capture
<1>5. s \in Session /\ s # None /\ s.reader = "closed"
  BY <1>2, EngineAssumption DEF Session
<1> HIDE DEF s
<1>6. /\ eng' \in EngineState /\ eng'.session \in {eng.session, s}
      /\ eng'.probe = eng.probe /\ eng'.generation = eng.generation
      /\ eng'.state = eng.state /\ eng'.peer = eng.peer
      /\ eng'.retry_attempt = eng.retry_attempt
  BY <1>1, <1>4, <1>5 DEF EngineState
<1>7. Answers(queue', eng') /\ (NoneOwn(queue, eng) => NoneOwn(queue', eng'))
  BY <1>1, <1>3, <1>6, AppendLeads, AnswersCarried DEF Onward
<1>8. pc # "boot"
  BY <1>2 DEF SInv
<1>9. Own(event, eng') = Own(event, eng) /\ Given(event, eng') = Given(event, eng)
  BY <1>6 DEF Own, Given
<1>10. SInv'
  BY <1>2, <1>7, <1>8, <1>9 DEF SInv, AnswersOnce, Answers
<1>11. eng.retry_attempt \in Nat
  BY <1>1, AttemptNat
<1> QED BY <1>5, <1>6, <1>10, <1>11 DEF Lawful, Pinned, Earned, Kept, Paced

\* A probe that ends had said nothing; what it says is the one answer of this attempt.
LEMMA ProbeLawful ==
  ASSUME IInv, SInv, NEW up \in BOOLEAN, ProbeEnds(up)
  PROVE  SInv' /\ Lawful
<1> DEFINE r == IF up THEN "up" ELSE "down"
           p == [eng.probe EXCEPT !.result = r]
           ev == [type |-> "connectivity", gen |-> eng.probe.gen, up |-> up]
<1>1. eng \in EngineState /\ Shape(eng) /\ queue \in Seq(Event)
      /\ AllFresh(queue, eng) /\ Answers(queue, eng) /\ Onward(eng, eng)
  BY DEF IInv, TypeOK, Good, AllFresh, SInv, AnswersOnce, Answers, Onward
<1>2. /\ eng.probe # None /\ eng.probe.result = "running" /\ eng.probe \in Probe
      /\ eng.probe.gen = eng.generation /\ eng.probe.gen \in Generation
      /\ queue' = Append(queue, ev) /\ pc' = pc /\ event' = event
      /\ eng' = [eng EXCEPT !.probe = p]
  BY <1>1 DEF ProbeEnds, Deliver, Shape, EngineState, Probe
<1>3. NoneOwn(queue, eng)
  BY <1>1, <1>2 DEF NoneOwn, Answers, Given
<1>4. pc = "dispatch" => ~Own(event, eng)
  BY <1>2 DEF SInv, AnswersOnce, Given
<1>5. ev \in Event /\ ev.type = "connectivity" /\ ev.up = up /\ ev.gen = eng.generation
  BY <1>2 DEF Event
<1>6. p \in Probe /\ p.result = r /\ p # None
  BY <1>2, EngineAssumption DEF Probe
<1> HIDE DEF p, ev
<1>7. /\ eng' \in EngineState /\ eng'.probe = p /\ eng'.generation = eng.generation
      /\ eng'.session = eng.session /\ eng'.state = eng.state /\ eng'.peer = eng.peer
      /\ eng'.retry_attempt = eng.retry_attempt
  BY <1>1, <1>2, <1>6 DEF EngineState
<1>8. Given(ev, eng')
  BY <1>5, <1>6, <1>7 DEF Given
<1>9. \A i \in DOMAIN queue' : Own(queue'[i], eng') => i = Len(queue) + 1 /\ queue'[i] = ev
  <2> SUFFICES ASSUME NEW i \in DOMAIN queue', Own(queue'[i], eng')
               PROVE  i = Len(queue) + 1 /\ queue'[i] = ev
    OBVIOUS
  <2>1. i \in 1..(Len(queue) + 1) /\ Len(queue) \in Nat /\ queue'[Len(queue) + 1] = ev
    BY <1>1, <1>2, <1>5
  <2>2. i \in 1..Len(queue) => i \in DOMAIN queue /\ queue'[i] = queue[i]
    BY <1>1, <1>2, <1>5
  <2>3. i \notin 1..Len(queue)
    BY <1>3, <1>7, <2>2 DEF NoneOwn, Own
  <2> QED BY <2>1, <2>3
<1>10. \A i \in DOMAIN queue' : Given(queue'[i], eng')
  BY <1>8, <1>9 DEF Given
<1>11. pc # "boot"
  BY <1>2 DEF SInv
<1>12. Own(event, eng') = Own(event, eng)
  BY <1>7 DEF Own
<1>13. SInv'
  BY <1>2, <1>4, <1>9, <1>10, <1>11, <1>12 DEF SInv, AnswersOnce, Given
<1>14. eng.retry_attempt \in Nat
  BY <1>1, AttemptNat
<1> QED BY <1>7, <1>13, <1>14 DEF Lawful, Pinned, Earned, Kept, Paced

LEMMA StoppingLawful ==
  ASSUME IInv, SInv, BootStopped \/ TakeStopped
  PROVE  SInv' /\ Lawful
<1> DEFINE i == Invalidate(eng)
           d == Status(i, "Stopped")
<1>1. eng \in EngineState /\ queue \in Seq(Event) /\ AllFresh(queue, eng)
      /\ Answers(queue, eng)
  BY DEF IInv, TypeOK, AllFresh, SInv, AnswersOnce, Answers
<1>2. /\ stop /\ eng' = d /\ pc' = "done"
      /\ queue' = queue \/ (queue # <<>> /\ queue' = Tail(queue))
  BY DEF BootStopped, TakeStopped, Stopping
<1>3. i \in EngineState /\ Move(eng, i) /\ i.generation = eng.generation + 1
  BY <1>1, InvalidateType, InvalidateFields, InvalidateMoves
<1> HIDE DEF i
<1>4. Move(eng, d) /\ d.generation = eng.generation + 1
  BY <1>1, <1>3, StatusMoves, StatusFields, MoveTransitive DEF States
<1> HIDE DEF d
<1>5. eng' \in EngineState /\ Carries(eng, eng') /\ Waits(eng, eng')
  BY <1>2, <1>4 DEF Move
<1>6. Answers(queue', eng')
  <2>1. Answers(queue', eng) /\ queue' \in Seq(Event) /\ AllFresh(queue', eng)
    <3>1. CASE queue' = queue
      BY <1>1, <3>1
    <3>2. CASE queue # <<>> /\ queue' = Tail(queue)
      <4>1. Answers(Tail(queue), eng)
        BY <1>1, <3>2, TailAnswers
      <4>2. Tail(queue) \in Seq(Event) /\ AllFresh(Tail(queue), eng)
        BY <1>1, <3>2, TailType, TailFresh
      <4> QED BY <3>2, <4>1, <4>2
    <3> QED BY <1>2, <3>1, <3>2
  <2>2. Leads(queue', queue')
    BY DEF Leads
  <2>3. Onward(eng, eng')
    BY <1>5, CarriesOnward
  <2> QED BY <1>1, <1>5, <2>1, <2>2, <2>3, AnswersCarried
<1>7. SInv'
  BY <1>2, <1>6 DEF SInv, AnswersOnce, Answers
<1>8. Kept
  BY <1>2 DEF Kept
<1> QED BY <1>1, <1>5, <1>7, <1>8, CarriedLawful, WaitsPaced DEF Lawful

\* A step that handles no event; what it does to the session is shown apart.
LEMMA CarriedStep ==
  ASSUME IInv, SInv, NEW d \in EngineState, NEW q \in Seq(Event), Become(d, q), Carries(eng, d)
  PROVE  /\ eng' \in EngineState /\ Carries(eng, eng') /\ Same(d, eng')
         /\ Leads(q, queue') /\ Pinned /\ Earned
         /\ Waits(eng, d) => Paced
         /\ q = queue /\ pc' \notin {"boot", "dispatch"} => SInv'
<1>1. eng' \in EngineState /\ Same(d, eng') /\ Leads(q, queue')
  BY BecomeLeads
<1>2. eng \in EngineState /\ Carries(eng, eng') /\ (Waits(eng, d) => Waits(eng, eng'))
  BY <1>1, SameCarries DEF IInv, TypeOK
<1>3. Pinned /\ Earned /\ (Waits(eng, d) => Paced)
  BY <1>1, <1>2, CarriedLawful, WaitsPaced
<1>4. q = queue /\ pc' \notin {"boot", "dispatch"} => SInv'
  BY <1>1, <1>2, CarriesOnward, AccountsKept
<1> QED BY <1>1, <1>2, <1>3, <1>4

\* Both latches: without a power notification they are only a scan.
LEMMA Drained ==
  ASSUME eng \in EngineState, link \subseteq Adapters, NEW p,
         NEW d \in DrainNetwork(DrainPower(eng, power), p)
  PROVE  /\ d \in EngineState /\ Carries(eng, d)
         /\ power = "none" =>
              /\ Waits(eng, d)
              /\ eng.state = "Authenticated" /\ eng.session # None =>
                   d.session = eng.session \/ eng.adapter \notin d.adapters
<1> DEFINE e == DrainPower(eng, power)
<1>1. /\ e \in EngineState /\ Carries(eng, e)
      /\ power = "none" => e = eng
  BY DrainPowerType, PowerCarries
<1> HIDE DEF e
<1>2. Move(e, d)
  BY <1>1, DrainNetworkMoves DEF e
<1>3. d \in EngineState /\ Carries(eng, d)
  BY <1>1, <1>2, CarriesTransitive DEF Move
<1>4. ASSUME power = "none", eng.state = "Authenticated", eng.session # None
      PROVE  d.session = eng.session \/ eng.adapter \notin d.adapters
  <2>1. d = eng \/ d \in OrFailed(NetworkChanged(eng))
    BY <1>1, <1>4 DEF DrainNetwork, e
  <2> QED BY <1>4, <2>1, ScanKeepsSession
<1> QED BY <1>1, <1>2, <1>3, <1>4 DEF Move

LEMMA ExpireSame ==
  ASSUME NEW e \in EngineState, NEW due
  PROVE  Same(e, Expire(e, due)) /\ Expire(e, due).adapter = e.adapter
BY DEF Expire, Same, EngineState

LEMMA LoopLawful ==
  ASSUME IInv, SInv,
         Boot \/ TakeEvent \/ Timeout \/ TickStopped \/ \E due \in Dues : TickDrain(due)
  PROVE  SInv' /\ Lawful
<1> DEFINE drained == DrainPower(eng, power)
<1>1. /\ eng \in EngineState /\ link \subseteq Adapters /\ queue \in Seq(Event)
      /\ AllFresh(queue, eng) /\ Answers(queue, eng)
  BY DEF IInv, TypeOK, AllFresh, SInv, AnswersOnce, Answers
<1>2. /\ drained \in EngineState /\ Carries(eng, drained)
      /\ power = "none" => drained = eng
  BY <1>1, DrainPowerType, PowerCarries
<1>3. CASE Boot
  <2>1. PICK s : /\ s = drained \/ s \in Start(drained)
                 /\ Become(s, queue)
    BY <1>3 DEF Boot
  <2> HIDE DEF drained
  <2>2. Move(drained, s)
    BY <1>1, <1>2, <2>1, StartMoves, MoveReflexive
  <2>3. s \in EngineState /\ Carries(eng, s) /\ (power = "none" => Waits(eng, s))
    BY <1>1, <1>2, <2>2, CarriesTransitive DEF Move
  <2>4. pc = "boot" /\ pc' = "wait"
    BY <1>3 DEF Boot
  <2>5. SInv' /\ Pinned /\ Earned /\ (Waits(eng, s) => Paced)
    BY <1>1, <2>1, <2>3, <2>4, CarriedStep
  <2>6. Kept /\ (power # "none" => Paced)
    BY <2>4 DEF SInv, Kept, Paced
  <2> QED BY <2>3, <2>5, <2>6 DEF Lawful
<1>4. CASE TakeEvent
  <2>1. PICK d \in DrainNetwork(drained, network /\ Head(queue).type # "network") :
          Become(d, Tail(queue))
    BY <1>4 DEF TakeEvent
  <2>2. queue # <<>> /\ event' = Head(queue) /\ pc' = "dispatch"
    BY <1>4 DEF TakeEvent
  <2>3. /\ d \in EngineState /\ Carries(eng, d)
        /\ power = "none" =>
             /\ Waits(eng, d)
             /\ eng.state = "Authenticated" /\ eng.session # None =>
                  d.session = eng.session \/ eng.adapter \notin d.adapters
    BY <1>1, <2>1, Drained
  <2> HIDE DEF drained
  <2>4. Tail(queue) \in Seq(Event)
    BY <1>1, <2>2, TailType
  <2>5. /\ eng' \in EngineState /\ Carries(eng, eng') /\ Same(d, eng')
        /\ Leads(Tail(queue), queue') /\ Pinned /\ Earned /\ (Waits(eng, d) => Paced)
    BY <2>1, <2>3, <2>4, CarriedStep
  <2>6. SInv'
    BY <2>2, <2>5, TakeAccounts
  <2>7. Kept /\ (power # "none" => Paced)
    BY <2>3, <2>5 DEF Kept, Paced, Same
  <2> QED BY <2>3, <2>5, <2>6, <2>7 DEF Lawful
<1>5. CASE Timeout \/ TickStopped
  <2>1. eng' = eng /\ queue' = queue /\ pc' \notin {"boot", "dispatch"}
    BY <1>5 DEF Timeout, TickStopped
  <2>2. Leads(queue, queue') /\ Onward(eng, eng') /\ eng.retry_attempt \in Nat
    BY <1>1, <2>1, AttemptNat DEF Leads, Onward
  <2>3. SInv'
    BY <1>1, <2>1, <2>2, AccountsKept
  <2> QED BY <2>1, <2>2, <2>3 DEF Lawful, Pinned, Earned, Kept, Paced
<1>6. ASSUME NEW due \in Dues, TickDrain(due) PROVE SInv' /\ Lawful
  <2>1. PICK e \in DrainNetwork(drained, network) :
          \E now \in {e, Expire(e, due)} : Become(now, queue) /\ pc' \in {"due", "wait"}
    BY <1>6 DEF TickDrain
  <2>2. /\ e \in EngineState /\ Carries(eng, e)
        /\ power = "none" =>
             /\ Waits(eng, e)
             /\ eng.state = "Authenticated" /\ eng.session # None =>
                  e.session = eng.session \/ eng.adapter \notin e.adapters
    BY <1>1, <2>1, Drained
  <2> HIDE DEF drained
  <2>3. PICK now \in {e, Expire(e, due)} : Become(now, queue) /\ pc' \in {"due", "wait"}
    BY <2>1
  <2>4. now \in EngineState /\ Same(e, now)
    BY <2>2, <2>3, ExpireType, ExpireSame DEF Same
  <2>5. Carries(eng, now) /\ (Waits(eng, e) => Waits(eng, now))
    BY <2>2, <2>4, SameCarries
  <2>6. /\ SInv' /\ Same(now, eng') /\ Pinned /\ Earned /\ (Waits(eng, now) => Paced)
    BY <1>1, <2>3, <2>4, <2>5, CarriedStep
  <2>7. Kept /\ (power # "none" => Paced)
    BY <2>2, <2>4, <2>6 DEF Kept, Paced, Same
  <2> QED BY <2>2, <2>5, <2>6, <2>7 DEF Lawful
<1> QED BY <1>3, <1>4, <1>5, <1>6

\* A step without a notification or a call, which is a move and keeps the session of an
\* online engine, is lawful.
LEMMA MoveLawful ==
  ASSUME IInv, SInv, NEW d, Move(eng, d), Become(d, queue), pc' \notin {"boot", "dispatch"},
         eng.state = "Authenticated" /\ eng.session # None =>
           \/ d.session = eng.session \/ eng.adapter \notin d.adapters
           \/ pc = "dispatch" /\ event.type = "capture_error"
  PROVE  SInv' /\ Lawful
<1>1. queue \in Seq(Event)
  BY DEF IInv, TypeOK
<1>2. SInv' /\ Pinned /\ Earned /\ Paced /\ Same(d, eng')
  BY <1>1, CarriedStep DEF Move
<1>3. Kept
  BY <1>2 DEF Kept, Same
<1> QED BY <1>2, <1>3 DEF Lawful

LEMMA PacketLawful ==
  ASSUME IInv, SInv, HandlePacket
  PROVE  SInv' /\ Lawful
<1>1. /\ eng \in EngineState /\ queue \in Seq(Event) /\ Answers(queue, eng)
      /\ pc = "dispatch" => event \in Event
  BY DEF IInv, TypeOK, SInv, AnswersOnce, Answers
<1>2. PICK d \in Packet(eng, event.gen, event.frame) : Become(d, queue)
  BY DEF HandlePacket, Dispatch
<1>3. pc = "dispatch" /\ event.type = "packet" /\ pc' = "tick" /\ event.frame \in Frames
  BY <1>1, EventFields DEF HandlePacket, Dispatch
<1>4. Exchanged(eng, event.frame, d)
  BY <1>1, <1>2, <1>3, PacketExchanges
<1>5. eng' \in EngineState /\ Same(d, eng') /\ Leads(queue, queue')
  BY <1>1, <1>2, <1>4, BecomeLeads DEF Exchanged
<1>6. Exchanged(eng, event.frame, eng')
  BY <1>4, <1>5, SameCarries
<1>7. SInv'
  <2>1. eng.probe = None => NoneOwn(queue, eng)
    BY <1>1 DEF Answers, Given, NoneOwn
  <2>2. eng.generation \in Nat /\ eng'.generation \in Nat
    BY <1>1, <1>5, GenerationNat
  <2>3. Onward(eng, eng') \/ (eng'.generation >= eng.generation /\ NoneOwn(queue, eng))
    BY <1>6, <2>1, <2>2 DEF Exchanged, Onward
  <2> QED BY <1>3, <1>5, <2>3, AccountsKept
<1>8. Pinned /\ Earned
  BY <1>3, <1>6 DEF Exchanged, Pinned, Earned
<1>9. Paced
  BY <1>1, <1>6, WaitsPaced DEF Exchanged
<1>10. Kept
  <2>1. eng.state = "Authenticated" =>
          d.session = eng.session \/ event.frame.kind \in {"failure", "malformed", "request"}
    BY <1>1, <1>2, <1>3, PacketKeepsSession
  <2> QED BY <1>3, <1>5, <2>1 DEF Kept, Same
<1> QED BY <1>7, <1>8, <1>9, <1>10 DEF Lawful

\* The answer of a probe counts only if the probe of this attempt has given it, and then
\* no other is on its way.
LEMMA ConnectivityLawful ==
  ASSUME IInv, SInv, HandleConnectivity
  PROVE  SInv' /\ Lawful
<1>1. /\ eng \in EngineState /\ link \subseteq Adapters /\ queue \in Seq(Event)
      /\ Shape(eng)
  BY DEF IInv, TypeOK, Good
<1>2. PICK d \in Connectivity(eng, event.gen, event.up) : Become(d, queue)
  BY DEF HandleConnectivity, Dispatch
<1>3. /\ pc = "dispatch" /\ event.type = "connectivity" /\ pc' = "tick" /\ event \in Event
      /\ event.up \in BOOLEAN /\ Fresh(event, eng)
      /\ Given(event, eng) /\ (Own(event, eng) => NoneOwn(queue, eng))
  <2>1. pc = "dispatch" /\ event.type = "connectivity" /\ pc' = "tick"
    BY DEF HandleConnectivity, Dispatch
  <2>2. event \in Event /\ Fresh(event, eng)
    BY <2>1 DEF IInv, TypeOK
  <2> QED BY <2>1, <2>2, EventFields DEF SInv, AnswersOnce
<1>4. CASE event.gen # eng.generation
  <2>1. d = eng
    BY <1>1, <1>2, <1>3, <1>4, ConnectivityLeaves
  <2> QED BY <1>1, <1>2, <1>3, <2>1, MoveReflexive, MoveLawful
<1>5. CASE event.gen = eng.generation
  <2>1. /\ eng.probe # None /\ NoneOwn(queue, eng) /\ ~eng.suspended
        /\ event.up => eng.probe.result = "up"
    BY <1>3, <1>5 DEF Own, Given, Fresh, Callbacks, Closed
  <2>2. /\ d \in EngineState /\ d.peer \in {NoPeer, eng.peer}
        /\ d.generation >= eng.generation
        /\ d.state = "Authenticated" => eng.state = "Authenticated" \/ event.up
        /\ Waits(eng, d) \/ d.state = "Authenticated"
    BY <1>1, <1>2, <1>3, ConnectivityLeaves
  <2>3. eng' \in EngineState /\ Same(d, eng') /\ Leads(queue, queue')
    BY <1>1, <1>2, <2>2, BecomeLeads
  <2>4. SInv'
    BY <1>3, <2>1, <2>2, <2>3, AccountsKept DEF Same
  <2>5. Pinned /\ Earned
    BY <2>1, <2>2, <2>3 DEF Same, Pinned, Earned
  <2>6. Kept
    BY <1>1, <2>1 DEF Shape, Kept
  <2>7. Paced
    BY <2>2, <2>3 DEF Same, Waits, Paced
  <2> QED BY <2>4, <2>5, <2>6, <2>7 DEF Lawful
<1> QED BY <1>4, <1>5

LEMMA HandleLawful ==
  ASSUME IInv, SInv, HandleCaptureError \/ HandleControl \/ HandlePower \/ HandleNetwork
  PROVE  SInv' /\ Lawful
<1>1. /\ eng \in EngineState /\ link \subseteq Adapters /\ queue \in Seq(Event)
      /\ pc = "dispatch" => event \in Event
  BY DEF IInv, TypeOK
<1>2. CASE HandleCaptureError
  <2>1. PICK d \in CaptureError(eng, event.gen) : Become(d, queue)
    BY <1>2 DEF HandleCaptureError, Dispatch
  <2>2. pc = "dispatch" /\ event.type = "capture_error" /\ pc' = "tick"
    BY <1>2 DEF HandleCaptureError, Dispatch
  <2>3. Move(eng, d)
    BY <1>1, <2>1, FailedMoves, MoveReflexive DEF CaptureError
  <2> QED BY <2>1, <2>2, <2>3, MoveLawful
<1>3. CASE HandleControl
  <2>1. PICK d \in HandleCall(eng, event.call) : Become(d, queue)
    BY <1>3 DEF HandleControl, Dispatch
  <2>2. pc = "dispatch" /\ event.type = "call" /\ pc' = "tick"
    BY <1>3 DEF HandleControl, Dispatch
  <2>3. event.call \in Calls
    BY <1>1, <2>2, EventFields
  <2>4. /\ d \in EngineState /\ Carries(eng, d)
        /\ \/ Waits(eng, d)
           \/ event.call.action \in {"authenticate", "connect", "set_config"}
    BY <1>1, <2>1, <2>3, HandleCallCarries
  <2>5. SInv' /\ Pinned /\ Earned /\ (Waits(eng, d) => Paced)
    BY <1>1, <2>1, <2>2, <2>4, CarriedStep
  <2>6. Kept
    BY <2>2 DEF Kept
  <2>7. Paced
    BY <2>2, <2>4, <2>5 DEF Paced
  <2> QED BY <2>5, <2>6, <2>7 DEF Lawful
<1>4. CASE HandlePower
  <2>1. Become(eng, queue) /\ pc' = "tick"
    BY <1>4 DEF HandlePower, Dispatch
  <2> QED BY <1>1, <2>1, MoveReflexive, MoveLawful
<1>5. CASE HandleNetwork
  <2>1. PICK d \in OrFailed(NetworkChanged(eng)) : Become(d, queue)
    BY <1>5 DEF HandleNetwork, Dispatch
  <2>2. pc' = "tick"
    BY <1>5 DEF HandleNetwork, Dispatch
  <2>3. Move(eng, d)
    <3>1. \A o \in NetworkChanged(eng) : Move(eng, o.eng)
      BY <1>1, NetworkChangedMoves
    <3> QED BY <1>1, <2>1, <3>1, OrFailedMoves
  <2>4. eng.state = "Authenticated" /\ eng.session # None =>
          d.session = eng.session \/ eng.adapter \notin d.adapters
    BY <1>1, <2>1, ScanKeepsSession
  <2> QED BY <2>1, <2>2, <2>3, <2>4, MoveLawful
<1> QED BY <1>2, <1>3, <1>4, <1>5

\* Online, only the reconciliation is ever due.
LEMMA DeadlineLawful ==
  ASSUME IInv, SInv, Reconcile \/ HandshakeTimeout \/ ResendStart \/ RetryNow
  PROVE  SInv' /\ Lawful
<1>1. /\ eng \in EngineState /\ link \subseteq Adapters /\ queue \in Seq(Event)
      /\ Shape(eng)
  BY DEF IInv, TypeOK, Good
<1>2. CASE Reconcile
  <2> DEFINE quiet == [eng EXCEPT !.reconcile = "armed"]
             reloaded == {quiet} \cup UNION {ApplyConfig(quiet, c) : c \in Configs \ {eng.config}}
  <2>1. PICK e \in reloaded : \E d \in OrFailed(NetworkChanged(e)) :
          Become(d, queue) /\ pc' \in {"due", "wait"}
    BY <1>2 DEF Reconcile, Due
  <2>2. PICK d \in OrFailed(NetworkChanged(e)) : Become(d, queue) /\ pc' \in {"due", "wait"}
    BY <2>1
  <2>3. pc = "due" /\ eng.reconcile = "expired"
    BY <1>2 DEF Reconcile, Due
  <2>4. quiet \in EngineState /\ Same(eng, quiet) /\ quiet.adapter = eng.adapter
    BY <1>1 DEF EngineState, Deadline, Same
  <2>5. e = quiet \/ \E c \in Configs \ {eng.config} : e \in ApplyConfig(quiet, c)
    BY <2>1
  <2> HIDE DEF quiet, reloaded
  <2>6. Move(eng, quiet)
    BY <1>1, <2>4, SameMoves
  <2>7. e \in EngineState /\ Carries(eng, e) /\ (e = quiet \/ e.config # eng.config)
    <3>1. CASE e = quiet
      BY <2>4, <2>6, <3>1 DEF Move
    <3>2. ASSUME NEW c \in Configs \ {eng.config}, e \in ApplyConfig(quiet, c)
          PROVE  e \in EngineState /\ Carries(eng, e) /\ e.config # eng.config
      <4>1. e \in EngineState /\ Carries(quiet, e) /\ e.config = c
        BY <1>1, <2>4, <3>2, ApplyConfigCarries
      <4> QED BY <1>1, <2>4, <2>6, <4>1, CarriesTransitive DEF Move
    <3> QED BY <2>5, <3>1, <3>2
  <2>8. Move(e, d)
    <3>1. \A o \in NetworkChanged(e) : Move(e, o.eng)
      BY <1>1, <2>7, NetworkChangedMoves
    <3> QED BY <2>2, <2>7, <3>1, OrFailedMoves
  <2>9. d \in EngineState /\ Carries(eng, d) /\ d.config = e.config
    BY <1>1, <2>7, <2>8, CarriesTransitive DEF Move, Waits
  <2>10. SInv' /\ Pinned /\ Earned /\ Same(d, eng') /\ (Waits(eng, d) => Paced)
    BY <1>1, <2>2, <2>9, CarriedStep
  <2>11. CASE e = quiet
    <3>1. Move(eng, d)
      BY <1>1, <2>6, <2>8, <2>11, MoveTransitive
    <3>2. eng.state = "Authenticated" /\ eng.session # None =>
            d.session = eng.session \/ eng.adapter \notin d.adapters
      BY <1>1, <2>2, <2>4, <2>11, ScanKeepsSession DEF Same
    <3> QED BY <2>2, <3>1, <3>2, MoveLawful
  <2>12. CASE e.config # eng.config
    <3>1. eng'.config # eng.config
      BY <2>9, <2>10, <2>12 DEF Same
    <3>2. Kept /\ Paced
      BY <2>3, <3>1 DEF Kept, Paced
    <3> QED BY <2>10, <3>2 DEF Lawful
  <2> QED BY <2>7, <2>11, <2>12
<1>3. CASE HandshakeTimeout
  <2>1. PICK d \in Failed(eng) : Become(d, queue) /\ pc' \in {"due", "wait"}
    BY <1>3 DEF HandshakeTimeout, Due
  <2>2. eng.state # "Authenticated"
    BY <1>1, <1>3 DEF HandshakeTimeout, Shape
  <2> QED BY <1>1, <2>1, <2>2, FailedMoves, MoveLawful
<1>4. CASE ResendStart
  <2> DEFINE again == [eng EXCEPT !.start = "armed"]
  <2>1. PICK d : d \in {again} \cup Failed(eng) /\ Become(d, queue) /\ pc' \in {"due", "wait"}
    BY <1>4 DEF ResendStart, Due
  <2>2. eng.state # "Authenticated"
    BY <1>1, <1>4 DEF ResendStart, Shape
  <2>3. again \in EngineState /\ Same(eng, again)
    BY <1>1 DEF EngineState, Deadline, Same
  <2> HIDE DEF again
  <2>4. Move(eng, d)
    BY <1>1, <2>1, <2>3, SameMoves, FailedMoves
  <2> QED BY <2>1, <2>2, <2>4, MoveLawful
<1>5. CASE RetryNow
  <2> DEFINE e == [eng EXCEPT !.retry = "off"]
  <2>1. PICK d \in OrFailed(Authenticate(e)) : Become(d, queue) /\ pc' \in {"due", "wait"}
    BY <1>5 DEF RetryNow, Due
  <2>2. eng.state # "Authenticated"
    BY <1>1, <1>5 DEF RetryNow, Shape
  <2>3. e \in EngineState /\ Same(eng, e)
    BY <1>1 DEF EngineState, Deadline, Same
  <2> HIDE DEF e
  <2>4. \A o \in Authenticate(e) : Move(e, o.eng)
    BY <1>1, <2>3, AuthenticateMoves
  <2>5. Move(eng, d)
    BY <1>1, <2>1, <2>3, <2>4, OrFailedMoves, SameMoves, MoveTransitive
  <2> QED BY <2>1, <2>2, <2>5, MoveLawful
<1> QED BY <1>2, <1>3, <1>4, <1>5

LEMMA StepLawful ==
  ASSUME IInv, SInv, [Next]_vars
  PROVE  SInv' /\ [Lawful]_vars
<1>1. CASE UNCHANGED vars
  BY <1>1 DEF vars, SInv, AnswersOnce, NoneOwn
<1>2. CASE Next
  <2>1. CASE Workers
    BY <2>1, ReaderLawful, ProbeLawful DEF Workers
  <2>2. CASE Thread
    BY <2>2, StoppingLawful, LoopLawful, PacketLawful, ConnectivityLawful, HandleLawful,
       DeadlineLawful DEF Thread
  <2> QED BY <1>1, <1>2, <2>1, <2>2, WorldLawful DEF Next, Finished
<1> QED BY <1>1, <1>2

LEMMA Accounted == Spec => [](IInv /\ SInv)
<1>1. Init => SInv
  BY DEF Init, SInv, AnswersOnce
<1>2. IInv /\ SInv /\ [Next]_vars => SInv'
  BY StepLawful
<1> QED BY <1>1, <1>2, Inductive, PTL DEF Spec

-----------------------------------------------------------------------------
(* The theorems.                                                           *)

\* A handshake is with one authenticator: no order of frames, answers and attempts
\* changes the peer under it (authentication.rs receive, engine.rs packet).
THEOREM PeerStaysPinned == Spec => PeerIsPinned
<1>1. IInv /\ SInv /\ [Next]_vars =>
        [eng.peer # NoPeer /\ eng'.peer # NoPeer /\ eng'.peer # eng.peer
         => /\ eng.state = "Authenticated" \/ eng.probe # None
            /\ event.type = "packet" /\ event.frame.kind = "request"]_vars
  BY StepLawful DEF Lawful, Pinned
<1> QED BY <1>1, Accounted, PTL DEF Spec, PeerIsPinned

\* Authenticated is entered only on the answer of this attempt's own probe, however late
\* the answers of abandoned ones arrive (engine.rs connectivity, invalidate).
THEOREM OnlineIsEarned == Spec => OnlineByOwnProbe
<1>1. IInv /\ SInv /\ [Next]_vars =>
        [eng.state # "Authenticated" /\ eng'.state = "Authenticated"
         => eng.probe # None /\ eng.probe.result = "up" /\ ~eng.suspended]_vars
  BY StepLawful DEF Lawful, Earned
<1> QED BY <1>1, Accounted, PTL DEF Spec, OnlineByOwnProbe

\* Online, the capture is dropped only for the reasons of SessionKept: no late answer,
\* deadline or renewal costs the session (engine.rs packet, network_changed, tick).
THEOREM SessionIsKept == Spec => SessionKept
<1>1. IInv /\ SInv /\ [Next]_vars =>
        [eng.state = "Authenticated" /\ eng.session # None /\ eng'.session # eng.session
         => \/ eng'.session # None /\ eng'.session.reader = "closed"
            \/ eng.adapter \notin eng'.adapters
            \/ power # "none" \/ stop
            \/ pc = "dispatch" /\ event.type \in {"call", "capture_error"}
            \/ pc = "dispatch" /\ event.type = "packet"
                 /\ event.frame.kind \in {"failure", "malformed", "request"}
            \/ pc = "due" /\ eng.reconcile = "expired" /\ eng'.config # eng.config]_vars
  BY StepLawful DEF Lawful, Kept
<1> QED BY <1>1, Accounted, PTL DEF Spec, SessionKept

\* The wait before a retry shrinks only for the reasons of BackoffIsKept, along every
\* path that fails, fails over or scans (engine.rs failed, authenticate, network_changed).
THEOREM WaitIsKept == Spec => BackoffIsKept
<1>1. IInv /\ SInv /\ [Next]_vars =>
        [eng'.retry_attempt < eng.retry_attempt
         => \/ "Authenticated" \in {eng.state, eng'.state}
            \/ pc = "dispatch" /\ event.type = "call"
                 /\ event.call.action \in {"authenticate", "connect", "set_config"}
            \/ eng'.config # eng.config
            \/ power # "none"
            \/ eng.adapters = {} /\ eng'.adapters # {}]_vars
  BY StepLawful DEF Lawful, Paced
<1> QED BY <1>1, Accounted, PTL DEF Spec, BackoffIsKept

-----------------------------------------------------------------------------
(***************************************************************************)
(* IV. What an attempt needs, and what may still be said of it: WInv of    *)
(* EngineInvariant, of each method and then of every step.                 *)
(***************************************************************************)

\* The same attempt, of which no more is left.
Level(e, d) ==
  /\ d.state = e.state /\ d.config = e.config /\ d.candidates = e.candidates
  /\ d.session = e.session /\ d.generation = e.generation /\ d.spill = e.spill
  /\ d.probe # None => e.probe # None
  /\ d.handshake # "off" => e.handshake # "off"
  /\ d.start # "off" => e.start # "off"

\* A capture was opened: dropped ones leave none, and none changes its generation.
Begun(e, d) == d.generation # e.generation /\ d.session # None

\* An attempt goes on or is over, and one that begins has a complete configuration.
Goes(e, d) ==
  /\ d \in EngineState /\ Fit(d)
  /\ \/ d.generation > e.generation
     \/ /\ d.generation = e.generation /\ d.session = e.session
        /\ (Active(e) => Active(d)) /\ (Listed(e) => Listed(d))
  /\ Begun(e, d) => ValidAuth(d.config)

\* What begins need not be asked for.
Runs(e, d) == Goes(e, d) /\ (Begun(e, d) => d.config.auto_auth)

LEMMA FitLevel ==
  ASSUME NEW e, NEW d \in EngineState, Fit(e), Level(e, d)
  PROVE  Runs(e, d) /\ Fit(d)
<1>1. Fit(d)
  BY DEF Level, Fit, Busy, Active, Listed, Told, SpillPast
<1> QED BY <1>1 DEF Level, Runs, Goes, Begun, Active, Listed

LEMMA ExpireLevel ==
  ASSUME NEW e \in EngineState, NEW due
  PROVE  Level(e, Expire(e, due))
BY DEF Expire, Level, EngineState

LEMMA RunsReflexive ==
  ASSUME NEW e \in EngineState, Fit(e)
  PROVE  Runs(e, e)
BY DEF Runs, Goes, Begun

LEMMA RunsTransitive ==
  ASSUME NEW e \in EngineState, NEW m \in EngineState, NEW d \in EngineState,
         Goes(e, m), Goes(m, d), d.config = m.config
  PROVE  /\ Goes(e, d)
         /\ Runs(e, m) /\ Runs(m, d) => Runs(e, d)
<1>1. e.generation \in Nat /\ m.generation \in Nat /\ d.generation \in Nat
  BY GenerationNat
<1>2. \/ d.generation > e.generation
      \/ /\ d.generation = e.generation /\ d.session = e.session
         /\ (Active(e) => Active(d)) /\ (Listed(e) => Listed(d))
  BY <1>1 DEF Goes
<1>3. Begun(e, d) => Begun(e, m) \/ Begun(m, d)
  BY <1>1 DEF Goes, Begun
<1>4. Goes(e, d)
  BY <1>2, <1>3 DEF Goes
<1> QED BY <1>3, <1>4 DEF Runs

-----------------------------------------------------------------------------
(* Attempts.                                                               *)

\* What was said of an attempt says nothing of a later one.
LEMMA PastTold ==
  ASSUME NEW e \in EngineState, SpillPast(e), NEW d \in EngineState,
         d.generation > e.generation, d.spill = e.spill
  PROVE  Told(d)
<1>1. e.generation \in Nat /\ d.generation \in Nat
  BY GenerationNat
<1>2. ASSUME NEW i \in DOMAIN d.spill PROVE d.spill[i].gen < d.generation
  <2>1. e.spill[i].gen \in Nat /\ e.spill[i].gen <= e.generation
    BY <1>2, SpillNat DEF SpillPast
  <2> QED BY <1>1, <2>1
<1>3. \A i \in DOMAIN d.spill : d.spill[i].gen \in Nat
  BY SpillNat
<1> QED BY <1>1, <1>2, <1>3 DEF Told, SpillPast

\* What is opened is on the list and has a complete configuration; what fails leaves
\* nothing behind but the list, and what its readers said.
LEMMA NextCandidateGoes ==
  ASSUME NEW e \in EngineState, e.config \in Configs, Listed(e), SpillPast(e),
         NEW o \in NextCandidate(e)
  PROVE  LET d == o.eng
         IN /\ d \in EngineState /\ d.generation > e.generation
            /\ Fit(d) /\ Listed(d) /\ d.config = e.config
            /\ d.session # None => ValidAuth(d.config) /\ d.session.adapter \in e.candidates
            /\ ~o.ok => ~Busy(d)
<1> DEFINE d == o.eng
<1>1. d \in EngineState
  BY NextCandidateType DEF Outcome
<1>2. CASE o = Ok(NoCandidate(e)) /\ e.candidates = {}
  <2> DEFINE i == Invalidate(e)
             m == [i EXCEPT !.adapter = None]
  <2>1. /\ i \in EngineState /\ i.generation = e.generation + 1 /\ ~Busy(i)
        /\ i.candidates = {} /\ i.spill = e.spill /\ i.config = e.config
    BY <1>2, InvalidateType, InvalidateFields DEF Busy
  <2> HIDE DEF i
  <2>2. /\ m \in EngineState /\ m.generation = e.generation + 1 /\ ~Busy(m)
        /\ m.candidates = {} /\ m.spill = e.spill /\ m.config = e.config
    BY <2>1, SMTT(30) DEF EngineState, Busy
  <2>3. d = Status(m, "Idle") /\ o.ok
    BY <1>2 DEF Ok, NoCandidate, i, m
  <2> HIDE DEF m, d
  <2>4. /\ d.generation = e.generation + 1 /\ ~Busy(d) /\ d.state = "Idle"
        /\ d.candidates = {} /\ d.spill = e.spill /\ d.config = e.config
    BY <2>2, <2>3, StatusFields DEF Busy
  <2>5. d.generation > e.generation
    BY <2>4, GenerationNat
  <2>6. d \in EngineState /\ Told(d)
    BY <1>1, <2>4, <2>5, PastTold DEF d
  <2>7. /\ d \in EngineState /\ d.generation > e.generation
        /\ Fit(d) /\ Listed(d) /\ d.config = e.config /\ d.session = None
    BY <2>4, <2>5, <2>6 DEF Fit, Listed, Busy
  <2> QED BY <2>3, <2>7 DEF d
<1>3. ASSUME NEW a \in e.candidates, o = Ok(Opened(Reach(e, a), a))
      PROVE  /\ d.generation > e.generation
             /\ Fit(d) /\ Listed(d) /\ d.config = e.config
             /\ d.session # None => ValidAuth(d.config) /\ d.session.adapter \in e.candidates
             /\ o.ok
  <2> DEFINE r == Reach(e, a)
  <2>1. /\ r \in EngineState /\ r.generation > e.generation /\ r.candidates \subseteq e.candidates
        /\ r.config = e.config /\ r.spill = e.spill /\ a \in Adapters
    BY ReachType, ReachFields DEF EngineState
  <2>2. d = Opened(r, a) /\ o.ok /\ d \in EngineState
    BY <1>1, <1>3 DEF Ok
  <2> HIDE DEF r, d
  <2>3. /\ d.generation = r.generation /\ d.state = "Authenticating"
        /\ d.candidates = r.candidates /\ d.config = r.config /\ d.spill = r.spill
        /\ d.session = [adapter |-> a, gen |-> r.generation, reader |-> "running"]
    BY <2>1, <2>2, OpenedFields
  <2>4. ValidAuth(d.config) /\ Told(d)
    BY <2>1, <2>2, <2>3, PastTold DEF Listed
  <2>5. d.session.adapter = a
    BY <2>3
  <2> QED BY <2>1, <2>2, <2>3, <2>4, <2>5 DEF Fit, Listed, Active
<1>4. CASE e.candidates # {} /\ o = Err(NoneOpened(e))
  <2>1. d = NoneOpened(e) /\ ~o.ok
    BY <1>4 DEF Err
  <2> HIDE DEF d
  <2>2. /\ d.generation > e.generation /\ ~Busy(d) /\ d.candidates = {}
        /\ d.config = e.config /\ d.spill = e.spill /\ d.state = e.state
    BY <1>4, <2>1, NoneOpenedFields DEF Busy
  <2>3. d \in EngineState /\ Told(d)
    BY <1>1, <2>2, PastTold DEF d
  <2> QED BY <2>1, <2>2, <2>3 DEF Fit, Listed, Busy, d
<1>5. ASSUME NEW a \in e.candidates, NEW s \in Spills(Reach(e, a).generation),
             o = Err(Spilled(Reach(e, a), s))
      PROVE  /\ d.generation > e.generation
             /\ Fit(d) /\ Listed(d) /\ d.config = e.config
             /\ d.session = None /\ ~Busy(d)
  <2> DEFINE r == Reach(e, a)
  <2>1. /\ r \in EngineState /\ r.generation > e.generation /\ r.candidates \subseteq e.candidates
        /\ r.config = e.config /\ r.spill = e.spill /\ ~Busy(r)
    BY ReachType, ReachFields DEF Busy
  <2>2. d = Spilled(r, s) /\ s \in Spills(r.generation)
    BY <1>5 DEF Err
  <2> HIDE DEF r, d
  <2>3. SpillPast(r)
    BY <2>1, PastTold DEF Told
  <2>4. /\ SpillPast(d) /\ d.generation = r.generation /\ d.candidates = r.candidates
        /\ d.config = r.config /\ ~Busy(d)
    BY <2>1, <2>2, <2>3, SpilledFields DEF Busy
  <2>5. Listed(d)
    BY <2>1, <2>4 DEF Listed
  <2>6. Told(d) /\ (d.state = "Authenticating" => Listed(d))
    BY <2>4, <2>5 DEF Told
  <2> QED BY <2>1, <2>4, <2>5, <2>6 DEF Fit, Busy
<1> QED BY <1>1, <1>2, <1>3, <1>4, <1>5, NextCandidateCases

LEMMA GiveUpGoes ==
  ASSUME NEW e \in EngineState, e.config \in Configs, ~Busy(e), Told(e)
  PROVE  LET d == GiveUp(e)
         IN /\ d \in EngineState /\ Fit(d) /\ d.generation = e.generation
            /\ d.config = e.config /\ d.session = None
<1> DEFINE n == IF e.retry_attempt < MaxAttempt THEN e.retry_attempt + 1 ELSE e.retry_attempt
           m == [e EXCEPT !.retry = "armed", !.retry_attempt = n]
           d == GiveUp(e)
<1>1. n \in Attempt
  BY EngineAssumption DEF EngineState, Attempt
<1>2. d \in {Status(e, "Failed"), Status(m, "Idle")} /\ d \in EngineState
  BY GiveUpType DEF GiveUp
<1> HIDE DEF n
<1>3. m \in EngineState
  BY <1>1 DEF EngineState, Deadline
<1>4. /\ m.generation = e.generation /\ m.spill = e.spill /\ m.config = e.config
      /\ m.session = e.session /\ m.probe = e.probe /\ m.candidates = e.candidates
      /\ m.handshake = e.handshake /\ m.start = e.start
  BY DEF EngineState
<1> HIDE DEF m, d
<1>5. /\ d.state \in {"Failed", "Idle"} /\ d.generation = e.generation
      /\ d.spill = e.spill /\ d.config = e.config /\ d.candidates = e.candidates /\ ~Busy(d)
  BY <1>2, <1>3, <1>4, StatusFields DEF Busy
<1>6. Told(d)
  BY <1>5 DEF Told, SpillPast, Listed
<1>7. Fit(d)
  BY <1>5, <1>6 DEF Fit
<1> QED BY <1>2, <1>5, <1>7 DEF d, Busy

\* Fail-over begins an attempt only with another that is listed, and not from online.
LEMMA FailedGoes ==
  ASSUME NEW e \in EngineState, e.config \in Configs, SpillPast(e),
         Listed(e) \/ e.state = "Authenticated", NEW d \in Failed(e)
  PROVE  /\ d \in EngineState /\ d.generation > e.generation /\ Fit(d)
         /\ d.config = e.config
         /\ d.session # None => /\ ValidAuth(d.config) /\ d.session.adapter \in e.candidates
                                /\ e.state # "Authenticated"
<1> DEFINE f == EndAttempt(e)
<1>1. /\ f \in EngineState /\ f.generation > e.generation /\ ~Busy(f)
      /\ f.candidates = IF e.state = "Authenticated" THEN {} ELSE e.candidates
      /\ f.config = e.config /\ f.spill = e.spill
  BY EndAttemptType, EndAttemptFields, GenerationNat DEF Busy
<1>2. \/ d = GiveUp(f)
      \/ \E o \in NextCandidate(f) : d = IF o.ok THEN o.eng ELSE GiveUp(o.eng)
  BY FailedCases
<1> HIDE DEF f
<1>3. Told(f)
  BY <1>1, PastTold
<1>4. CASE d = GiveUp(f)
  BY <1>1, <1>3, <1>4, GiveUpGoes
<1>5. ASSUME NEW o \in NextCandidate(f), d = IF o.ok THEN o.eng ELSE GiveUp(o.eng)
      PROVE  /\ d \in EngineState /\ d.generation > e.generation /\ Fit(d)
             /\ d.config = e.config
             /\ d.session # None => ValidAuth(d.config) /\ d.session.adapter \in f.candidates
  <2>1. Listed(f)
    BY <1>1 DEF Listed
  <2>2. /\ o.eng \in EngineState /\ o.eng.generation > f.generation
        /\ Fit(o.eng) /\ o.eng.config = f.config
        /\ o.eng.session # None =>
             ValidAuth(o.eng.config) /\ o.eng.session.adapter \in f.candidates
        /\ ~o.ok => ~Busy(o.eng)
    BY <1>1, <1>3, <2>1, NextCandidateGoes DEF Told
  <2>3. o.eng.generation > e.generation
    BY <1>1, <2>2, GenerationNat
  <2>4. CASE o.ok
    BY <1>1, <1>5, <2>2, <2>3, <2>4
  <2>5. CASE ~o.ok
    <3>1. Told(o.eng)
      BY <2>2 DEF Fit
    <3> QED BY <1>1, <1>5, <2>2, <2>3, <2>5, <3>1, GiveUpGoes
  <2> QED BY <2>4, <2>5
<1> QED BY <1>1, <1>2, <1>4, <1>5

LEMMA AuthenticateGoes ==
  ASSUME NEW e \in EngineState, e.config \in Configs, SpillPast(e), ~e.suspended,
         link \subseteq Adapters, NEW o \in Authenticate(e)
  PROVE  LET d == o.eng
         IN /\ d \in EngineState /\ d.generation > e.generation
            /\ Fit(d) /\ d.config = e.config
            /\ d.session # None => ValidAuth(d.config)
            /\ ~o.ok => Listed(d) /\ ~Busy(d)
<1> DEFINE b == BeginAttempt(e)
<1>1. /\ b \in EngineState /\ b.generation = e.generation + 1 /\ ~Busy(b)
      /\ b.candidates = {} /\ b.spill = e.spill /\ b.config = e.config
  BY BeginAttemptType, BeginAttemptFields DEF Busy
<1>2. b.generation > e.generation /\ Told(b)
  BY <1>1, GenerationNat, PastTold
<1>3. \/ o = Err(b)
      \/ ValidAuth(e.config) /\ \E r \in RefreshAdapters(b) : o \in TryCandidates(r.eng)
  BY AuthenticateCases
<1> HIDE DEF b
<1>4. CASE o = Err(b)
  BY <1>1, <1>2, <1>4 DEF Err, Fit, Listed, Busy
<1>5. ASSUME ValidAuth(e.config), NEW r \in RefreshAdapters(b), o \in TryCandidates(r.eng)
      PROVE  LET d == o.eng
             IN /\ d \in EngineState /\ d.generation > e.generation
                /\ Fit(d) /\ d.config = e.config
                /\ d.session # None => ValidAuth(d.config)
                /\ ~o.ok => Listed(d) /\ ~Busy(d)
  <2> DEFINE c == Select(r.eng)
             t == [r.eng EXCEPT !.candidates = c]
  <2>1. r.eng \in EngineState /\ Alike(b, r.eng)
    BY <1>1, RefreshType, RefreshSafe DEF Outcome
  <2>2. c \in SUBSET Adapters
    BY <2>1 DEF Select, EngineState
  <2>3. o \in NextCandidate(t)
    BY <1>5 DEF TryCandidates
  <2> HIDE DEF c
  <2>4. /\ t \in EngineState /\ t.generation = b.generation
        /\ t.spill = b.spill /\ t.config = b.config
    <3>1. t \in EngineState
      BY <2>1, <2>2, ZenonT(60) DEF EngineState
    <3>2. /\ t.generation = r.eng.generation /\ t.spill = r.eng.spill
          /\ t.config = r.eng.config
      BY <2>1 DEF EngineState
    <3> QED BY <2>1, <3>1, <3>2 DEF Alike
  <2> HIDE DEF t
  <2>5. Listed(t) /\ t.config \in Configs /\ SpillPast(t)
    BY <1>1, <1>2, <1>5, <2>4 DEF Listed, Told, SpillPast
  <2>6. /\ o.eng \in EngineState /\ o.eng.generation > t.generation
        /\ Fit(o.eng) /\ Listed(o.eng) /\ o.eng.config = t.config
        /\ o.eng.session # None => ValidAuth(o.eng.config)
        /\ ~o.ok => ~Busy(o.eng)
    BY <2>3, <2>4, <2>5, NextCandidateGoes
  <2>7. o.eng.generation > e.generation
    BY <1>1, <1>2, <2>4, <2>6, GenerationNat
  <2> QED BY <1>1, <2>4, <2>6, <2>7
<1> QED BY <1>3, <1>4, <1>5

\* An outcome whose error failed() may answer.
Reported(e, o) ==
  /\ Runs(e, o.eng) /\ o.eng.config = e.config
  /\ ~o.ok => Listed(o.eng) /\ (e.config.auto_auth \/ o.eng.candidates = {})

LEMMA AuthenticateReported ==
  ASSUME NEW e \in EngineState, e.config \in Configs, SpillPast(e), ~e.suspended,
         e.config.auto_auth, link \subseteq Adapters, NEW o \in Authenticate(e)
  PROVE  Reported(e, o)
<1>1. /\ o.eng \in EngineState /\ o.eng.generation > e.generation
      /\ Fit(o.eng) /\ o.eng.config = e.config
      /\ o.eng.session # None => ValidAuth(o.eng.config)
      /\ ~o.ok => Listed(o.eng)
  BY AuthenticateGoes
<1> QED BY <1>1 DEF Reported, Runs, Goes, Begun

LEMMA OrFailedRuns ==
  ASSUME NEW e \in EngineState, NEW S, \A o \in S : Reported(e, o),
         NEW d \in OrFailed(S)
  PROVE  Runs(e, d) /\ d.config = e.config
<1>1. PICK o \in S : d \in IF o.ok THEN {o.eng} ELSE Failed(o.eng)
  BY DEF OrFailed
<1>2. /\ Reported(e, o) /\ o.eng \in EngineState /\ o.eng.config \in Configs
      /\ SpillPast(o.eng)
  BY <1>1 DEF Reported, Runs, Goes, Fit, Told
<1>3. CASE o.ok
  BY <1>1, <1>2, <1>3 DEF Reported
<1>4. CASE ~o.ok
  <2>1. d \in Failed(o.eng) /\ Listed(o.eng)
    BY <1>1, <1>2, <1>4 DEF Reported
  <2>2. /\ d \in EngineState /\ d.generation > o.eng.generation /\ Fit(d)
        /\ d.config = o.eng.config
        /\ d.session # None => ValidAuth(d.config) /\ o.eng.candidates # {}
    BY <1>2, <2>1, FailedGoes
  <2>3. o.eng.generation >= e.generation /\ o.eng.config = e.config
    BY <1>2, GenerationNat DEF Reported, Runs, Goes
  <2>4. d.generation > e.generation
    BY <1>2, <2>2, <2>3, GenerationNat
  <2>5. d.session # None => e.config.auto_auth
    BY <1>2, <1>4, <2>2 DEF Reported
  <2> QED BY <2>2, <2>3, <2>4, <2>5 DEF Runs, Goes, Begun
<1> QED BY <1>3, <1>4

-----------------------------------------------------------------------------
(* Scans, notifications and configurations.                                *)

LEMMA EndedRuns ==
  ASSUME NEW e \in EngineState, NEW d \in EngineState, d.generation > e.generation,
         ~Busy(d), d.state # "Authenticating", d.config \in Configs, d.spill = e.spill,
         SpillPast(e)
  PROVE  Runs(e, d)
<1>1. Told(d)
  BY PastTold
<1> QED BY <1>1 DEF Runs, Goes, Begun, Fit, Busy

LEMMA RefreshRuns ==
  ASSUME NEW e \in EngineState, Fit(e), link \subseteq Adapters, NEW r \in RefreshAdapters(e)
  PROVE  /\ Runs(e, r.eng) /\ r.eng.config = e.config
         /\ r.eng.suspended = e.suspended /\ r.eng.candidates = e.candidates
<1>1. r.eng \in EngineState /\ Alike(e, r.eng)
  BY RefreshType, RefreshSafe DEF Outcome
<1>2. Level(e, r.eng)
  BY <1>1 DEF Alike, Level
<1> QED BY <1>1, <1>2, FitLevel DEF Alike

LEMMA ScannedRuns ==
  ASSUME NEW e \in EngineState, Fit(e), NEW seen
  PROVE  LET d == Scanned(e, seen)
         IN Runs(e, d) /\ d.config = e.config /\ d.suspended = e.suspended
<1> DEFINE n == IF seen = {} /\ e.adapters # {} THEN 0 ELSE e.retry_attempt
           f == [e EXCEPT !.retry_attempt = n]
           j == Invalidate(f)
           i == [j EXCEPT !.adapter = None, !.retry = "off"]
           d == Status(i, "Idle")
<1>1. n \in Attempt
  BY Numbers DEF EngineState
<1>2. \/ Scanned(e, seen) = f
      \/ Scanned(e, seen) = d
  BY DEF Scanned
<1> HIDE DEF n
<1>3. f \in EngineState /\ Level(e, f) /\ f.suspended = e.suspended
  BY <1>1 DEF EngineState, Level
<1> HIDE DEF f
<1>4. /\ j \in EngineState /\ j.generation = f.generation + 1 /\ Quiet(j)
      /\ j.spill = f.spill /\ j.suspended = f.suspended /\ j.config = f.config
  BY <1>3, InvalidateType, InvalidateFields DEF Quiet
<1> HIDE DEF j
<1>5. i \in EngineState
  BY <1>4 DEF EngineState, Deadline
<1>6. /\ i.generation = f.generation + 1 /\ Quiet(i)
      /\ i.spill = f.spill /\ i.suspended = f.suspended /\ i.config = f.config
  BY <1>4 DEF EngineState, Quiet
<1> HIDE DEF i
<1>7. /\ d \in EngineState /\ d.generation = f.generation + 1 /\ ~Busy(d) /\ d.state = "Idle"
      /\ d.spill = f.spill /\ d.suspended = f.suspended /\ d.config = f.config
  BY <1>5, <1>6, StatusType, StatusFields DEF Busy, Quiet, States
<1> HIDE DEF d
<1>8. d.generation > e.generation
  BY <1>3, <1>7, GenerationNat DEF Level
<1>9. Runs(e, d)
  BY <1>3, <1>7, <1>8, EndedRuns DEF Level, Fit, Told
<1> QED BY <1>2, <1>3, <1>7, <1>9, FitLevel DEF Level

LEMMA NetworkChangedReported ==
  ASSUME NEW e \in EngineState, Fit(e), link \subseteq Adapters,
         NEW o \in NetworkChanged(e)
  PROVE  Reported(e, o)
<1>1. CASE o = Ok(e)
  BY <1>1, RunsReflexive DEF Ok, Reported
<1>2. ASSUME ~e.suspended, NEW r \in RefreshAdapters(e),
             o \in Reconnect(Scanned(r.eng, e.adapters))
      PROVE  Reported(e, o)
  <2> DEFINE s == Scanned(r.eng, e.adapters)
  <2>1. r.eng \in EngineState /\ Runs(e, r.eng) /\ r.eng.config = e.config
        /\ ~r.eng.suspended /\ Fit(r.eng)
    BY <1>2, RefreshType, RefreshRuns DEF Outcome, Runs, Goes
  <2>2. s \in EngineState /\ Runs(r.eng, s) /\ s.config = e.config /\ ~s.suspended /\ Fit(s)
    BY <2>1, ScannedType, ScannedRuns DEF Runs, Goes
  <2>3. o \in Reconnect(s)
    BY <1>2
  <2> HIDE DEF s
  <2>4. Runs(e, s)
    BY <2>1, <2>2, RunsTransitive DEF Runs
  <2>5. Reported(s, o)
    <3>1. CASE o = Ok(s)
      BY <2>2, <3>1, RunsReflexive DEF Ok, Reported
    <3>2. CASE o \in Authenticate(s) /\ s.config.auto_auth
      BY <2>2, <3>2, AuthenticateReported DEF Fit, Told
    <3> QED BY <2>3, <3>1, <3>2 DEF Reconnect
  <2>6. o.eng \in EngineState
    BY <2>5 DEF Reported, Runs, Goes
  <2>7. Runs(e, o.eng)
    BY <2>2, <2>4, <2>5, <2>6, RunsTransitive DEF Reported, Runs
  <2> QED BY <2>2, <2>5, <2>7 DEF Reported
<1> QED BY <1>1, <1>2 DEF NetworkChanged

LEMMA DrainNetworkRuns ==
  ASSUME NEW e \in EngineState, Fit(e), link \subseteq Adapters, NEW p,
         NEW d \in DrainNetwork(e, p)
  PROVE  Runs(e, d) /\ d.config = e.config
<1>1. \A o \in NetworkChanged(e) : Reported(e, o)
  BY NetworkChangedReported
<1> QED BY <1>1, OrFailedRuns, RunsReflexive DEF DrainNetwork

LEMMA StartRuns ==
  ASSUME NEW e \in EngineState, Fit(e), link \subseteq Adapters,
         ~e.suspended, e.candidates = {}, NEW d \in Start(e)
  PROVE  Runs(e, d) /\ d.config = e.config
<1> DEFINE S == UNION {IF r.ok /\ e.config.auto_auth THEN Authenticate(r.eng) ELSE {r} :
                         r \in RefreshAdapters(e)}
<1>1. ASSUME NEW o \in S PROVE Reported(e, o)
  <2>1. PICK r \in RefreshAdapters(e) :
          o \in IF r.ok /\ e.config.auto_auth THEN Authenticate(r.eng) ELSE {r}
    OBVIOUS
  <2>2. /\ r.eng \in EngineState /\ Runs(e, r.eng) /\ r.eng.config = e.config
        /\ ~r.eng.suspended /\ r.eng.candidates = {} /\ Fit(r.eng)
    BY RefreshType, RefreshRuns DEF Outcome, Runs, Goes
  <2>3. CASE o = r
    BY <2>2, <2>3 DEF Reported, Listed
  <2>4. CASE e.config.auto_auth /\ o \in Authenticate(r.eng)
    <3>1. Reported(r.eng, o)
      BY <2>2, <2>4, AuthenticateReported DEF Fit, Told
    <3>2. o.eng \in EngineState
      BY <3>1 DEF Reported, Runs, Goes
    <3>3. Runs(e, o.eng)
      BY <2>2, <3>1, <3>2, RunsTransitive DEF Reported, Runs
    <3> QED BY <2>2, <3>1, <3>3 DEF Reported
  <2> QED BY <2>1, <2>3, <2>4
<1>2. d \in OrFailed(S)
  BY DEF Start
<1> HIDE DEF S
<1> QED BY <1>1, <1>2, OrFailedRuns

LEMMA PowerRuns ==
  ASSUME NEW e \in EngineState, Fit(e), NEW p
  PROVE  Runs(e, DrainPower(e, p))
<1> DEFINE j == Invalidate(e)
           quiet == [j EXCEPT !.candidates = {}, !.adapter = None,
                              !.retry = "off", !.retry_attempt = 0]
           r == IF e.config.auto_auth /\ ~e.manual_disconnect THEN "armed" ELSE "off"
           asleep == [quiet EXCEPT !.suspended = TRUE]
           awake == [quiet EXCEPT !.suspended = FALSE, !.retry = r]
           Over(x) == /\ x \in EngineState /\ x.generation = e.generation + 1 /\ Quiet(x)
                      /\ x.config = e.config /\ x.spill = e.spill
<1>1. DrainPower(e, p) \in {e, Status(asleep, "Idle"), Status(awake, "Idle")}
  BY DEF DrainPower
<1>2. r \in Deadline
  BY DEF Deadline
<1> HIDE DEF r
<1>3. Over(j)
  BY InvalidateType, InvalidateFields DEF Quiet
<1> HIDE DEF j
<1>4. quiet \in EngineState
  BY <1>3, Numbers, ZenonT(60) DEF EngineState, Deadline
<1>5. Over(quiet)
  BY <1>3, <1>4 DEF EngineState, Quiet
<1> HIDE DEF quiet
<1>6. Over(asleep)
  BY <1>5 DEF EngineState, Quiet
<1>7. Over(awake)
  BY <1>2, <1>5, ZenonT(60) DEF EngineState, Quiet
<1> HIDE DEF asleep, awake
<1>8. ASSUME NEW m, Over(m) PROVE Runs(e, Status(m, "Idle"))
  <2> DEFINE d == Status(m, "Idle")
  <2>1. Over(d) /\ d.state = "Idle"
    BY <1>8, StatusType, StatusFields DEF States, Quiet
  <2> HIDE DEF d
  <2>2. d.generation > e.generation
    BY <2>1, GenerationNat
  <2>3. Runs(e, d)
    BY <2>1, <2>2, EndedRuns DEF Fit, Told, Busy, Quiet
  <2> QED BY <2>3 DEF d
<1> QED BY <1>1, <1>6, <1>7, <1>8, RunsReflexive

\* A configuration that keeps account and adapter choice is as complete as the one it
\* replaces; any other ends the attempt.
LEMMA ConfiguredRuns ==
  ASSUME NEW e \in EngineState, Fit(e), NEW c \in Configs
  PROVE  LET d == Configured(e, c)
         IN Runs(e, d) /\ d.config = c /\ d.suspended = e.suspended
<1> DEFINE changed == e.config.account # c.account \/ e.config.iface # c.iface
           enabled == ~e.config.auto_auth /\ c.auto_auth
           n == IF enabled THEN 0 ELSE e.retry_attempt
           r == IF c.auto_auth THEN e.retry ELSE "off"
           set == [e EXCEPT !.config = c, !.retry_attempt = n, !.retry = r]
           j == Invalidate(set)
           i == [j EXCEPT !.retry = "off", !.retry_attempt = 0]
           d == Status(i, "Idle")
<1>1. n \in Attempt /\ r \in Deadline /\ c \in Config
  BY EngineAssumption, Numbers DEF EngineState, Deadline
<1>2. Configured(e, c) = IF changed THEN d ELSE set
  BY DEF Configured
<1>3. ~changed => c.complete = e.config.complete
  BY CompleteAssumption DEF Fit
<1> HIDE DEF n, r, changed
<1>4. /\ set \in EngineState /\ set.config = c /\ set.suspended = e.suspended
      /\ set.state = e.state /\ set.candidates = e.candidates
      /\ set.session = e.session /\ set.probe = e.probe /\ set.generation = e.generation
      /\ set.handshake = e.handshake /\ set.start = e.start /\ set.spill = e.spill
  BY <1>1 DEF EngineState
<1> HIDE DEF set
<1>5. CASE ~changed
  <2>1. Fit(set)
    BY <1>3, <1>4, <1>5 DEF Fit, Busy, Active, Listed, Told, SpillPast, ValidAuth
  <2>2. Runs(e, set)
    BY <1>3, <1>4, <1>5, <2>1 DEF Runs, Goes, Begun, Active, Listed, ValidAuth
  <2> QED BY <1>2, <1>4, <1>5, <2>2
<1>6. CASE changed
  <2>1. /\ j \in EngineState /\ j.generation = e.generation + 1 /\ Quiet(j)
        /\ j.spill = e.spill /\ j.suspended = e.suspended /\ j.config = c
    BY <1>4, InvalidateType, InvalidateFields DEF Quiet
  <2> HIDE DEF j
  <2>2. /\ i \in EngineState /\ i.generation = e.generation + 1 /\ Quiet(i)
        /\ i.spill = e.spill /\ i.suspended = e.suspended /\ i.config = c
    BY <2>1, Numbers, ZenonT(60) DEF EngineState, Deadline, Quiet
  <2> HIDE DEF i
  <2>3. /\ d \in EngineState /\ d.generation = e.generation + 1 /\ ~Busy(d)
        /\ d.spill = e.spill /\ d.suspended = e.suspended /\ d.config = c /\ d.state = "Idle"
    BY <2>2, StatusType, StatusFields DEF Busy, Quiet, States
  <2> HIDE DEF d
  <2>4. d.generation > e.generation
    BY <2>3, GenerationNat
  <2>5. Runs(e, d)
    BY <2>3, <2>4, EndedRuns DEF Fit, Told
  <2> QED BY <1>2, <1>6, <2>3, <2>5
<1> QED BY <1>5, <1>6

LEMMA ApplyConfigRuns ==
  ASSUME NEW e \in EngineState, Fit(e), link \subseteq Adapters,
         NEW c \in Configs, NEW d \in ApplyConfig(e, c)
  PROVE  Runs(e, d)
<1> DEFINE f == Configured(e, c)
<1>1. /\ f \in EngineState /\ Runs(e, f) /\ f.config = c /\ f.suspended = e.suspended
      /\ SpillPast(f)
  BY ConfiguredType, ConfiguredRuns DEF Runs, Goes, Fit, Told
<1>2. \/ d = f
      \/ c.auto_auth /\ ~e.suspended /\ d \in OrFailed(Authenticate(f))
  BY DEF ApplyConfig
<1> HIDE DEF f
<1>3. CASE c.auto_auth /\ ~e.suspended /\ d \in OrFailed(Authenticate(f))
  <2>1. \A o \in Authenticate(f) : Reported(f, o)
    BY <1>1, <1>3, AuthenticateReported
  <2>2. Runs(f, d) /\ d.config = f.config
    BY <1>1, <1>3, <2>1, OrFailedRuns
  <2> QED BY <1>1, <2>2, RunsTransitive DEF Runs, Goes
<1> QED BY <1>1, <1>2, <1>3

\* A connect opens a capture for whoever asked.
LEMMA ConnectGoes ==
  ASSUME NEW e \in EngineState, e.config \in Configs, SpillPast(e), ~e.suspended,
         link \subseteq Adapters, NEW d \in Connect(e)
  PROVE  /\ d \in EngineState /\ d.generation > e.generation /\ Fit(d)
         /\ d.session # None => ValidAuth(d.config)
<1> DEFINE asked == [e EXCEPT !.manual_disconnect = FALSE, !.retry_attempt = 0]
<1>1. asked \in EngineState
  BY Numbers DEF EngineState
<1>2. /\ ~asked.suspended /\ asked.config = e.config /\ asked.generation = e.generation
      /\ SpillPast(asked)
  BY DEF EngineState, SpillPast
<1>3. PICK o \in Authenticate(asked) : d = IF o.ok THEN o.eng ELSE Status(o.eng, "Failed")
  BY DEF Connect
<1> HIDE DEF asked
<1>4. /\ o.eng \in EngineState /\ o.eng.generation > asked.generation
      /\ Fit(o.eng) /\ o.eng.config = asked.config
      /\ o.eng.session # None => ValidAuth(o.eng.config)
      /\ ~o.ok => ~Busy(o.eng)
  BY <1>1, <1>2, <1>3, AuthenticateGoes
<1>5. CASE o.ok
  BY <1>2, <1>3, <1>4, <1>5
<1>6. CASE ~o.ok
  <2> DEFINE f == o.eng
             s == Status(f, "Failed")
  <2>1. d = s /\ f \in EngineState /\ ~Busy(f)
    BY <1>3, <1>4, <1>6
  <2> HIDE DEF f
  <2>2. /\ s \in EngineState /\ s.state = "Failed" /\ ~Busy(s)
        /\ s.config = f.config /\ s.generation = f.generation /\ s.spill = f.spill
        /\ s.session = f.session /\ s.candidates = f.candidates
    BY <2>1, StatusType, StatusFields DEF States, Busy
  <2> HIDE DEF s
  <2>3. Told(s)
    BY <1>4, <2>2 DEF Fit, Told, SpillPast, Listed, f
  <2>4. Fit(s)
    BY <1>2, <1>4, <2>2, <2>3 DEF Fit, f
  <2> QED BY <1>2, <1>4, <2>1, <2>2, <2>4 DEF f, Busy
<1> QED BY <1>5, <1>6

LEMMA LogoffRuns ==
  ASSUME NEW e \in EngineState, Fit(e)
  PROVE  Runs(e, Logoff(e))
<1> DEFINE j == Invalidate(e)
           i == [j EXCEPT !.manual_disconnect = TRUE, !.retry = "off", !.candidates = {}]
           d == Status(i, "Idle")
<1>1. /\ j \in EngineState /\ j.generation = e.generation + 1 /\ Quiet(j)
      /\ j.spill = e.spill /\ j.config = e.config
  BY InvalidateType, InvalidateFields DEF Quiet
<1>2. Logoff(e) = d
  BY DEF Logoff
<1> HIDE DEF j
<1>3. /\ i \in EngineState /\ i.generation = e.generation + 1 /\ Quiet(i)
      /\ i.spill = e.spill /\ i.config = e.config
  BY <1>1, ZenonT(60) DEF EngineState, Deadline, Quiet
<1> HIDE DEF i
<1>4. /\ d \in EngineState /\ d.state = "Idle" /\ d.generation = e.generation + 1 /\ Quiet(d)
      /\ d.spill = e.spill /\ d.config = e.config
  BY <1>3, StatusType, StatusFields DEF States, Quiet
<1> HIDE DEF d
<1>5. d.generation > e.generation
  BY <1>4, GenerationNat
<1> QED BY <1>2, <1>4, <1>5, EndedRuns DEF Fit, Told, Busy, Quiet

LEMMA HandleCallGoes ==
  ASSUME NEW e \in EngineState, Fit(e), link \subseteq Adapters,
         NEW c \in Calls, NEW d \in HandleCall(e, c)
  PROVE  /\ Goes(e, d)
         /\ Begun(e, d) => d.config.auto_auth \/ c.action \in {"authenticate", "connect"}
<1>1. c.action \in {"set_config", "connect"} => c.config \in Configs
  BY EngineAssumption DEF Call
<1>2. Runs(e, e)
  BY RunsReflexive
<1>3. CASE c.action = "authenticate"
  <2>1. d \in Connect(e)
    BY <1>3 DEF HandleCall
  <2>2. CASE e.suspended
    BY <1>2, <2>1, <2>2 DEF Connect, Runs
  <2>3. CASE ~e.suspended
    BY <1>3, <2>1, <2>3, ConnectGoes DEF Fit, Told, Goes, Begun
  <2> QED BY <2>2, <2>3
<1>4. CASE c.action = "logoff"
  BY <1>4, LogoffRuns DEF HandleCall, Runs
<1>5. CASE c.action = "interfaces"
  BY <1>5, RefreshRuns DEF HandleCall, Runs
<1>6. CASE c.action = "set_config"
  BY <1>1, <1>2, <1>6, ApplyConfigRuns DEF HandleCall, Runs
<1>7. CASE c.action = "connect"
  <2> DEFINE n == c.config
             f == [e EXCEPT !.config = n]
  <2>1. n \in Configs /\ n \in Config
    BY <1>1, <1>7, EngineAssumption
  <2>2. d = e \/ (~e.suspended /\ d \in Connect(f))
    BY <1>7 DEF HandleCall
  <2> HIDE DEF n
  <2>3. /\ f \in EngineState /\ f.config = n
        /\ f.suspended = e.suspended /\ f.generation = e.generation /\ SpillPast(f)
    BY <2>1 DEF EngineState, Fit, Told, SpillPast
  <2> HIDE DEF f
  <2>4. CASE ~e.suspended /\ d \in Connect(f)
    <3>1. /\ d \in EngineState /\ d.generation > e.generation /\ Fit(d)
          /\ (d.session # None => ValidAuth(d.config))
      BY <2>1, <2>3, <2>4, ConnectGoes
    <3> QED BY <1>7, <3>1 DEF Goes, Begun
  <2> QED BY <1>2, <2>2, <2>4 DEF Runs
<1>8. c.action \in {"authenticate", "logoff", "interfaces", "set_config", "connect"}
  BY EngineAssumption DEF Call
<1> QED BY <1>3, <1>4, <1>5, <1>6, <1>7, <1>8

-----------------------------------------------------------------------------
(* Frames, errors and answers of the attempt.                               *)

\* What begins is another candidate of the attempt, which is not online.
Follows(e, d) ==
  /\ Goes(e, d)
  /\ Begun(e, d) => d.session.adapter \in e.candidates /\ e.state # "Authenticated"

\* An attempt that fails, from wherever a method has brought it.
LEMMA FailedFollows ==
  ASSUME NEW e \in EngineState, Fit(e), Active(e) \/ Listed(e),
         NEW x \in EngineState, x.state = e.state \/ e.state # "Authenticated",
         x.config = e.config, x.candidates = e.candidates,
         x.generation = e.generation, x.spill = e.spill, NEW d \in Failed(x)
  PROVE  Follows(e, d)
<1>1. Listed(x) \/ x.state = "Authenticated"
  BY DEF Fit, Active, Listed
<1>2. SpillPast(x)
  BY DEF Fit, Told, SpillPast
<1>3. /\ d \in EngineState /\ d.generation > e.generation /\ Fit(d)
      /\ d.session # None => /\ ValidAuth(d.config) /\ d.session.adapter \in e.candidates
                             /\ x.state # "Authenticated"
  BY <1>1, <1>2, FailedGoes DEF Fit
<1> QED BY <1>3 DEF Follows, Goes, Begun

LEMMA LevelFollows ==
  ASSUME NEW e \in EngineState, Fit(e), NEW d \in EngineState, Level(e, d)
  PROVE  Follows(e, d)
BY FitLevel DEF Follows, Runs, Level, Begun

LEMMA PacketFollows ==
  ASSUME NEW e \in EngineState, Fit(e), NEW g, g = e.generation => Listed(e),
         NEW f \in Frames, NEW d \in Packet(e, g, f)
  PROVE  Follows(e, d)
<1> DEFINE online == e.state = "Authenticated" \/ e.probe # None
           h == Heard(e, f, online)
           s == [h EXCEPT !.start = "off"]
           a == Granted(e)
           t == Status(a, "Authenticating")
<1>1. CASE d = e
  <2>1. Level(e, e)
    BY DEF Level
  <2> QED BY <1>1, <2>1, LevelFollows
<1>2. CASE g = e.generation
  <2>1. Listed(e)
    BY <1>2
  <2>2. h \in EngineState /\ Alike(e, h)
    BY HeardType DEF Heard, Alike, EngineState
  <2>3. /\ a \in EngineState /\ Level(e, a) /\ a.probe = e.probe
        /\ a.handshake = "off" /\ a.start = "off"
    BY ProbingType DEF Granted, EngineState, Level
  <2>4. CASE d = s
    <3> HIDE DEF h
    <3>1. s \in EngineState
      BY <2>2, SMTT(30) DEF EngineState, Deadline
    <3>2. Level(h, s)
      BY <2>2 DEF EngineState, Level
    <3>3. Level(e, s)
      BY <2>2, <3>2 DEF Alike, Level
    <3> QED BY <2>4, <3>1, <3>3, LevelFollows
  <2>5. CASE d \in Failed(h)
    BY <2>1, <2>2, <2>5, FailedFollows DEF Alike
  <2>6. CASE d = a
    BY <2>3, <2>6, LevelFollows
  <2> HIDE DEF a
  <2>7. /\ t \in EngineState /\ t.state = "Authenticating" /\ t.config = e.config
        /\ t.candidates = e.candidates /\ t.session = e.session
        /\ t.generation = e.generation /\ t.spill = e.spill
        /\ t.handshake = "off" /\ t.start = "off"
    BY <2>3, StatusType, StatusFields DEF States, Level
  <2>8. ~online => e.state # "Authenticated"
    OBVIOUS
  <2>9. CASE ~online /\ d \in Failed(t)
    BY <2>1, <2>7, <2>8, <2>9, FailedFollows
  <2>10. CASE ~online /\ d = Probing(e)
    <3> DEFINE p == [gen |-> e.generation, result |-> "running"]
    <3>1. d = [t EXCEPT !.probe = p]
      BY <2>10 DEF Probing, a
    <3>2. d \in EngineState
      BY <2>10, ProbingType
    <3> HIDE DEF p, t
    <3>3. /\ d.state = "Authenticating" /\ d.config = e.config /\ d.candidates = e.candidates
          /\ d.session = e.session /\ d.generation = e.generation /\ d.spill = e.spill
      BY <2>7, <3>1 DEF EngineState
    <3>4. Fit(d) /\ Listed(d)
      BY <2>1, <3>3 DEF Fit, Active, Listed, Told, SpillPast
    <3> QED BY <3>2, <3>3, <3>4 DEF Follows, Goes, Begun, Active
  <2>11. CASE d \in Failed(e)
    BY <2>1, <2>11, FailedFollows
  <2> HIDE DEF online, h, s, t
  <2> QED BY <1>1, <2>4, <2>5, <2>6, <2>9, <2>10, <2>11, PacketCases DEF online, h, s, a, t
<1> HIDE DEF online, h, s, a, t
<1> QED BY <1>1, <1>2, PacketCases

LEMMA ConnectivityFollows ==
  ASSUME NEW e \in EngineState, Fit(e), NEW g, g = e.generation => Active(e),
         link \subseteq Adapters, NEW up, NEW d \in Connectivity(e, g, up)
  PROVE  Follows(e, d)
<1> DEFINE p == [e EXCEPT !.probe = None]
           o == Online(e)
<1>1. CASE g # e.generation
  <2>1. d = e /\ Level(e, e)
    BY <1>1 DEF Connectivity, Level
  <2> QED BY <2>1, LevelFollows
<1>2. CASE g = e.generation /\ up
  <2>1. PICK r \in RefreshAdapters(o) : d = r.eng
    BY <1>2 DEF Connectivity
  <2>2. /\ o \in EngineState /\ o.state = "Authenticated"
        /\ o.generation = e.generation /\ o.config = e.config
    BY OnlineFields
  <2> DEFINE c == IF e.adapter = None THEN e.cache ELSE e.adapter
  <2>3. o = [e EXCEPT !.probe = None, !.candidates = {}, !.retry_attempt = 0, !.retry = "off",
                      !.cache = c, !.state = "Authenticated", !.internet = TRUE]
    BY DEF Online
  <2> HIDE DEF c, o
  <2>4. o.session = e.session /\ o.spill = e.spill /\ o.candidates = {}
    BY <2>3, SMTT(30) DEF EngineState
  <2>5. Fit(o) /\ Listed(o)
    BY <2>2, <2>4 DEF Fit, Active, Listed, Told, SpillPast
  <2>6. Runs(o, d) /\ d.config = o.config
    BY <2>1, <2>2, <2>5, RefreshRuns
  <2>7. Goes(e, o)
    BY <2>2, <2>4, <2>5 DEF Goes, Begun, Active
  <2>8. d \in EngineState /\ Alike(o, d)
    BY <2>1, <2>2, RefreshType, RefreshSafe DEF Outcome
  <2>9. Goes(e, d)
    BY <2>2, <2>6, <2>7, <2>8, RunsTransitive DEF Runs
  <2> QED BY <2>2, <2>8, <2>9 DEF Alike, Follows, Begun
<1>3. CASE g = e.generation /\ ~up
  <2>1. d \in Failed(p)
    BY <1>3 DEF Connectivity
  <2>2. /\ p \in EngineState /\ p.state = e.state /\ p.config = e.config
        /\ p.candidates = e.candidates /\ p.generation = e.generation /\ p.spill = e.spill
    BY DEF EngineState
  <2> HIDE DEF p
  <2> QED BY <1>3, <2>1, <2>2, FailedFollows
<1> QED BY <1>1, <1>2, <1>3

-----------------------------------------------------------------------------
(* The steps.                                                              *)

AllWords(q, e) == \A i \in DOMAIN q : Word(q[i], e)

\* What begins in a step is complete, and wanted.
Reasoned ==
  Begun(eng, eng') =>
    /\ ValidAuth(eng'.config)
    /\ \/ eng'.config.auto_auth
       \/ pc = "dispatch" /\ event.type = "call"
            /\ event.call.action \in {"authenticate", "connect"}
       \/ FailOver

LEMMA GoesWord ==
  ASSUME NEW e \in EngineState, NEW d, Goes(e, d), NEW ev \in Event, Fresh(ev, e), Word(ev, e)
  PROVE  Word(ev, d)
<1> SUFFICES ASSUME ev.type \in Callbacks, ev.gen = d.generation
             PROVE  Listed(d) /\ (ev.type = "connectivity" => Active(d))
  BY DEF Word, Current
<1>1. ev.gen \in Nat /\ e.generation \in Nat /\ d.generation \in Nat
  BY CallbackNat, GenerationNat DEF Goes
<1>2. ev.gen <= e.generation
  BY DEF Fresh
<1> QED BY <1>1, <1>2 DEF Goes, Word, Current

LEMMA AllGoesWord ==
  ASSUME NEW e \in EngineState, NEW d, Goes(e, d), NEW q \in Seq(Event),
         AllFresh(q, e), AllWords(q, e)
  PROVE  AllWords(q, d)
<1>1. \A i \in DOMAIN q : q[i] \in Event
  OBVIOUS
<1> QED BY <1>1, GoesWord DEF AllFresh, AllWords

LEMMA AppendWord ==
  ASSUME NEW e, NEW q \in Seq(Event), AllWords(q, e), NEW ev \in Event, Word(ev, e)
  PROVE  AllWords(Append(q, ev), e)
<1> SUFFICES ASSUME NEW i \in DOMAIN Append(q, ev) PROVE Word(Append(q, ev)[i], e)
  BY DEF AllWords
<1>1. i \in 1..Len(q) \/ i = Len(q) + 1
  OBVIOUS
<1>2. CASE i \in 1..Len(q)
  <2>1. Append(q, ev)[i] = q[i] /\ i \in DOMAIN q
    BY <1>2
  <2> QED BY <2>1 DEF AllWords
<1>3. CASE i = Len(q) + 1
  <2>1. Append(q, ev)[i] = ev
    BY <1>3
  <2> QED BY <2>1
<1> QED BY <1>1, <1>2, <1>3

LEMMA TailWord ==
  ASSUME NEW e, NEW q \in Seq(Event), q # <<>>, AllWords(q, e)
  PROVE  AllWords(Tail(q), e) /\ Word(Head(q), e)
<1>1. 1 \in DOMAIN q /\ Head(q) = q[1]
  OBVIOUS
<1>2. ASSUME NEW i \in DOMAIN Tail(q) PROVE Word(Tail(q)[i], e)
  <2>1. Tail(q)[i] = q[i + 1] /\ i + 1 \in DOMAIN q
    BY <1>2
  <2> QED BY <2>1 DEF AllWords
<1> QED BY <1>1, <1>2 DEF AllWords

LEMMA WantedSplit ==
  WInv <=> /\ Fit(eng) /\ AllWords(queue, eng)
           /\ pc = "dispatch" => Word(event, eng)
BY DEF WInv, AllWords

\* What the readers of dropped captures said is of an attempt whose list is complete.
LEMMA ToldWords ==
  ASSUME NEW d \in EngineState, Told(d), NEW q \in Seq(Event), AllWords(q, d)
  PROVE  q \o d.spill \in Seq(Event) /\ AllWords(q \o d.spill, d)
<1> DEFINE both == q \o d.spill
<1>1. d.spill \in Seq(Reports) /\ Reports \subseteq Event
  BY DEF EngineState, Event
<1>2. both \in Seq(Event)
  BY <1>1
<1>3. Len(q) \in Nat /\ Len(d.spill) \in Nat
  BY <1>1
<1>4. ASSUME NEW i \in DOMAIN both PROVE Word(both[i], d)
  <2>1. i \in 1..(Len(q) + Len(d.spill))
    BY <1>1, <1>4
  <2>2. CASE i <= Len(q)
    <3>1. both[i] = q[i] /\ i \in DOMAIN q
      BY <1>1, <1>3, <2>1, <2>2
    <3> QED BY <3>1 DEF AllWords
  <2>3. CASE i > Len(q)
    <3>1. both[i] = d.spill[i - Len(q)] /\ i - Len(q) \in DOMAIN d.spill
      BY <1>1, <1>3, <2>1, <2>3
    <3>2. both[i].type # "connectivity"
      BY <1>1, <3>1 DEF Reports
    <3>3. both[i].gen = d.generation => Listed(d)
      BY <3>1 DEF Told
    <3> HIDE DEF both
    <3> QED BY <3>2, <3>3 DEF Word, Current
  <2> QED BY <1>3, <2>1, <2>2, <2>3
<1> QED BY <1>2, <1>4 DEF AllWords

\* What a step leaves is the engine of its method, and what its readers said is queued.
LEMMA BecomeGoes ==
  ASSUME NEW d, Goes(eng, d), eng \in EngineState, NEW q \in Seq(Event),
         AllFresh(q, eng), AllWords(q, eng), Become(d, q)
  PROVE  /\ Goes(eng, eng') /\ eng'.session = d.session /\ eng'.generation = d.generation
         /\ eng'.config = d.config
         /\ Fit(eng') /\ AllWords(queue', eng')
<1> DEFINE m == [d EXCEPT !.spill = <<>>]
           both == q \o d.spill
<1>1. d \in EngineState /\ Fit(d) /\ Told(d) /\ d.generation \in Nat
  BY GenerationNat DEF Goes, Fit
<1>2. m \in EngineState /\ m.spill = <<>>
  <2>1. <<>> \in Seq(Reports)
    OBVIOUS
  <2> QED BY <1>1, <2>1 DEF EngineState
<1>3. /\ m.state = d.state /\ m.config = d.config /\ m.candidates = d.candidates
      /\ m.session = d.session /\ m.probe = d.probe /\ m.generation = d.generation
      /\ m.handshake = d.handshake /\ m.start = d.start
  BY <1>1 DEF EngineState
<1>4. eng' = m
  BY DEF Become
<1> HIDE DEF m
<1>5. Fit(m)
  BY <1>1, <1>2, <1>3 DEF Fit, Busy, Active, Listed, Told, SpillPast
<1>6. Goes(eng, m)
  BY <1>2, <1>3, <1>5 DEF Goes, Begun, Active, Listed
<1>7. both \in Seq(Event) /\ AllWords(both, d)
  BY <1>1, AllGoesWord, ToldWords
<1>8. AllWords(both, m)
  BY <1>3, <1>7 DEF AllWords, Word, Current, Listed, Active
<1>9. queue' = both \/ (queue' = SubSeq(both, 1, QueueCap) /\ Len(both) > QueueCap)
  BY DEF Become
<1> HIDE DEF both
<1>10. AllWords(queue', m)
  <2>1. CASE queue' = SubSeq(both, 1, QueueCap) /\ Len(both) > QueueCap
    <3>1. QueueCap \in Nat /\ Len(both) \in Nat
      BY <1>7, EngineAssumption
    <3>2. \A i \in DOMAIN queue' : i \in DOMAIN both /\ queue'[i] = both[i]
      BY <1>7, <2>1, <3>1
    <3> QED BY <1>8, <3>2 DEF AllWords
  <2> QED BY <1>8, <1>9, <2>1
<1> QED BY <1>3, <1>4, <1>5, <1>6, <1>10

\* A step of the thread that handles no event afterwards.
LEMMA GoesStep ==
  ASSUME IInv, WInv, NEW d, Goes(eng, d), Become(d, queue), pc' # "dispatch"
  PROVE  /\ WInv' /\ Goes(eng, eng') /\ eng'.session = d.session
         /\ eng'.generation = d.generation /\ eng'.config = d.config
<1>1. eng \in EngineState /\ queue \in Seq(Event) /\ AllFresh(queue, eng)
      /\ AllWords(queue, eng)
  BY WantedSplit DEF IInv, TypeOK, AllFresh
<1>2. /\ Goes(eng, eng') /\ eng'.session = d.session /\ eng'.generation = d.generation
      /\ eng'.config = d.config /\ Fit(eng') /\ AllWords(queue', eng')
  BY <1>1, BecomeGoes
<1> QED BY <1>2 DEF WInv, AllWords

LEMMA RunsStep ==
  ASSUME IInv, WInv, NEW d, Runs(eng, d), Become(d, queue), pc' # "dispatch"
  PROVE  WInv' /\ Reasoned
<1>1. /\ WInv' /\ Goes(eng, eng') /\ eng'.session = d.session
      /\ eng'.generation = d.generation /\ eng'.config = d.config
  BY GoesStep DEF Runs
<1> QED BY <1>1 DEF Runs, Goes, Begun, Reasoned

LEMMA FollowsStep ==
  ASSUME IInv, WInv, NEW d, Follows(eng, d), Active(eng) \/ LateWord,
         Become(d, queue), pc' # "dispatch"
  PROVE  WInv' /\ Reasoned
<1>1. /\ WInv' /\ Goes(eng, eng') /\ eng'.session = d.session
      /\ eng'.generation = d.generation /\ eng'.config = d.config
  BY GoesStep DEF Follows
<1>2. Begun(eng, eng') => ValidAuth(eng'.config) /\ FailOver
  BY <1>1 DEF Follows, Goes, Begun, FailOver, Active
<1> QED BY <1>1, <1>2 DEF Reasoned

LEMMA WorldWanted ==
  ASSUME IInv, WInv, World
  PROVE  WInv' /\ Reasoned
<1>1. eng' = eng /\ pc' = pc /\ event' = event
  BY DEF World, PowerNotify, NetworkNotify, StopNotify, LinkChange, ClientCall
<1>2. queue \in Seq(Event) /\ AllWords(queue, eng)
  BY WantedSplit DEF IInv, TypeOK
<1>3. \/ queue' = queue
      \/ \E ev \in Event : ev.type \notin Callbacks /\ queue' = Append(queue, ev)
  <2>1. /\ [type |-> "power"] \in Event /\ [type |-> "network"] \in Event
        /\ [type |-> "stop"] \in Event
        /\ \A c \in Calls : [type |-> "call", call |-> c] \in Event
    BY DEF Event
  <2>2. CASE \E p \in Powers : PowerNotify(p)
    BY <2>1, <2>2 DEF PowerNotify, TrySend, Callbacks
  <2>3. CASE NetworkNotify
    BY <2>1, <2>3 DEF NetworkNotify, TrySend, Callbacks
  <2>4. CASE StopNotify
    BY <2>1, <2>4 DEF StopNotify, TrySend, Callbacks
  <2>5. CASE \E a \in Adapters : LinkChange(a)
    BY <2>5 DEF LinkChange
  <2>6. CASE \E c \in Calls : ClientCall(c)
    BY <2>1, <2>6 DEF ClientCall, Callbacks
  <2> QED BY <2>2, <2>3, <2>4, <2>5, <2>6 DEF World
<1>4. AllWords(queue', eng)
  BY <1>2, <1>3, AppendWord DEF Word, Current
<1>5. Reasoned
  BY <1>1 DEF Reasoned, Begun
<1> QED BY <1>1, <1>4, <1>5 DEF WInv, AllWords

\* Readers and probes belong to an attempt that is under way.
LEMMA WorkersWanted ==
  ASSUME IInv, WInv, Workers
  PROVE  WInv' /\ Reasoned
<1> DEFINE s == [eng.session EXCEPT !.reader = "closed"]
           p(up) == [eng.probe EXCEPT !.result = IF up THEN "up" ELSE "down"]
<1>1. eng \in EngineState /\ queue \in Seq(Event) /\ AllWords(queue, eng) /\ Fit(eng)
  BY WantedSplit DEF IInv, TypeOK
<1>2. \/ \E f \in Frames : Capture(f)
      \/ CaptureFails
      \/ \E up \in BOOLEAN : ProbeEnds(up)
  BY DEF Workers
<1>3. Active(eng) /\ Listed(eng) /\ pc' = pc /\ event' = event
  <2>1. Active(eng) /\ pc' = pc /\ event' = event
    BY <1>1, <1>2 DEF Fit, Busy, Capture, CaptureFails, ProbeEnds
  <2>2. eng.state = "Authenticated" => eng.candidates = {}
    BY DEF IInv, Good, Settled
  <2> QED BY <1>1, <2>1, <2>2 DEF Fit, Active, Listed
<1>4. eng.session # None => eng.session \in Session /\ eng.session.gen \in Generation
  BY <1>1 DEF EngineState, Session
<1>5. eng.probe # None => eng.probe \in Probe /\ eng.probe.gen \in Generation
  BY <1>1 DEF EngineState, Probe
<1>6. \/ eng' = eng
      \/ eng' = [eng EXCEPT !.session = s]
      \/ \E up \in BOOLEAN : eng' = [eng EXCEPT !.probe = p(up)]
  BY <1>2 DEF Capture, CaptureFails, ProbeEnds
<1> HIDE DEF s, p
<1>7. /\ eng'.state = eng.state /\ eng'.config = eng.config
      /\ eng'.candidates = eng.candidates /\ eng'.generation = eng.generation
      /\ eng'.spill = eng.spill
  BY <1>1, <1>6 DEF EngineState
<1>8. Fit(eng')
  BY <1>1, <1>3, <1>7 DEF Fit, Active, Listed, Told, SpillPast
<1>9. AllWords(queue', eng')
  <2>1. \A ev : Word(ev, eng')
    BY <1>3, <1>7 DEF Word, Listed, Active
  <2> QED BY <2>1 DEF AllWords
<1>10. Reasoned
  BY <1>7 DEF Reasoned, Begun
<1>11. \A ev : Word(ev, eng) => Word(ev, eng')
  BY <1>7 DEF Word, Current, Listed, Active
<1> QED BY <1>3, <1>8, <1>9, <1>10, <1>11 DEF WInv, AllWords

LEMMA StoppingWanted ==
  ASSUME IInv, WInv, BootStopped \/ TakeStopped
  PROVE  WInv' /\ Reasoned
<1> DEFINE i == Invalidate(eng)
           d == Status(i, "Stopped")
<1>1. eng \in EngineState /\ queue \in Seq(Event) /\ AllFresh(queue, eng)
      /\ AllWords(queue, eng) /\ Fit(eng)
  BY WantedSplit DEF IInv, TypeOK, AllFresh
<1>2. /\ eng' = d /\ pc' = "done"
      /\ queue' = queue \/ (queue # <<>> /\ queue' = Tail(queue))
  BY DEF BootStopped, TakeStopped, Stopping
<1>3. /\ i \in EngineState /\ i.generation = eng.generation + 1 /\ Quiet(i)
      /\ i.spill = eng.spill /\ i.config = eng.config
  BY <1>1, InvalidateType, InvalidateFields DEF Quiet
<1> HIDE DEF i
<1>4. /\ d \in EngineState /\ d.state = "Stopped" /\ d.generation = eng.generation + 1
      /\ Quiet(d) /\ d.spill = eng.spill /\ d.config = eng.config
  BY <1>3, StatusType, StatusFields DEF States, Quiet
<1> HIDE DEF d
<1>5. d.generation > eng.generation
  BY <1>1, <1>4, GenerationNat
<1>6. Runs(eng, d)
  BY <1>1, <1>4, <1>5, EndedRuns DEF Fit, Told, Busy, Quiet
<1>7. AllWords(queue, d)
  BY <1>1, <1>6, AllGoesWord DEF Runs
<1>8. AllWords(queue', d)
  BY <1>1, <1>2, <1>7, TailWord
<1> QED BY <1>2, <1>6, <1>8 DEF WInv, AllWords, Runs, Goes, Reasoned

LEMMA LoopWanted ==
  ASSUME IInv, WInv,
         Boot \/ TakeEvent \/ Timeout \/ TickStopped \/ \E due \in Dues : TickDrain(due)
  PROVE  WInv' /\ Reasoned
<1> DEFINE drained == DrainPower(eng, power)
<1>1. /\ eng \in EngineState /\ Good(eng) /\ eng.spill = <<>> /\ link \subseteq Adapters
      /\ queue \in Seq(Event) /\ Len(queue) <= QueueCap /\ AllFresh(queue, eng)
      /\ AllWords(queue, eng) /\ Fit(eng)
  BY WantedSplit DEF IInv, TypeOK, AllFresh
<1>2. drained \in EngineState /\ Runs(eng, drained) /\ Fit(drained)
      /\ drained.candidates \subseteq eng.candidates
  BY <1>1, PowerRuns, DrainPowerSafe DEF Runs, Goes
<1>3. ASSUME NEW p, NEW d \in DrainNetwork(drained, p)
      PROVE  d \in EngineState /\ Runs(eng, d) /\ Fit(d)
  <2>1. Runs(drained, d) /\ d.config = drained.config /\ d \in EngineState /\ Fit(d)
    BY <1>1, <1>2, <1>3, DrainNetworkRuns DEF Runs, Goes
  <2> HIDE DEF drained
  <2> QED BY <1>1, <1>2, <2>1, RunsTransitive DEF Runs
<1>4. CASE Boot
  <2>1. PICK s \in IF drained.suspended \/ drained.retry # "off" THEN {drained} ELSE Start(drained) :
          Become(s, queue)
    BY <1>4 DEF Boot
  <2>2. drained.candidates = {} /\ pc' = "wait"
    BY <1>2, <1>4 DEF Boot, IInv
  <2> HIDE DEF drained
  <2>3. Runs(eng, s)
    <3>1. CASE s = drained
      BY <1>2, <3>1
    <3>2. CASE ~drained.suspended /\ s \in Start(drained)
      <4>1. Runs(drained, s) /\ s.config = drained.config /\ s \in EngineState
        BY <1>1, <1>2, <2>2, <3>2, StartRuns, StartType
      <4> QED BY <1>1, <1>2, <4>1, RunsTransitive DEF Runs
    <3> QED BY <2>1, <3>1, <3>2
  <2> QED BY <2>1, <2>2, <2>3, RunsStep
<1>5. CASE TakeEvent
  <2>1. PICK d \in DrainNetwork(drained, network /\ Head(queue).type # "network") :
          Become(d, Tail(queue))
    BY <1>5 DEF TakeEvent
  <2>2. queue # <<>> /\ event' = Head(queue) /\ pc' = "dispatch"
    BY <1>5 DEF TakeEvent
  <2>3. Runs(eng, d)
    BY <1>3, <2>1
  <2> HIDE DEF drained
  <2>4. /\ Tail(queue) \in Seq(Event) /\ Head(queue) \in Event
        /\ AllFresh(Tail(queue), eng) /\ Fresh(Head(queue), eng)
        /\ AllWords(Tail(queue), eng) /\ Word(Head(queue), eng)
    BY <1>1, <2>2, TailType, TailFresh, TailWord
  <2>5. /\ Goes(eng, eng') /\ eng'.session = d.session /\ eng'.generation = d.generation
        /\ eng'.config = d.config /\ Fit(eng') /\ AllWords(queue', eng')
    BY <1>1, <2>1, <2>3, <2>4, BecomeGoes DEF Runs
  <2>6. Word(Head(queue), eng')
    BY <1>1, <2>4, <2>5, GoesWord
  <2>7. Reasoned
    BY <2>3, <2>5 DEF Runs, Goes, Begun, Reasoned
  <2> QED BY <2>2, <2>5, <2>6, <2>7 DEF WInv, AllWords
<1>6. CASE Timeout \/ TickStopped
  <2>1. eng' = eng /\ queue' = queue /\ pc' # "dispatch"
    BY <1>6 DEF Timeout, TickStopped
  <2> QED BY <1>1, <2>1 DEF WInv, AllWords, Reasoned, Begun
<1>7. ASSUME NEW due \in Dues, TickDrain(due) PROVE WInv' /\ Reasoned
  <2>1. PICK e \in DrainNetwork(drained, network) :
          \E now \in {e, Expire(e, due)} : Become(now, queue) /\ pc' \in {"due", "wait"}
    BY <1>7 DEF TickDrain
  <2>2. PICK now \in {e, Expire(e, due)} : Become(now, queue) /\ pc' \in {"due", "wait"}
    BY <2>1
  <2>3. e \in EngineState /\ Runs(eng, e) /\ Fit(e)
    BY <1>3, <2>1
  <2> HIDE DEF drained
  <2>4. now \in EngineState /\ Level(e, now)
    <3>1. Level(e, e) /\ Level(e, Expire(e, due))
      BY <2>3, ExpireLevel DEF Level
    <3> QED BY <2>2, <2>3, <3>1, ExpireType
  <2>5. Runs(e, now) /\ now.config = e.config
    BY <2>3, <2>4, FitLevel DEF Level
  <2>6. Runs(eng, now)
    BY <1>1, <2>3, <2>4, <2>5, RunsTransitive DEF Runs
  <2> QED BY <2>2, <2>6, RunsStep
<1> QED BY <1>4, <1>5, <1>6, <1>7

LEMMA HandleWanted ==
  ASSUME IInv, WInv,
         \/ HandlePacket \/ HandleCaptureError \/ HandleConnectivity
         \/ HandleControl \/ HandlePower \/ HandleNetwork
  PROVE  WInv' /\ Reasoned
<1>1. /\ eng \in EngineState /\ link \subseteq Adapters /\ Fit(eng)
      /\ pc = "dispatch" => event \in Event /\ Word(event, eng)
  BY WantedSplit DEF IInv, TypeOK
<1>2. CASE HandlePacket
  <2>1. event \in Event /\ event.type = "packet" /\ Word(event, eng) /\ event.frame \in Frames
    BY <1>1, <1>2, EventFields DEF HandlePacket, Dispatch
  <2>2. PICK d \in Packet(eng, event.gen, event.frame) : Become(d, queue) /\ pc' # "dispatch"
    BY <1>2 DEF HandlePacket, Dispatch
  <2>3. event.gen = eng.generation => Listed(eng)
    BY <2>1 DEF Word, Current, Callbacks
  <2>4. CASE event.gen = eng.generation
    <3>1. Follows(eng, d)
      BY <1>1, <2>1, <2>2, <2>3, PacketFollows
    <3>2. Active(eng) \/ LateWord
      BY <1>1, <1>2, <2>4 DEF Fit, Busy, LateWord, HandlePacket, Dispatch
    <3> QED BY <2>2, <3>1, <3>2, FollowsStep
  <2>5. CASE d = eng
    BY <1>1, <2>2, <2>5, RunsReflexive, RunsStep
  <2> QED BY <2>2, <2>4, <2>5, PacketCases
<1>3. CASE HandleCaptureError
  <2>1. event \in Event /\ event.type = "capture_error" /\ Word(event, eng)
    BY <1>1, <1>3 DEF HandleCaptureError, Dispatch
  <2>2. PICK d \in CaptureError(eng, event.gen) : Become(d, queue) /\ pc' # "dispatch"
    BY <1>3 DEF HandleCaptureError, Dispatch
  <2>3. CASE event.gen = eng.generation
    <3>1. Listed(eng) /\ d \in Failed(eng)
      BY <2>1, <2>2, <2>3 DEF Word, Current, Callbacks, CaptureError
    <3>2. Active(eng) \/ LateWord
      BY <1>1, <1>3, <2>3 DEF Fit, Busy, LateWord, HandleCaptureError, Dispatch
    <3>3. Follows(eng, d)
      BY <1>1, <3>1, FailedFollows
    <3> QED BY <2>2, <3>2, <3>3, FollowsStep
  <2>4. CASE d = eng
    BY <1>1, <2>2, <2>4, RunsReflexive, RunsStep
  <2> QED BY <2>2, <2>3, <2>4 DEF CaptureError
<1>4. CASE HandleConnectivity
  <2>1. event \in Event /\ event.type = "connectivity" /\ Word(event, eng)
    BY <1>1, <1>4 DEF HandleConnectivity, Dispatch
  <2>2. PICK d \in Connectivity(eng, event.gen, event.up) : Become(d, queue) /\ pc' # "dispatch"
    BY <1>4 DEF HandleConnectivity, Dispatch
  <2>3. event.gen = eng.generation => Active(eng)
    BY <2>1 DEF Word, Current, Callbacks
  <2>4. CASE event.gen = eng.generation
    <3>1. Follows(eng, d)
      BY <1>1, <2>2, <2>3, ConnectivityFollows
    <3> QED BY <2>2, <2>3, <2>4, <3>1, FollowsStep
  <2>5. CASE d = eng
    BY <1>1, <2>2, <2>5, RunsReflexive, RunsStep
  <2> QED BY <2>2, <2>4, <2>5 DEF Connectivity
<1>5. CASE HandleControl
  <2>1. event.call \in Calls /\ pc = "dispatch" /\ event.type = "call"
    BY <1>1, <1>5, EventFields DEF HandleControl, Dispatch
  <2>2. PICK d \in HandleCall(eng, event.call) : Become(d, queue) /\ pc' # "dispatch"
    BY <1>5 DEF HandleControl, Dispatch
  <2>3. /\ Goes(eng, d)
        /\ Begun(eng, d) => d.config.auto_auth
                            \/ event.call.action \in {"authenticate", "connect"}
    BY <1>1, <2>1, <2>2, HandleCallGoes
  <2>4. /\ WInv' /\ eng'.session = d.session
        /\ eng'.generation = d.generation /\ eng'.config = d.config
    BY <2>2, <2>3, GoesStep
  <2> QED BY <2>1, <2>3, <2>4 DEF Goes, Begun, Reasoned
<1>6. CASE HandlePower
  <2>1. Become(eng, queue) /\ pc' # "dispatch"
    BY <1>6 DEF HandlePower, Dispatch
  <2> QED BY <1>1, <2>1, RunsReflexive, RunsStep
<1>7. CASE HandleNetwork
  <2>1. PICK d \in OrFailed(NetworkChanged(eng)) : Become(d, queue) /\ pc' # "dispatch"
    BY <1>7 DEF HandleNetwork, Dispatch
  <2>2. \A o \in NetworkChanged(eng) : Reported(eng, o)
    BY <1>1, NetworkChangedReported
  <2>3. Runs(eng, d)
    BY <1>1, <2>1, <2>2, OrFailedRuns
  <2> QED BY <2>1, <2>3, RunsStep
<1> QED BY <1>2, <1>3, <1>4, <1>5, <1>6, <1>7

LEMMA DeadlineWanted ==
  ASSUME IInv, WInv, Reconcile \/ HandshakeTimeout \/ ResendStart \/ RetryNow
  PROVE  WInv' /\ Reasoned
<1>1. eng \in EngineState /\ Shape(eng) /\ link \subseteq Adapters /\ Fit(eng)
  BY DEF IInv, TypeOK, Good, WInv
<1>2. CASE Reconcile
  <2> DEFINE quiet == [eng EXCEPT !.reconcile = "armed"]
             reloaded == {quiet} \cup UNION {ApplyConfig(quiet, c) : c \in Configs \ {eng.config}}
  <2>1. PICK e \in reloaded : \E d \in OrFailed(NetworkChanged(e)) :
          Become(d, queue) /\ pc' \in {"due", "wait"}
    BY <1>2 DEF Reconcile, Due
  <2>2. PICK d \in OrFailed(NetworkChanged(e)) : Become(d, queue) /\ pc' \in {"due", "wait"}
    BY <2>1
  <2>3. quiet \in EngineState /\ Level(eng, quiet)
    BY <1>1 DEF EngineState, Deadline, Level
  <2>4. e = quiet \/ \E c \in Configs : e \in ApplyConfig(quiet, c)
    BY <2>1
  <2> HIDE DEF quiet, reloaded
  <2>5. Runs(eng, quiet) /\ Fit(quiet)
    BY <1>1, <2>3, FitLevel
  <2>6. Runs(quiet, e) /\ e \in EngineState /\ Fit(e)
    <3>1. Runs(quiet, e)
      BY <1>1, <2>3, <2>4, <2>5, RunsReflexive, ApplyConfigRuns
    <3> QED BY <3>1 DEF Runs, Goes
  <2>7. Runs(e, d) /\ d.config = e.config /\ d \in EngineState
    <3>1. \A o \in NetworkChanged(e) : Reported(e, o)
      BY <1>1, <2>6, NetworkChangedReported
    <3> QED BY <2>2, <2>6, <3>1, OrFailedRuns DEF Runs, Goes
  <2>8. Runs(quiet, d)
    BY <2>3, <2>6, <2>7, RunsTransitive DEF Runs
  <2>9. Runs(eng, d)
    BY <2>3, <2>8 DEF Level, Runs, Goes, Begun, Active, Listed
  <2> QED BY <2>2, <2>9, RunsStep
<1>3. CASE HandshakeTimeout
  <2>1. PICK d \in Failed(eng) : Become(d, queue) /\ pc' # "dispatch"
    BY <1>3 DEF HandshakeTimeout, Due
  <2>2. Active(eng)
    BY <1>1, <1>3 DEF HandshakeTimeout, Fit, Busy
  <2>3. Follows(eng, d)
    BY <1>1, <2>1, <2>2, FailedFollows
  <2> QED BY <2>1, <2>2, <2>3, FollowsStep
<1>4. CASE ResendStart
  <2> DEFINE again == [eng EXCEPT !.start = "armed"]
  <2>1. PICK d : d \in {again} \cup Failed(eng) /\ Become(d, queue) /\ pc' # "dispatch"
    BY <1>4 DEF ResendStart, Due
  <2>2. Active(eng) /\ eng.start = "expired"
    BY <1>1, <1>4 DEF ResendStart, Fit, Busy
  <2>3. again \in EngineState /\ Level(eng, again)
    BY <1>1, <2>2 DEF EngineState, Deadline, Level
  <2> HIDE DEF again
  <2>4. Follows(eng, d)
    BY <1>1, <2>1, <2>2, <2>3, LevelFollows, FailedFollows
  <2> QED BY <2>1, <2>2, <2>4, FollowsStep
<1>5. CASE RetryNow
  <2> DEFINE e == [eng EXCEPT !.retry = "off"]
  <2>1. PICK d \in OrFailed(Authenticate(e)) : Become(d, queue) /\ pc' # "dispatch"
    BY <1>5 DEF RetryNow, Due
  <2>2. ~eng.suspended /\ eng.config.auto_auth
    BY <1>1, <1>5 DEF RetryNow, Shape
  <2>3. e \in EngineState /\ Level(eng, e) /\ e.suspended = eng.suspended
    BY <1>1 DEF EngineState, Deadline, Level
  <2> HIDE DEF e
  <2>4. Runs(eng, e) /\ Fit(e) /\ e.config = eng.config
    BY <1>1, <2>3, FitLevel DEF Level
  <2>5. \A o \in Authenticate(e) : Reported(e, o)
    BY <1>1, <2>2, <2>3, <2>4, AuthenticateReported DEF Fit, Told
  <2>6. Runs(e, d) /\ d.config = e.config
    BY <2>1, <2>3, <2>5, OrFailedRuns
  <2>7. Runs(eng, d)
    BY <1>1, <2>3, <2>4, <2>6, RunsTransitive DEF Runs, Goes
  <2> QED BY <2>1, <2>7, RunsStep
<1> QED BY <1>2, <1>3, <1>4, <1>5

LEMMA StepWanted ==
  ASSUME IInv, WInv, [Next]_vars
  PROVE  WInv' /\ Reasoned
<1>1. CASE World
  BY <1>1, WorldWanted
<1>2. CASE Workers
  BY <1>2, WorkersWanted
<1>3. CASE Thread
  BY <1>3, StoppingWanted, LoopWanted, HandleWanted, DeadlineWanted DEF Thread
<1>4. CASE Finished \/ UNCHANGED vars
  BY <1>4 DEF Finished, vars, WInv, Reasoned, Begun
<1> QED BY <1>1, <1>2, <1>3, <1>4 DEF Next

-----------------------------------------------------------------------------
(* The theorem.                                                            *)

\* A capture is opened only for a user's connect, automatically where that is enabled, or
\* by fail-over to a candidate the attempt has left.  No latch, deadline or reload opens
\* another, and no late callback but one: the word of a capture that this very attempt
\* dropped when its first send failed (engine.rs authenticate, failed, retry, apply_config).
THEOREM OpenedAsWanted == Spec => OpenedOnlyIfWanted
<1>1. Init => WInv
  <2> SUFFICES ASSUME Init PROVE WInv
    OBVIOUS
  <2>1. /\ eng.state = "Idle" /\ eng.config \in Configs /\ eng.session = None
        /\ eng.probe = None /\ eng.handshake = "off" /\ eng.start = "off"
        /\ eng.spill = <<>> /\ queue = <<>> /\ pc = "boot"
    BY DEF Init
  <2> QED BY <2>1 DEF WInv, Fit, Busy, Told, SpillPast
<1>2. IInv /\ WInv /\ [Next]_vars => WInv'
  BY StepWanted
<1>3. IInv /\ IInv' /\ WInv /\ [Next]_vars =>
        [eng'.session # None /\ eng'.generation # eng.generation
         => /\ ~eng'.manual_disconnect /\ ~eng'.suspended /\ ValidAuth(eng'.config)
            /\ \/ eng'.config.auto_auth
               \/ pc = "dispatch" /\ event.type = "call"
                    /\ event.call.action \in {"authenticate", "connect"}
               \/ FailOver]_vars
  <2> SUFFICES ASSUME IInv, IInv', WInv, [Next]_vars, eng'.session # None,
                      eng'.generation # eng.generation
               PROVE  /\ ~eng'.manual_disconnect /\ ~eng'.suspended /\ ValidAuth(eng'.config)
                      /\ \/ eng'.config.auto_auth
                         \/ pc = "dispatch" /\ event.type = "call"
                              /\ event.call.action \in {"authenticate", "connect"}
                         \/ FailOver
    OBVIOUS
  <2>1. ~eng'.manual_disconnect /\ ~eng'.suspended
    BY DEF IInv, Good, Shape, Closed
  <2>2. Reasoned
    BY StepWanted
  <2> QED BY <2>1, <2>2 DEF Reasoned, Begun
<1> QED BY <1>1, <1>2, <1>3, Inductive, PTL DEF Spec, OpenedOnlyIfWanted
=============================================================================
