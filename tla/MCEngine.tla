------------------------------ MODULE MCEngine ------------------------------
(* Instances of Engine for TLC. *)
EXTENDS EngineInvariant, TLC

CONSTANTS a1, a2, s1, s2

\* The adapter with the larger score is a1.
MCRank == [a \in Adapters |-> IF a = a1 THEN 2 ELSE 1]

Conf(auto, account, iface) ==
  [auto_auth |-> auto, account |-> account, complete |-> account # "", iface |-> iface]

AutoOn == {Conf(TRUE, "user", AutoIface)}
AutoAny == {Conf(auto, "user", AutoIface) : auto \in BOOLEAN}
Chosen == AutoAny \cup {Conf(TRUE, "user", a1)}
Several == {Conf(TRUE, "user", AutoIface), Conf(FALSE, "", a2), Conf(FALSE, "user", AutoIface)}

Wire(servers, kinds) == [src : servers, here : {TRUE}, kind : kinds]
Accepted == Wire({s1}, {"request", "success"})
Exchanges == Wire({s1}, {"request", "success", "failure"})
Noise == [src |-> s1, here |-> FALSE, kind |-> "success"]
AllFrames == Wire({s1, s2}, FrameKinds) \cup {Noise}

UserCalls == [action : {"authenticate", "logoff", "interfaces"}]
LifeCalls == [action : {"set_config"}, config : {Conf(FALSE, "", a2)}]
               \cup [action : {"connect"}, config : {Conf(FALSE, "user", AutoIface)}]
               \cup [action : {"authenticate", "logoff"}]
Reconnects == [action : {"authenticate"}]
AllPowers == PowerEvent
NoPowers == {}
=============================================================================
