-------------------------------- MODULE MCHost --------------------------------
(* Instances of Host for TLC. *)
EXTENDS Host

CONSTANT s1

\* What an authenticator sends.
Exchanges == [src : {s1}, here : {TRUE}, kind : {"request", "success", "failure"}]

\* The service moves beside a probe of one adapter and beside a logoff.
Probing == {<<"probe", 1>>, <<"logoff", 1>>}
=============================================================================
